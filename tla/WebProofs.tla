------------------------------ MODULE WebProofs ------------------------------
(***************************************************************************)
(* What holds of the pages of the front end for any number of calls        *)
(* pending.                                                                *)
(***************************************************************************)
EXTENDS MCWeb, SequenceTheorems, FiniteSetTheorems, TLAPS

IsCall(c) == c = [op |-> c.op, arg |-> c.arg, ans |-> c.ans, bare |-> c.bare]

\* A sequence of calls to the operations ops.
Calls(q, ops) ==
  /\ Len(q) \in Nat
  /\ q = [k \in 1..Len(q) |-> q[k]]
  /\ \A k \in 1..Len(q) : IsCall(q[k]) /\ q[k].op \in ops

\* No call is answered before an older one, and no answer is lost.
InOrder(q) ==
  \A k \in 1..Len(q) :
    q[k].ans # Pending => q[k].ans.code = "ok" /\ \A j \in 1..(k - 1) : q[j].ans # Pending

\* The pending calls; without a mishap they are answered in their order.
Queue(ops) == Calls(net, ops) /\ mishap \in BOOLEAN /\ (~mishap => InOrder(net))

\* Call c with answer a.
With(c, a) == [op |-> c.op, arg |-> c.arg, ans |-> a, bare |-> c.bare]

\* Queue q after call i was answered.
Answer(q, i, a) == [q EXCEPT ![i].ans = a]
------------------------------------------------------------------------------
(***************************************************************************)
(* The steps of the queue.                                                 *)
(***************************************************************************)
\* A sequence given by its elements is one over the set of them.
LEMMA Elements ==
  ASSUME NEW s, Len(s) \in Nat, s = [k \in 1..Len(s) |-> s[k]]
  PROVE  s \in Seq({s[k] : k \in 1..Len(s)})
OBVIOUS

\* And the other way round.
LEMMA ByElements ==
  ASSUME NEW S, NEW s \in Seq(S)
  PROVE  Len(s) \in Nat /\ s = [k \in 1..Len(s) |-> s[k]]
OBVIOUS

\* A call put behind a sequence.
LEMMA PutBehind ==
  ASSUME NEW s, Len(s) \in Nat, s = [k \in 1..Len(s) |-> s[k]], NEW c
  PROVE  LET t == s \o <<c>> IN
         /\ Len(t) = Len(s) + 1
         /\ t = [k \in 1..Len(t) |-> t[k]]
         /\ \A k \in 1..Len(s) : t[k] = s[k]
         /\ t[Len(s) + 1] = c
<1>1. s \in Seq({s[k] : k \in 1..Len(s)} \cup {c}) /\ <<c>> \in Seq({s[k] : k \in 1..Len(s)} \cup {c})
  BY Elements
<1>. QED BY <1>1

\* One call taken out of a sequence.
LEMMA TakenOut ==
  ASSUME NEW s, Len(s) \in Nat, s = [k \in 1..Len(s) |-> s[k]], NEW i \in 1..Len(s)
  PROVE  LET t == RemoveAt(s, i) IN
         /\ Len(t) = Len(s) - 1
         /\ t = [k \in 1..Len(t) |-> t[k]]
         /\ \A k \in 1..(Len(s) - 1) : t[k] = s[IF k < i THEN k ELSE k + 1]
<1>1. s \in Seq({s[k] : k \in 1..Len(s)})
  BY Elements
<1>. DEFINE S == {s[k] : k \in 1..Len(s)}
            before == SubSeq(s, 1, i - 1)
            after  == SubSeq(s, i + 1, Len(s))
<1>2. /\ before \in Seq(S) /\ Len(before) = i - 1
      /\ \A k \in 1..(i - 1) : before[k] = s[k]
  <2>1. \A k \in 1..(i - 1) : s[k] \in S
    OBVIOUS
  <2>2. /\ SubSeq(s, 1, i - 1) \in Seq(S)
        /\ Len(SubSeq(s, 1, i - 1)) = IF 1 <= i - 1 THEN (i - 1) - 1 + 1 ELSE 0
        /\ \A k \in 1..((i - 1) - 1 + 1) : SubSeq(s, 1, i - 1)[k] = s[1 + k - 1]
    BY <2>1, SubSeqProperties
  <2>. QED BY <2>2
<1>3. /\ after \in Seq(S) /\ Len(after) = Len(s) - i
      /\ \A k \in 1..(Len(s) - i) : after[k] = s[i + k]
  <2>1. \A k \in (i + 1)..Len(s) : s[k] \in S
    OBVIOUS
  <2>2. /\ SubSeq(s, i + 1, Len(s)) \in Seq(S)
        /\ Len(SubSeq(s, i + 1, Len(s))) = IF i + 1 <= Len(s) THEN Len(s) - (i + 1) + 1 ELSE 0
        /\ \A k \in 1..(Len(s) - (i + 1) + 1) : SubSeq(s, i + 1, Len(s))[k] = s[i + 1 + k - 1]
    <3>1. i + 1 \in Int /\ Len(s) \in Int
      OBVIOUS
    <3>. QED BY <2>1, <3>1, SubSeqProperties
  <2>. QED BY <2>2
<1>4. RemoveAt(s, i) = before \o after
  BY DEF RemoveAt
<1>. HIDE DEF S, before, after
<1>5. /\ Len(before \o after) = Len(before) + Len(after)
      /\ before \o after \in Seq(S)
      /\ \A k \in 1..(Len(before) + Len(after)) :
           (before \o after)[k] = IF k <= Len(before) THEN before[k] ELSE after[k - Len(before)]
  BY <1>2, <1>3, ConcatProperties
<1>6. ASSUME NEW k \in 1..(Len(s) - 1)
      PROVE  (before \o after)[k] = s[IF k < i THEN k ELSE k + 1]
  <2>1. CASE k < i
    BY <2>1, <1>2, <1>3, <1>5
  <2>2. CASE ~(k < i)
    <3>1. k - (i - 1) \in 1..(Len(s) - i)
      BY <2>2
    <3>2. (before \o after)[k] = after[k - (i - 1)]
      BY <2>2, <1>2, <1>3, <1>5
    <3>3. after[k - (i - 1)] = s[i + (k - (i - 1))]
      BY <3>1, <1>3
    <3>4. i + (k - (i - 1)) = k + 1
      OBVIOUS
    <3>. QED BY <3>2, <3>3, <3>4, <2>2
  <2>. QED BY <2>1, <2>2
<1>7. Len(before \o after) = Len(s) - 1
  BY <1>2, <1>3, <1>5
<1>8. before \o after = [k \in 1..Len(before \o after) |-> (before \o after)[k]]
  BY <1>5, ByElements
<1>. QED BY <1>4, <1>6, <1>7, <1>8

\* A new call is the youngest of its queue.
LEMMA YoungestCall ==
  ASSUME NEW q, NEW ops, Calls(q, ops), NEW c, IsCall(c), c.op \in ops, c.ans = Pending
  PROVE  Calls(q \o <<c>>, ops) /\ (InOrder(q) => InOrder(q \o <<c>>))
<1>. DEFINE t == q \o <<c>>
<1>1. /\ Len(t) = Len(q) + 1
      /\ t = [k \in 1..Len(t) |-> t[k]]
      /\ \A k \in 1..Len(q) : t[k] = q[k]
      /\ t[Len(q) + 1] = c
      /\ Len(q) \in Nat
  BY PutBehind DEF Calls
<1>. HIDE DEF t
<1>2. Calls(t, ops)
  BY <1>1 DEF Calls
<1>3. InOrder(q) => InOrder(t)
  BY <1>1 DEF InOrder
<1>. QED BY <1>2, <1>3 DEF t

\* Any call leaves a queue behind; the oldest one leaves it in order.
LEMMA CallsLeft ==
  ASSUME NEW q, NEW ops, Calls(q, ops), NEW i \in 1..Len(q)
  PROVE  /\ Calls(RemoveAt(q, i), ops)
         /\ InOrder(q) /\ i = 1 => InOrder(RemoveAt(q, i))
<1>. DEFINE t == RemoveAt(q, i)
<1>1. /\ Len(t) = Len(q) - 1
      /\ t = [k \in 1..Len(t) |-> t[k]]
      /\ \A k \in 1..(Len(q) - 1) : t[k] = q[IF k < i THEN k ELSE k + 1]
      /\ Len(q) \in Nat
  BY TakenOut DEF Calls
<1>. HIDE DEF t
<1>2. Calls(t, ops)
  BY <1>1 DEF Calls
<1>3. ASSUME InOrder(q), i = 1 PROVE InOrder(t)
  <2>1. \A k \in 1..Len(t) : t[k] = q[k + 1] /\ k + 1 \in 1..Len(q)
    BY <1>1, <1>3
  <2>2. ASSUME NEW k \in 1..Len(t), t[k].ans # Pending
        PROVE  t[k].ans.code = "ok" /\ \A j \in 1..(k - 1) : t[j].ans # Pending
    <3>1. q[k + 1].ans # Pending /\ k + 1 \in 1..Len(q) /\ t[k] = q[k + 1]
      BY <2>1, <2>2
    <3>2. q[k + 1].ans.code = "ok" /\ \A j \in 1..k : q[j].ans # Pending
      BY <3>1, <1>3 DEF InOrder
    <3>3. \A j \in 1..(k - 1) : j \in 1..Len(t) /\ j + 1 \in 1..k
      BY <1>1
    <3>. QED BY <3>1, <3>2, <3>3, <2>1
  <2>. QED BY <2>2 DEF InOrder
<1>. QED BY <1>2, <1>3 DEF t

\* An answered call keeps its place.
LEMMA CallAnswered ==
  ASSUME NEW q, NEW ops, Calls(q, ops), NEW i \in 1..Len(q), NEW a
  PROVE  /\ Calls(Answer(q, i, a), ops)
         /\ Len(Answer(q, i, a)) = Len(q)
         /\ \A k \in 1..Len(q) : Answer(q, i, a)[k] = IF k = i THEN With(q[i], a) ELSE q[k]
<1>. DEFINE t == Answer(q, i, a)
<1>1. t = [k \in 1..Len(q) |-> IF k = i THEN [q[i] EXCEPT !.ans = a] ELSE q[k]]
  BY DEF Calls, Answer
<1>2. [q[i] EXCEPT !.ans = a] = With(q[i], a)
  BY DEF Calls, IsCall, With
<1>. HIDE DEF t
<1>3. Len(t) = Len(q) /\ \A k \in 1..Len(q) : t[k] = IF k = i THEN With(q[i], a) ELSE q[k]
  <2>1. Len(q) \in Nat
    BY DEF Calls
  <2>. QED BY <1>1, <1>2, <2>1
<1>4. IsCall(With(q[i], a)) /\ With(q[i], a).op \in ops
  BY DEF Calls, IsCall, With
<1>5. t = [k \in 1..Len(t) |-> t[k]]
  BY <1>1, <1>3
<1>6. Calls(t, ops)
  BY <1>3, <1>4, <1>5 DEF Calls
<1>. QED BY <1>3, <1>6 DEF t

\* The page's state is s, and call c is behind the calls there were.
Started(ops, s, c) ==
  /\ Queue(ops)'
  /\ Len(net') = Len(net) + 1 /\ Len(net) \in Nat
  /\ \A k \in 1..Len(net) : net'[k] = net[k]
  /\ net'[Len(net) + 1] = c
  /\ ui' = s /\ page' = page /\ srv' = srv /\ mishap' = mishap

\* The page's state is s, and no call is new.
Updated(ops, s) ==
  /\ Queue(ops)'
  /\ ui' = s /\ net' = net /\ page' = page /\ srv' = srv /\ mishap' = mishap

\* Call i has the answer v, or failed on its way back, and the service holds s.
\* Without a mishap i was the oldest one pending, and its answer is not lost.
Replied(ops, i, v, s) ==
  /\ Queue(ops)'
  /\ Len(net') = Len(net) /\ Len(net) \in Nat
  /\ \A k \in 1..Len(net) : k # i => net'[k] = net[k]
  /\ net'[i].op = net[i].op /\ net'[i].arg = net[i].arg
  /\ net'[i].ans # Pending /\ (net'[i].ans.code = "ok" => net'[i].ans = Ok(v))
  /\ net[i].ans = Pending
  /\ srv' = s /\ page' = page /\ ui' = ui
  /\ mishap' \in BOOLEAN /\ (mishap => mishap')
  /\ ~mishap' => /\ net'[i].ans = Ok(v)
                 /\ \A k \in 1..(i - 1) : net[k].ans # Pending
                 /\ \A k \in i..Len(net) : net[k].ans = Pending

\* Call i was refused or failed on its way.
Denied(ops, i) ==
  /\ Queue(ops)'
  /\ mishap' = TRUE /\ page' = page /\ ui' = ui /\ srv' = srv
  /\ Len(net') = Len(net) /\ Len(net) \in Nat
  /\ \A k \in 1..Len(net) : k # i => net'[k] = net[k]
  /\ net'[i].op = net[i].op /\ net'[i].arg = net[i].arg
  /\ net'[i].ans # Pending /\ net'[i].ans.code # "ok"
  /\ net[i].ans = Pending

\* Call i is gone and the page's state is s.  Without a mishap i was the oldest.
Settled(ops, i, s) ==
  /\ Queue(ops)'
  /\ Len(net') = Len(net) - 1 /\ Len(net) \in Nat
  /\ \A k \in 1..(Len(net) - 1) : net'[k] = net[IF k < i THEN k ELSE k + 1]
  /\ ui' = s /\ page' = page /\ srv' = srv
  /\ mishap' \in BOOLEAN /\ (mishap => mishap')
  /\ ~mishap' => i = 1 /\ IsOk(1)

\* And call c is behind the calls that are left.
SettledWith(ops, i, s, c) ==
  /\ Queue(ops)'
  /\ Len(net') = Len(net) /\ Len(net) \in Nat
  /\ \A k \in 1..(Len(net) - 1) : net'[k] = net[IF k < i THEN k ELSE k + 1]
  /\ net'[Len(net)] = c
  /\ ui' = s /\ page' = page /\ srv' = srv
  /\ mishap' \in BOOLEAN /\ (mishap => mishap')
  /\ ~mishap' => i = 1 /\ IsOk(1)

\* A handler that starts one call.
LEMMA HandlesOne ==
  ASSUME NEW ops, Queue(ops), NEW s, NEW c, IsCall(c), c.op \in ops, c.ans = Pending,
         Handle(s, <<c>>)
  PROVE  Started(ops, s, c)
<1>1. net' = net \o <<c>> /\ ui' = s /\ page' = page /\ srv' = srv /\ mishap' = mishap
  BY DEF Handle
<1>2. Calls(net, ops)
  BY DEF Queue
<1>3. Calls(net', ops) /\ (InOrder(net) => InOrder(net'))
  BY <1>1, <1>2, YoungestCall
<1>4. /\ Len(net') = Len(net) + 1
      /\ \A k \in 1..Len(net) : net'[k] = net[k]
      /\ net'[Len(net) + 1] = c
  BY <1>1, <1>2, PutBehind DEF Calls
<1>. QED BY <1>1, <1>3, <1>4 DEF Queue, Started

\* A handler that starts none.
LEMMA HandlesNone ==
  ASSUME NEW ops, Queue(ops), NEW s, Update(s)
  PROVE  Updated(ops, s)
<1>1. net' = net \o << >> /\ ui' = s /\ page' = page /\ srv' = srv /\ mishap' = mishap
  BY DEF Update, Handle
<1>2. net' = net
  BY <1>1, Elements, ConcatEmptySeq DEF Queue, Calls
<1>. QED BY <1>1, <1>2 DEF Queue, Updated

\* A call answered.  Without a mishap it is the oldest one pending, and its
\* answer is not lost.
LEMMA Replies ==
  ASSUME NEW ops, Queue(ops), NEW i \in 1..Len(net), NEW v, NEW s, Reply(i, v, s)
  PROVE  Replied(ops, i, v, s)
<1>1. PICK a \in {Ok(v), Failed} :
        /\ net' = Answer(net, i, a)
        /\ mishap' = (mishap \/ a = Failed \/ \E j \in 1..(i - 1) : net[j].ans = Pending)
  BY DEF Reply, Answer
<1>2. net[i].ans = Pending /\ srv' = s /\ page' = page /\ ui' = ui
  BY DEF Reply
<1>3. /\ Calls(net', ops) /\ Len(net') = Len(net)
      /\ \A k \in 1..Len(net) : net'[k] = IF k = i THEN With(net[i], a) ELSE net[k]
      /\ Len(net) \in Nat
  <2>1. Calls(net, ops) /\ Len(net) \in Nat
    BY DEF Queue, Calls
  <2>. QED BY <1>1, <2>1, CallAnswered
<1>4. mishap' \in BOOLEAN /\ (mishap => mishap') /\ (~mishap' => a = Ok(v))
  BY <1>1 DEF Queue
<1>5. ASSUME ~mishap'
      PROVE  /\ \A k \in 1..(i - 1) : net[k].ans # Pending
             /\ \A k \in i..Len(net) : net[k].ans = Pending
             /\ InOrder(net')
  <2>1. \A k \in 1..(i - 1) : net[k].ans # Pending
    BY <1>1, <1>5
  <2>2. InOrder(net)
    BY <1>1, <1>5 DEF Queue
  <2>3. \A k \in i..Len(net) : net[k].ans = Pending
    BY <2>2, <1>2, <1>3 DEF InOrder
  <2>4. Ok(v).code = "ok" /\ Ok(v) # Pending
    BY DEF Ok, Pending
  <2>5. With(net[i], a).ans = Ok(v)
    BY <1>4, <1>5 DEF With
  <2>6. ASSUME NEW k \in 1..Len(net), net'[k].ans # Pending
        PROVE  net'[k].ans.code = "ok" /\ \A j \in 1..(k - 1) : net'[j].ans # Pending
    <3>1. k <= i
      BY <2>3, <2>6, <1>3
    <3>2. net'[k].ans.code = "ok"
      BY <2>2, <2>4, <2>5, <2>6, <1>3 DEF InOrder
    <3>. QED BY <3>1, <3>2, <2>1, <1>3
  <2>. QED BY <2>1, <2>3, <2>6, <1>3 DEF InOrder
<1>6. Queue(ops)'
  BY <1>3, <1>4, <1>5 DEF Queue
<1>7. net'[i] = With(net[i], a) /\ \A k \in 1..Len(net) : k # i => net'[k] = net[k]
  BY <1>3
<1>8. /\ net'[i].op = net[i].op /\ net'[i].arg = net[i].arg /\ net'[i].ans = a
  BY <1>7 DEF With
<1>9. a # Pending /\ (a.code = "ok" => a = Ok(v))
  BY <1>1 DEF Ok, Failed, Pending
<1>. QED BY <1>2, <1>3, <1>4, <1>5, <1>6, <1>7, <1>8, <1>9 DEF Replied

\* A call refused, or failed on its way.
LEMMA Denies ==
  ASSUME NEW ops, Queue(ops), NEW i \in 1..Len(net), Deny(i)
  PROVE  Denied(ops, i)
<1>1. PICK a \in {Failed, Refused} : net' = Answer(net, i, a)
  BY DEF Deny, Answer
<1>2. mishap' = TRUE /\ page' = page /\ ui' = ui /\ srv' = srv
  BY DEF Deny
<1>3. /\ Calls(net', ops) /\ Len(net') = Len(net)
      /\ \A k \in 1..Len(net) : net'[k] = IF k = i THEN With(net[i], a) ELSE net[k]
  <2>1. Calls(net, ops)
    BY DEF Queue
  <2>. QED BY <1>1, <2>1, CallAnswered
<1>4. Queue(ops)' /\ Len(net) \in Nat
  BY <1>2, <1>3 DEF Queue, Calls
<1>5. net'[i] = With(net[i], a) /\ \A k \in 1..Len(net) : k # i => net'[k] = net[k]
  BY <1>3
<1>6. net'[i].op = net[i].op /\ net'[i].arg = net[i].arg /\ net'[i].ans = a
  BY <1>5 DEF With
<1>7. a # Pending /\ a.code # "ok"
  BY <1>1 DEF Refused, Failed, Pending
<1>8. net[i].ans = Pending
  BY DEF Deny
<1>. QED BY <1>2, <1>3, <1>4, <1>5, <1>6, <1>7, <1>8 DEF Denied

\* A continuation that starts no call.  Without a mishap it is the oldest
\* call's.
LEMMA SettlesNone ==
  ASSUME NEW ops, Queue(ops), NEW i \in 1..Len(net), net[i].ans # Pending, NEW s,
         Settle(i, s, << >>)
  PROVE  Settled(ops, i, s)
<1>1. /\ net' = RemoveAt(net, i) \o << >> /\ ui' = s /\ page' = page /\ srv' = srv
      /\ mishap' = (mishap \/ i > 1)
  BY DEF Settle
<1>2. Calls(RemoveAt(net, i), ops) /\ (InOrder(net) /\ i = 1 => InOrder(RemoveAt(net, i)))
  BY CallsLeft DEF Queue
<1>3. net' = RemoveAt(net, i)
  BY <1>1, <1>2, Elements, ConcatEmptySeq DEF Calls
<1>4. /\ Len(net') = Len(net) - 1
      /\ \A k \in 1..(Len(net) - 1) : net'[k] = net[IF k < i THEN k ELSE k + 1]
  BY <1>3, TakenOut DEF Queue, Calls
<1>5. mishap' \in BOOLEAN /\ (mishap => mishap') /\ (~mishap' => i = 1)
  <2>1. i \in Nat /\ i >= 1 /\ mishap \in BOOLEAN
    BY DEF Queue, Calls
  <2>2. CASE i > 1
    BY <2>1, <2>2, <1>1
  <2>3. CASE i = 1
    BY <2>1, <2>3, <1>1
  <2>. QED BY <2>1, <2>2, <2>3
<1>6. ~mishap' => IsOk(1)
  BY <1>5 DEF Queue, InOrder, IsOk
<1>7. Queue(ops)'
  BY <1>2, <1>3, <1>5 DEF Queue
<1>. QED BY <1>1, <1>4, <1>5, <1>6, <1>7 DEF Settled

\* A continuation that starts a call.
LEMMA SettlesOne ==
  ASSUME NEW ops, Queue(ops), NEW i \in 1..Len(net), net[i].ans # Pending, NEW s,
         NEW c, IsCall(c), c.op \in ops, c.ans = Pending, Settle(i, s, <<c>>)
  PROVE  SettledWith(ops, i, s, c)
<1>. DEFINE rest == RemoveAt(net, i)
<1>1. /\ net' = rest \o <<c>> /\ ui' = s /\ page' = page /\ srv' = srv
      /\ mishap' = (mishap \/ i > 1)
  BY DEF Settle
<1>2. Calls(rest, ops) /\ (InOrder(net) /\ i = 1 => InOrder(rest))
  BY CallsLeft DEF Queue
<1>3. /\ Len(rest) = Len(net) - 1
      /\ \A k \in 1..(Len(net) - 1) : rest[k] = net[IF k < i THEN k ELSE k + 1]
      /\ Len(net) \in Nat
  BY TakenOut DEF Queue, Calls
<1>. HIDE DEF rest
<1>4. /\ Calls(net', ops)
      /\ InOrder(rest) => InOrder(net')
  BY <1>1, <1>2, YoungestCall
<1>5. /\ Len(net') = Len(rest) + 1
      /\ \A k \in 1..Len(rest) : net'[k] = rest[k]
      /\ net'[Len(rest) + 1] = c
  BY <1>1, <1>2, PutBehind DEF Calls
<1>6. /\ Len(net') = Len(net)
      /\ \A k \in 1..(Len(net) - 1) : net'[k] = net[IF k < i THEN k ELSE k + 1]
      /\ net'[Len(net)] = c
  BY <1>3, <1>5
<1>7. mishap' \in BOOLEAN /\ (mishap => mishap') /\ (~mishap' => i = 1)
  <2>1. i \in Nat /\ i >= 1 /\ mishap \in BOOLEAN
    BY DEF Queue, Calls
  <2>2. CASE i > 1
    BY <2>1, <2>2, <1>1
  <2>3. CASE i = 1
    BY <2>1, <2>3, <1>1
  <2>. QED BY <2>1, <2>2, <2>3
<1>8. ~mishap' => IsOk(1)
  BY <1>7 DEF Queue, InOrder, IsOk
<1>9. Queue(ops)'
  BY <1>2, <1>4, <1>7 DEF Queue
<1>. QED BY <1>1, <1>6, <1>7, <1>8, <1>9 DEF SettledWith
------------------------------------------------------------------------------
(***************************************************************************)
(* Which pages a step belongs to.                                          *)
(***************************************************************************)
ReactionPages == {"vote", "poll", "tip", "event", "video", "card"}
ReactionOps   == {"score", "cast", "myVote", "tally", "tallyFirst", "pollVote", "once", "video",
                  "videoLike", "videoMark", "videoNote", "cardLike", "cardMark"}
FeedsPages == {"feed", "creations", "interactions", "profile"}
FeedsOps   == {"feed", "creations", "delete", "visibility", "withdraw", "interactions",
               "followToggle", "profile", "profileFollowers", "profileFollowing", "follow"}
ChatOps    == {"load", "markRead", "poll", "send"}
SpacePages == {"spacePosts", "space", "subscribe", "spaceEdit"}
SpaceOps   == {"posts", "pin", "feature", "hide", "unhide", "space", "status", "toggle",
               "joinSpace", "getSub", "cancelSub", "subscribe", "uploadIcon", "saveSpace"}
PostPages  == {"post", "notes", "postEdit"}
ReadOps    == {"getPost", "getCreation", "getComments", "view", "isFollowed", "followAuthor",
               "likePost", "markPost", "unlock", "getNotes", "comment", "likeNote", "savePost",
               "deletePost"}
EditorPages == {"compose", "upload"}
EditorOps   == {"create", "file", "upload", "publish"}

\* Lists and forms are stepped on their own pages only.
LEMMA ListSteps ==
  ASSUME NEW i PROVE ListUser \/ ListService(i) \/ ListThen(i) => page \in ListPages
<1>1. ListUser => page \in ListPages
  BY DEF ListUser, ListGo, Refresh, ChooseAgain, DoAct, ToggleSelect, ToggleAll, StartBatch,
    ListPages, Rows
<1>2. ListService(i) => page \in ListPages
  BY DEF ListService, ListServed, ActServed, BatchServed
<1>3. ListThen(i) => page \in ListPages
  BY DEF ListThen, ListFetched, ActDone, BatchGoesOn, BatchDone
<1>. QED BY <1>1, <1>2, <1>3

\* The steps of the forms belong to the form pages.
LEMMA FormsSteps ==
  ASSUME NEW i PROVE FormsUser \/ FormsService(i) \/ FormsThen(i) => page \in FormPages
<1>1. FormsUser => page \in FormPages
  BY DEF FormsUser, SendForm, TypeField, FormShown
<1>2. FormsService(i) => page \in FormPages
  BY DEF FormsService, FillServed, CheckServed, FormStored
<1>3. FormsThen(i) => page \in FormPages
  BY DEF FormsThen, FillDone, CheckDone, FormDone
<1>. QED BY <1>1, <1>2, <1>3

\* The steps of votes, polls, tips, video and cards belong to their pages.
LEMMA ReactionsSteps ==
  ASSUME NEW i
  PROVE  /\ ReactionsUser => page \in ReactionPages
         /\ ReactionsService(i) \/ ReactionsThen(i) => net[i].op \in ReactionOps
<1>1. ReactionsUser => page \in ReactionPages
  BY DEF ReactionsUser, HandleVote, HandlePollVote, HandleTip, HandleJoin, HandleVideoLike, HandleVideoMark,
    TypeVideoNote, HandleVideoNote, CardLike, CardMark, ReactionPages
<1>2. ReactionsService(i) => net[i].op \in ReactionOps
  BY DEF ReactionsService, ScoreServed, CastServed, MyVoteServed, TallyServed, PollVoteServed,
    OnceServed, VideoServed, VideoActServed, CardServed, Asked, ReactionOps
<1>3. ReactionsThen(i) => net[i].op \in ReactionOps
  BY DEF ReactionsThen, ScoreLoaded, CastDone, MyVoteChecked, TallyRefreshed, PollVoteDone,
    OnceDone, VideoLoaded, VideoActDone, CardDone, Answered, ReactionOps
<1>. QED BY <1>1, <1>2, <1>3

\* The steps of feed, creation center, profile and interactions belong to theirs.
LEMMA FeedsSteps ==
  ASSUME NEW i
  PROVE  /\ FeedsUser => page \in FeedsPages
         /\ FeedsService(i) \/ FeedsThen(i) => net[i].op \in FeedsOps
<1>1. FeedsUser => page \in FeedsPages
  BY DEF FeedsUser, FeedTab, FeedScroll, GoToPage, SetFilter, LoadMoreCreations, ActOnCreation,
    InteractionTab, FollowToggle, HandleFollow, FeedsPages
<1>2. FeedsService(i) => net[i].op \in FeedsOps
  BY DEF FeedsService, FeedServed, CreationsServed, CreationActServed, InteractionsServed,
    FollowToggleServed, ProfileServed, FollowServed, Asked, FeedsOps
<1>3. FeedsThen(i) => net[i].op \in FeedsOps
  BY DEF FeedsThen, FeedLoaded, CreationsLoaded, CreationActDone, Reloading, InteractionsLoaded,
    FollowToggled, ProfileLoaded, FollowDone, Answered, FeedsOps
<1>. QED BY <1>1, <1>2, <1>3

\* A thread and a space share the name of a call.
LEMMA ChatSteps ==
  ASSUME NEW i
  PROVE  /\ ChatUser => page \in ChatPages
         /\ ChatService(i) => page \in ChatPages
         /\ ChatThen(i) => page \in ChatPages \/ net[i].op \in ChatOps
<1>1. ChatUser => page \in ChatPages
  BY DEF ChatUser, Interval, TypeMessage, HandleSend, OnThread, ThreadDo, ChatPages
<1>2. ChatService(i) => page \in ChatPages
  BY DEF ChatService, LoadServed, MarkServed, SendServed, ThreadServed, ChatPages
<1>3. ChatThen(i) => page \in ChatPages \/ net[i].op \in ChatOps
  BY DEF ChatThen, LoadAnswered, MarkDone, SendDone, ThreadDone, Answered, ChatOps, ChatPages
<1>. QED BY <1>1, <1>2, <1>3

\* The steps of the space page belong to its pages.
LEMMA SpaceSteps ==
  ASSUME NEW i
  PROVE  /\ SpaceUser => page \in SpacePages
         /\ SpaceService(i) \/ SpaceThen(i) => net[i].op \in SpaceOps
<1>1. SpaceUser => page \in SpacePages
  BY DEF SpaceUser, SetPostKey, PostAct, HandleToggle, SpaceShown, HandleJoinSpace, HandleSubscribe,
    OpenEdit, EditField, CloseEdit, HandleSaveSpaceEdit, HandleUploadIcon, SpacePages
<1>2. SpaceService(i) => net[i].op \in SpaceOps
  BY DEF SpaceService, PostsServed, PostActServed, PostOps, SpaceServed, ToggleServed, JoinSpaceServed,
    GetSubServed, SubscribeServed, UploadServed, SaveSpaceServed, Asked, SpaceOps
<1>3. SpaceThen(i) => net[i].op \in SpaceOps
  BY DEF SpaceThen, PostsFetched, PostActDone, PostOps, SpaceFetched, ToggleDone, JoinSpaceDone,
    GetSubDone, SubscribeDone, UploadDone, SaveSpaceDone, Answered, SpaceOps
<1>. QED BY <1>1, <1>2, <1>3

\* The steps of the post page belong to its pages.
LEMMA PostSteps ==
  ASSUME NEW i
  PROVE  /\ PostUser => page \in PostPages
         /\ PostService(i) \/ PostThen(i) => net[i].op \in ReadOps
<1>1. PostUser => page \in PostPages
  BY DEF PostUser, HandleFollowAuthor, HandleLike, HandleBookmark, HandleUnlock, PostShown,
    TypeComment, TypeReply, NotesOpen, HandleComment, HandleEdit, HandleCancelEdit, HandleSaveEdit,
    HandleDelete, SetForm, EditorShown, PostPages
<1>2. PostService(i) => net[i].op \in ReadOps
  BY DEF PostService, GetPostServed, ViewServed, ReaderServed, ReaderOps, NotesServed, EditorServed,
    Asked, ReadOps
<1>3. PostThen(i) => net[i].op \in ReadOps
  BY DEF PostThen, PostLoaded, ViewDone, ReaderDone, NotesDone, EditorDone, Answered, ReadOps
<1>. QED BY <1>1, <1>2, <1>3

\* The steps of editor and upload belong to their pages.
LEMMA EditorSteps ==
  ASSUME NEW i
  PROVE  /\ EditorUser => page \in EditorPages
         /\ EditorService(i) \/ EditorThen(i) => net[i].op \in EditorOps
<1>1. EditorUser => page \in EditorPages
  BY DEF EditorUser, TypeText, EditorReports, TypeTitle, SetIsFullscreen, RestoreDraft, DiscardDraft,
    HandleFile, HandleSubmitText, ComposeShown, Reload, SetVideoFile, HandleVideoUpload, UploadMore,
    SetSubmission, EditorPages
<1>2. EditorService(i) => net[i].op \in EditorOps
  BY DEF EditorService, CreateServed, FileServed, VideoPublished, Asked, EditorOps
<1>3. EditorThen(i) => net[i].op \in EditorOps
  BY DEF EditorThen, CreateDone, FileDone, VideoUploadDone, Answered, EditorOps
<1>. QED BY <1>1, <1>2, <1>3
------------------------------------------------------------------------------
\* Lists and forms are pages of their own.
LEMMA OtherPages ==
  ASSUME page \in ReactionPages \cup FeedsPages \cup SpacePages \cup PostPages \cup EditorPages
  PROVE  page \notin ListPages /\ page \notin FormPages /\ page \notin ChatPages
<1>1. page \notin ListPages
  BY DEF ReactionPages, FeedsPages, SpacePages, PostPages, EditorPages, ListPages, Rows
<1>2. page \notin FormPages /\ page \notin ChatPages
  BY DEF ReactionPages, FeedsPages, SpacePages, PostPages, EditorPages, FormPages, FormRows, ChatPages
<1>. QED BY <1>1, <1>2

\* The places of the queue are its indices.
LEMMA InDomain ==
  ASSUME NEW ops, Queue(ops) PROVE DOMAIN net = 1..Len(net)
BY DEF Queue, Calls

\* On a page of reactions only reactions and failures happen; and so on for the
\* pages of the other modules.
LEMMA ReactionsNext ==
  ASSUME page \in ReactionPages, Queue(ReactionOps), Next
  PROVE  \/ ReactionsUser
         \/ \E i \in 1..Len(net) : ReactionsService(i) \/ ReactionsThen(i) \/ Deny(i)
<1>1. /\ page \notin ListPages /\ page \notin FormPages /\ page \notin ChatPages
      /\ page \notin FeedsPages /\ page \notin SpacePages /\ page \notin PostPages /\ page \notin EditorPages
  BY OtherPages DEF ReactionPages, FeedsPages, SpacePages, PostPages, EditorPages
<1>2. CASE User
  BY <1>1, <1>2, ListSteps, FormsSteps, ChatSteps, FeedsSteps, SpaceSteps, PostSteps, EditorSteps DEF User
<1>3. ASSUME NEW i \in DOMAIN net, Service(i) \/ Then(i)
      PROVE  ReactionsService(i) \/ ReactionsThen(i) \/ Deny(i)
  <2>1. i \in 1..Len(net) /\ net[i].op \in ReactionOps
    BY InDomain DEF Queue, Calls
  <2>2. /\ net[i].op \notin ChatOps
        /\ net[i].op \notin FeedsOps /\ net[i].op \notin SpaceOps
        /\ net[i].op \notin ReadOps /\ net[i].op \notin EditorOps
    BY <2>1 DEF ReactionOps, FeedsOps, ChatOps, SpaceOps, ReadOps, EditorOps
  <2>. QED BY <1>1, <1>3, <2>2, ListSteps, FormsSteps, ChatSteps, FeedsSteps, SpaceSteps, PostSteps, EditorSteps
         DEF Service, Then
<1>. QED BY <1>2, <1>3, InDomain DEF Next

\* On a page of feeds.
LEMMA FeedsNext ==
  ASSUME page \in FeedsPages, Queue(FeedsOps), Next
  PROVE  \/ FeedsUser
         \/ \E i \in 1..Len(net) : FeedsService(i) \/ FeedsThen(i) \/ Deny(i)
<1>1. /\ page \notin ListPages /\ page \notin FormPages /\ page \notin ChatPages
      /\ page \notin ReactionPages /\ page \notin SpacePages /\ page \notin PostPages /\ page \notin EditorPages
  BY OtherPages DEF ReactionPages, FeedsPages, SpacePages, PostPages, EditorPages
<1>2. CASE User
  BY <1>1, <1>2, ListSteps, FormsSteps, ChatSteps, ReactionsSteps, SpaceSteps, PostSteps, EditorSteps DEF User
<1>3. ASSUME NEW i \in DOMAIN net, Service(i) \/ Then(i)
      PROVE  FeedsService(i) \/ FeedsThen(i) \/ Deny(i)
  <2>1. i \in 1..Len(net) /\ net[i].op \in FeedsOps
    BY InDomain DEF Queue, Calls
  <2>2. /\ net[i].op \notin ChatOps
        /\ net[i].op \notin ReactionOps /\ net[i].op \notin SpaceOps
        /\ net[i].op \notin ReadOps /\ net[i].op \notin EditorOps
    BY <2>1 DEF ReactionOps, FeedsOps, ChatOps, SpaceOps, ReadOps, EditorOps
  <2>. QED BY <1>1, <1>3, <2>2, ListSteps, FormsSteps, ChatSteps, ReactionsSteps, SpaceSteps, PostSteps, EditorSteps
         DEF Service, Then
<1>. QED BY <1>2, <1>3, InDomain DEF Next

\* On a page of spaces.
LEMMA SpaceNext ==
  ASSUME page \in SpacePages, Queue(SpaceOps), Next
  PROVE  \/ SpaceUser
         \/ \E i \in 1..Len(net) : SpaceService(i) \/ SpaceThen(i) \/ Deny(i)
<1>1. /\ page \notin ListPages /\ page \notin FormPages /\ page \notin ChatPages
      /\ page \notin ReactionPages /\ page \notin FeedsPages /\ page \notin PostPages /\ page \notin EditorPages
  BY OtherPages DEF ReactionPages, FeedsPages, SpacePages, PostPages, EditorPages
<1>2. CASE User
  BY <1>1, <1>2, ListSteps, FormsSteps, ChatSteps, ReactionsSteps, FeedsSteps, PostSteps, EditorSteps DEF User
<1>3. ASSUME NEW i \in DOMAIN net, Service(i) \/ Then(i)
      PROVE  SpaceService(i) \/ SpaceThen(i) \/ Deny(i)
  <2>1. i \in 1..Len(net) /\ net[i].op \in SpaceOps
    BY InDomain DEF Queue, Calls
  <2>2. /\ net[i].op \notin ChatOps
        /\ net[i].op \notin ReactionOps /\ net[i].op \notin FeedsOps
        /\ net[i].op \notin ReadOps /\ net[i].op \notin EditorOps
    BY <2>1 DEF ReactionOps, FeedsOps, ChatOps, SpaceOps, ReadOps, EditorOps
  <2>. QED BY <1>1, <1>3, <2>2, ListSteps, FormsSteps, ChatSteps, ReactionsSteps, FeedsSteps, PostSteps, EditorSteps
         DEF Service, Then
<1>. QED BY <1>2, <1>3, InDomain DEF Next

\* On a page of posts.
LEMMA PostNext ==
  ASSUME page \in PostPages, Queue(ReadOps), Next
  PROVE  \/ PostUser
         \/ \E i \in 1..Len(net) : PostService(i) \/ PostThen(i) \/ Deny(i)
<1>1. /\ page \notin ListPages /\ page \notin FormPages /\ page \notin ChatPages
      /\ page \notin ReactionPages /\ page \notin FeedsPages /\ page \notin SpacePages /\ page \notin EditorPages
  BY OtherPages DEF ReactionPages, FeedsPages, SpacePages, PostPages, EditorPages
<1>2. CASE User
  BY <1>1, <1>2, ListSteps, FormsSteps, ChatSteps, ReactionsSteps, FeedsSteps, SpaceSteps, EditorSteps DEF User
<1>3. ASSUME NEW i \in DOMAIN net, Service(i) \/ Then(i)
      PROVE  PostService(i) \/ PostThen(i) \/ Deny(i)
  <2>1. i \in 1..Len(net) /\ net[i].op \in ReadOps
    BY InDomain DEF Queue, Calls
  <2>2. /\ net[i].op \notin ChatOps
        /\ net[i].op \notin ReactionOps /\ net[i].op \notin FeedsOps
        /\ net[i].op \notin SpaceOps /\ net[i].op \notin EditorOps
    BY <2>1 DEF ReactionOps, FeedsOps, ChatOps, SpaceOps, ReadOps, EditorOps
  <2>. QED BY <1>1, <1>3, <2>2, ListSteps, FormsSteps, ChatSteps, ReactionsSteps, FeedsSteps, SpaceSteps, EditorSteps
         DEF Service, Then
<1>. QED BY <1>2, <1>3, InDomain DEF Next

\* On a page of editors.
LEMMA EditorNext ==
  ASSUME page \in EditorPages, Queue(EditorOps), Next
  PROVE  \/ EditorUser
         \/ \E i \in 1..Len(net) : EditorService(i) \/ EditorThen(i) \/ Deny(i)
<1>1. /\ page \notin ListPages /\ page \notin FormPages /\ page \notin ChatPages
      /\ page \notin ReactionPages /\ page \notin FeedsPages /\ page \notin SpacePages /\ page \notin PostPages
  BY OtherPages DEF ReactionPages, FeedsPages, SpacePages, PostPages, EditorPages
<1>2. CASE User
  BY <1>1, <1>2, ListSteps, FormsSteps, ChatSteps, ReactionsSteps, FeedsSteps, SpaceSteps, PostSteps DEF User
<1>3. ASSUME NEW i \in DOMAIN net, Service(i) \/ Then(i)
      PROVE  EditorService(i) \/ EditorThen(i) \/ Deny(i)
  <2>1. i \in 1..Len(net) /\ net[i].op \in EditorOps
    BY InDomain DEF Queue, Calls
  <2>2. /\ net[i].op \notin ChatOps
        /\ net[i].op \notin ReactionOps /\ net[i].op \notin FeedsOps
        /\ net[i].op \notin SpaceOps /\ net[i].op \notin ReadOps
    BY <2>1 DEF ReactionOps, FeedsOps, ChatOps, SpaceOps, ReadOps, EditorOps
  <2>. QED BY <1>1, <1>3, <2>2, ListSteps, FormsSteps, ChatSteps, ReactionsSteps, FeedsSteps, SpaceSteps, PostSteps
         DEF Service, Then
<1>. QED BY <1>2, <1>3, InDomain DEF Next

\* Nothing but the router mounts another page.
LEMMA StepsKeepPage ==
  ASSUME NEW i, NEW s, NEW t
  PROVE  Handle(s, t) \/ Update(s) \/ Reply(i, s, t) \/ Settle(i, s, t) \/ Deny(i) => page' = page
BY DEF Update, Handle, Reply, Settle, Deny

\* No step of the session leaves the page: a page that is left is unmounted and
\* its session ends.
LEMMA PageStays ==
  ASSUME [Next]_vars PROVE page' = page
<1>1. ListUser => page' = page
  BY StepsKeepPage DEF ListUser, ListGo, Refresh, ChooseAgain, DoAct, ToggleSelect, ToggleAll, StartBatch
<1>2. FormsUser => page' = page
  BY StepsKeepPage DEF FormsUser, SendForm, TypeField
<1>3. ReactionsUser => page' = page
  BY StepsKeepPage DEF ReactionsUser, HandleVote, HandlePollVote, HandleTip, HandleJoin, HandleVideoLike,
    HandleVideoMark, TypeVideoNote, HandleVideoNote, CardLike, CardMark
<1>4. FeedsUser => page' = page
  BY StepsKeepPage DEF FeedsUser, FeedTab, FeedScroll, GoToPage, SetFilter, LoadMoreCreations,
    ActOnCreation, InteractionTab, FollowToggle, HandleFollow
<1>5. ChatUser => page' = page
  BY StepsKeepPage DEF ChatUser, Interval, TypeMessage, HandleSend, OnThread, ThreadDo
<1>6. SpaceUser => page' = page
  BY StepsKeepPage DEF SpaceUser, SetPostKey, PostAct, HandleToggle, HandleJoinSpace, HandleSubscribe,
    OpenEdit, EditField, CloseEdit, HandleSaveSpaceEdit, HandleUploadIcon
<1>7. PostUser => page' = page
  BY StepsKeepPage DEF PostUser, HandleFollowAuthor, HandleLike, HandleBookmark, HandleUnlock,
    TypeComment, TypeReply, OpenReply, HandleCommentLike, HandleComment, HandleEdit, HandleCancelEdit,
    HandleSaveEdit, HandleDelete, SetForm
<1>8. EditorUser => page' = page
  BY StepsKeepPage DEF EditorUser, TypeText, EditorReports, EditorChange, TypeTitle, SetIsFullscreen,
    RestoreDraft, DiscardDraft, HandleFile, HandleSubmitText, Reload, SetVideoFile, HandleVideoUpload,
    UploadMore, SetSubmission
<1>9. ASSUME NEW i, Service(i) PROVE page' = page
  <2>1. ListService(i) => page' = page
    BY StepsKeepPage DEF ListService, ListServed, ActServed, BatchServed
  <2>2. FormsService(i) => page' = page
    BY StepsKeepPage DEF FormsService, FillServed, CheckServed, FormStored
  <2>3. ReactionsService(i) => page' = page
    BY StepsKeepPage DEF ReactionsService, ScoreServed, CastServed, MyVoteServed, TallyServed,
      PollVoteServed, OnceServed, VideoServed, VideoActServed, CardServed
  <2>4. FeedsService(i) => page' = page
    BY StepsKeepPage DEF FeedsService, FeedServed, CreationsServed, CreationActServed,
      InteractionsServed, FollowToggleServed, ProfileServed, FollowServed
  <2>5. ChatService(i) => page' = page
    BY StepsKeepPage DEF ChatService, LoadServed, MarkServed, SendServed, ThreadServed
  <2>6. SpaceService(i) => page' = page
    BY StepsKeepPage DEF SpaceService, PostsServed, PostActServed, SpaceServed, ToggleServed,
      JoinSpaceServed, GetSubServed, SubscribeServed, UploadServed, SaveSpaceServed
  <2>7. PostService(i) => page' = page
    BY StepsKeepPage DEF PostService, GetPostServed, ViewServed, ReaderServed, NotesServed, EditorServed
  <2>8. EditorService(i) => page' = page
    BY StepsKeepPage DEF EditorService, CreateServed, FileServed, VideoPublished
  <2>. QED BY <1>9, <2>1, <2>2, <2>3, <2>4, <2>5, <2>6, <2>7, <2>8, StepsKeepPage DEF Service
<1>10. ASSUME NEW i, Then(i) PROVE page' = page
  <2>1. ListThen(i) => page' = page
    BY StepsKeepPage DEF ListThen, ListFetched, ActDone, BatchGoesOn, BatchDone
  <2>2. FormsThen(i) => page' = page
    BY StepsKeepPage DEF FormsThen, FillDone, CheckDone, FormDone
  <2>3. ReactionsThen(i) => page' = page
    BY StepsKeepPage DEF ReactionsThen, ScoreLoaded, CastDone, MyVoteChecked, TallyRefreshed,
      PollVoteDone, OnceDone, VideoLoaded, VideoActDone, CardDone
  <2>4. FeedsThen(i) => page' = page
    BY StepsKeepPage DEF FeedsThen, FeedLoaded, CreationsLoaded, CreationActDone, InteractionsLoaded,
      FollowToggled, ProfileLoaded, FollowDone
  <2>5. ChatThen(i) => page' = page
    BY StepsKeepPage DEF ChatThen, LoadAnswered, MarkDone, SendDone, ThreadDone
  <2>6. SpaceThen(i) => page' = page
    BY StepsKeepPage DEF SpaceThen, PostsFetched, PostActDone, SpaceFetched, ToggleDone, JoinSpaceDone,
      GetSubDone, SubscribeDone, UploadDone, SaveSpaceDone
  <2>7. PostThen(i) => page' = page
    BY StepsKeepPage DEF PostThen, PostLoaded, ViewDone, ReaderDone, NotesDone, EditorDone
  <2>8. EditorThen(i) => page' = page
    BY StepsKeepPage DEF EditorThen, CreateDone, FileDone, VideoUploadDone
  <2>. QED BY <1>10, <2>1, <2>2, <2>3, <2>4, <2>5, <2>6, <2>7, <2>8 DEF Then
<1>11. CASE User
  BY <1>11, <1>1, <1>2, <1>3, <1>4, <1>5, <1>6, <1>7, <1>8 DEF User
<1>12. CASE UNCHANGED vars
  BY <1>12 DEF vars
<1>. QED BY <1>9, <1>10, <1>11, <1>12 DEF Next
------------------------------------------------------------------------------
\* Calls as they are started.
LEMMA NewCalls ==
  ASSUME NEW op, NEW arg, NEW c \in {Request(op, arg), Fetch(op, arg)}
  PROVE  IsCall(c) /\ c.op = op /\ c.arg = arg /\ c.ans = Pending
BY DEF Request, Fetch, IsCall

\* A queue is one to more operations.
LEMMA QueueOf ==
  ASSUME NEW ops, NEW all, Queue(ops), ops \subseteq all PROVE Queue(all)
BY DEF Queue, Calls

\* A page that is mounted with one call has a queue of that call.
LEMMA FirstCall ==
  ASSUME NEW ops, NEW c, IsCall(c), c.op \in ops, c.ans = Pending, net = <<c>>, mishap = FALSE
  PROVE  Queue(ops) /\ Len(net) = 1 /\ net[1] = c
<1>1. Len(net) = 1 /\ net[1] = c
  OBVIOUS
<1>2. net = [k \in 1..Len(net) |-> net[k]]
  OBVIOUS
<1>3. \A k \in 1..Len(net) : net[k] = c
  BY <1>1
<1>4. Calls(net, ops) /\ InOrder(net)
  BY <1>1, <1>2, <1>3 DEF Calls, InOrder
<1>. QED BY <1>1, <1>4 DEF Queue

\* A page that is mounted without a call has an empty queue.
LEMMA NoCall ==
  ASSUME NEW ops, net = << >>, mishap = FALSE
  PROVE  Queue(ops) /\ Len(net) = 0
<1>1. Len(net) = 0 /\ 1..Len(net) = {}
  OBVIOUS
<1>2. net = [k \in 1..Len(net) |-> net[k]]
  OBVIOUS
<1>3. Calls(net, ops) /\ InOrder(net)
  BY <1>1, <1>2 DEF Calls, InOrder
<1>. QED BY <1>1, <1>3 DEF Queue

\* With nothing pending the queue is empty.
LEMMA QuietIsEmpty ==
  ASSUME NEW ops, Queue(ops) PROVE Quiet <=> Len(net) = 0
<1>1. Len(net) = 0 => net = << >>
  BY DEF Queue, Calls
<1>2. net = << >> => Len(net) = 0
  OBVIOUS
<1>. QED BY <1>1, <1>2 DEF Quiet

\* The state a page starts in.
LEMMA Mounts ==
  ASSUME Init
  PROVE  /\ page = "vote" => VoteInit
         /\ page = "poll" => PollInit
         /\ page \in OncePages => OnceInit
         /\ page = "video" => VideoInit
         /\ page = "card" => CardInit
         /\ page = "interactions" => InteractionsInit
         /\ page = "profile" => ProfileInit
         /\ page = "subscribe" => TiersInit
         /\ page = "spaceEdit" => EditInit
         /\ page = "compose" => ComposeInit
         /\ page = "upload" => UploadInit
         /\ page = "postEdit" => EditorInit
         /\ page = "feed" => FeedInit
         /\ page = "creations" => CreationsInit
         /\ page = "spacePosts" => SpacePostsInit
         /\ page = "space" => SpaceInit
         /\ page = "post" => PostInit
         /\ page = "notes" => NotesInit
         /\ page \in ListPages => ListInit
         /\ page \in FormPages => FormsInit
         /\ page \in ChatPages => ChatInit
<1>1. ListInit => page \in ListPages
  BY DEF ListInit
<1>2. FormsInit => page \in FormPages
  BY DEF FormsInit
<1>3. ChatInit => page \in ChatPages
  BY DEF ChatInit
<1>4. \/ page \in ListPages \cup FormPages \cup ChatPages
      \/ VoteInit \/ PollInit \/ OnceInit \/ VideoInit \/ CardInit
      \/ FeedInit \/ CreationsInit \/ InteractionsInit \/ ProfileInit
      \/ SpacePostsInit \/ SpaceInit \/ TiersInit \/ EditInit
      \/ PostInit \/ NotesInit \/ EditorInit
      \/ ComposeInit \/ UploadInit
  BY <1>1, <1>2, <1>3 DEF Init, ReactionsInit, FeedsInit, SpacePagesInit, PostsInit, EditorPagesInit
<1>5. page \in ReactionPages \cup FeedsPages \cup SpacePages \cup PostPages \cup EditorPages =>
        page \notin ListPages \cup FormPages \cup ChatPages
  BY OtherPages
<1>6. /\ VoteInit => page = "vote"
      /\ PollInit => page = "poll"
      /\ OnceInit => page \in {"tip", "event"}
      /\ VideoInit => page = "video"
      /\ CardInit => page = "card"
  <2>1. VoteInit => page = "vote"
    BY DEF VoteInit
  <2>2. PollInit => page = "poll"
    BY DEF PollInit
  <2>3. OnceInit => page \in {"tip", "event"}
    BY DEF OnceInit, OncePages
  <2>4. VideoInit => page = "video"
    BY DEF VideoInit
  <2>5. CardInit => page = "card"
    BY DEF CardInit
  <2>. QED BY <2>1, <2>2, <2>3, <2>4, <2>5
<1>7. /\ FeedInit => page = "feed"
      /\ CreationsInit => page = "creations"
      /\ InteractionsInit => page = "interactions"
      /\ ProfileInit => page = "profile"
  <2>1. FeedInit => page = "feed"
    BY DEF FeedInit
  <2>2. CreationsInit => page = "creations"
    BY DEF CreationsInit
  <2>3. InteractionsInit => page = "interactions"
    BY DEF InteractionsInit
  <2>4. ProfileInit => page = "profile"
    BY DEF ProfileInit
  <2>. QED BY <2>1, <2>2, <2>3, <2>4
<1>8. /\ SpacePostsInit => page = "spacePosts"
      /\ SpaceInit => page = "space"
      /\ TiersInit => page = "subscribe"
      /\ EditInit => page = "spaceEdit"
  <2>1. SpacePostsInit => page = "spacePosts"
    BY DEF SpacePostsInit
  <2>2. SpaceInit => page = "space"
    BY DEF SpaceInit
  <2>3. TiersInit => page = "subscribe"
    BY DEF TiersInit
  <2>4. EditInit => page = "spaceEdit"
    BY DEF EditInit
  <2>. QED BY <2>1, <2>2, <2>3, <2>4
<1>9. /\ PostInit => page = "post"
      /\ NotesInit => page = "notes"
      /\ EditorInit => page = "postEdit"
  <2>1. PostInit => page = "post"
    BY DEF PostInit
  <2>2. NotesInit => page = "notes"
    BY DEF NotesInit
  <2>3. EditorInit => page = "postEdit"
    BY DEF EditorInit
  <2>. QED BY <2>1, <2>2, <2>3
<1>10. /\ ComposeInit => page = "compose"
       /\ UploadInit => page = "upload"
  <2>1. ComposeInit => page = "compose"
    BY DEF ComposeInit
  <2>2. UploadInit => page = "upload"
    BY DEF UploadInit
  <2>. QED BY <2>1, <2>2
<1>11. page \in {"vote", "poll", "tip", "event", "video", "card", "interactions", "profile",
                "subscribe", "spaceEdit", "compose", "upload", "postEdit", "feed", "creations",
                "spacePosts", "space", "post", "notes"} =>
        page \in ReactionPages \cup FeedsPages \cup SpacePages \cup PostPages \cup EditorPages
  BY DEF ReactionPages, FeedsPages, SpacePages, PostPages, EditorPages
<1>12. page \in {"vote", "poll", "tip", "event", "video", "card", "interactions", "profile",
                 "subscribe", "spaceEdit", "compose", "upload", "postEdit", "feed", "creations",
                 "spacePosts", "space", "post", "notes"} =>
         \/ VoteInit \/ PollInit \/ OnceInit \/ VideoInit \/ CardInit
         \/ FeedInit \/ CreationsInit \/ InteractionsInit \/ ProfileInit
         \/ SpacePostsInit \/ SpaceInit \/ TiersInit \/ EditInit
         \/ PostInit \/ NotesInit \/ EditorInit
         \/ ComposeInit \/ UploadInit
  BY <1>4, <1>5, <1>11
<1>13. OncePages = {"tip", "event"}
  BY DEF OncePages
<1>14. /\ page \in ListPages => page \notin FormPages /\ page \notin ChatPages
       /\ page \in FormPages => page \notin ChatPages
  <2>1. page \in ListPages => page \notin ChatPages
    BY DEF ListPages, Rows, ChatPages
  <2>2. page \in FormPages => page \notin ChatPages
    BY DEF FormPages, FormRows, ChatPages
  <2>3. page \in FormPages => page \notin ListPages
    BY DEF ListPages, Rows, FormPages, FormRows
  <2>. QED BY <2>1, <2>2, <2>3
<1>15. page \in ListPages \cup FormPages \cup ChatPages => ListInit \/ FormsInit \/ ChatInit
  <2>1. page \in ListPages \cup FormPages \cup ChatPages =>
          /\ page \notin {"vote", "poll", "tip", "event", "video", "card"}
          /\ page \notin {"feed", "creations", "interactions", "profile"}
          /\ page \notin {"spacePosts", "space", "subscribe", "spaceEdit"}
          /\ page \notin {"post", "notes", "postEdit"}
          /\ page \notin {"compose", "upload"}
    BY <1>5 DEF ReactionPages, FeedsPages, SpacePages, PostPages, EditorPages
  <2>2. ListInit \/ FormsInit \/ ChatInit
          \/ VoteInit \/ PollInit \/ OnceInit \/ VideoInit \/ CardInit
          \/ FeedInit \/ CreationsInit \/ InteractionsInit \/ ProfileInit
          \/ SpacePostsInit \/ SpaceInit \/ TiersInit \/ EditInit
          \/ PostInit \/ NotesInit \/ EditorInit
          \/ ComposeInit \/ UploadInit
    BY DEF Init, ReactionsInit, FeedsInit, SpacePagesInit, PostsInit, EditorPagesInit
  <2>. QED BY <2>1, <2>2, <1>6, <1>7, <1>8, <1>9, <1>10
<1>. QED BY <1>1, <1>2, <1>3, <1>6, <1>7, <1>8, <1>9, <1>10, <1>12, <1>13, <1>14, <1>15

\* Call i of q, the oldest pending one, is answered in t.
IsAnswered(q, t, i) ==
  /\ Len(q) \in Nat /\ Len(t) = Len(q) /\ i \in 1..Len(q)
  /\ \A k \in 1..Len(q) : t[k].op = q[k].op /\ (k # i => t[k] = q[k])
  /\ \A k \in 1..(i - 1) : q[k].ans # Pending
  /\ \A k \in i..Len(q) : q[k].ans = Pending
  /\ t[i].ans # Pending

\* So it is with an answer that is no mishap.
LEMMA AnswersOldest ==
  ASSUME NEW ops, NEW i \in 1..Len(net), NEW v, NEW s, Replied(ops, i, v, s), ~mishap'
  PROVE  IsAnswered(net, net', i)
BY DEF Replied, IsAnswered
------------------------------------------------------------------------------
(***************************************************************************)
(* The buttons that act once.                                              *)
(***************************************************************************)
OnceOps == {"once"}

\* One call at a time, and the service has counted it when it is answered.
OnceState ==
  /\ Queue(OnceOps)
  /\ DOMAIN ui = {"busy", "done"} /\ ui.busy \in BOOLEAN /\ ui.done \in BOOLEAN
  /\ Len(net) = IF ui.busy THEN 1 ELSE 0
  /\ ~mishap =>
       /\ ui.done => ~ui.busy /\ srv = 1
       /\ ~ui.done /\ ~ui.busy => srv = 0
       /\ ui.busy => srv = IF net[1].ans = Pending THEN 0 ELSE 1

\* The page is mounted in a state of it.
LEMMA OnceStarts ==
  ASSUME OnceInit PROVE OnceState
<1>1. Queue(OnceOps) /\ Len(net) = 0
  BY NoCall DEF OnceInit
<1>. QED BY <1>1 DEF OnceInit, OnceState

\* What can happen on this page.
LEMMA OnceActions ==
  ASSUME page \in OncePages, Queue(OnceOps), Next
  PROVE  HandleTip \/ HandleJoin \/ \E i \in 1..Len(net) : OnceServed(i) \/ OnceDone(i) \/ Deny(i)
<1>1. page \in ReactionPages /\ Queue(ReactionOps)
  BY QueueOf DEF ReactionPages, OncePages, OnceOps, ReactionOps
<1>2. CASE ReactionsUser
  BY <1>2 DEF ReactionsUser, OncePages, HandleVote, HandlePollVote, HandleVideoLike, HandleVideoMark,
    TypeVideoNote, HandleVideoNote, CardLike, CardMark
<1>3. ASSUME NEW i \in 1..Len(net), ReactionsService(i) \/ ReactionsThen(i)
      PROVE  OnceServed(i) \/ OnceDone(i)
  <2>1. net[i].op = "once"
    BY DEF Queue, Calls, OnceOps
  <2>. QED BY <1>3, <2>1 DEF ReactionsService, ScoreServed, CastServed, MyVoteServed, TallyServed,
         PollVoteServed, VideoServed, VideoActServed, CardServed, Asked, ReactionsThen, ScoreLoaded,
         CastDone, MyVoteChecked, TallyRefreshed, PollVoteDone, VideoLoaded, VideoActDone, CardDone, Answered
<1>. QED BY <1>1, <1>2, <1>3, ReactionsNext

\* Every step of the page keeps it.
LEMMA OnceSteps ==
  ASSUME page \in OncePages, OnceState, Next PROVE OnceState'
<1>. Queue(OnceOps) /\ Len(net) \in Nat
  BY DEF OnceState, Queue, Calls
<1>1. CASE HandleTip \/ HandleJoin
  <2>. DEFINE s == [ui EXCEPT !.busy = TRUE]
              c == Request("once", 0)
  <2>1. ~ui.busy /\ ~ui.done /\ Handle(s, <<c>>)
    BY <1>1 DEF HandleTip, HandleJoin
  <2>2. DOMAIN s = {"busy", "done"} /\ s.busy = TRUE /\ s.done = ui.done
    BY DEF OnceState
  <2>3. IsCall(c) /\ c.op \in OnceOps /\ c.ans = Pending
    BY NewCalls DEF OnceOps
  <2>. HIDE DEF s, c
  <2>4. Started(OnceOps, s, c)
    BY <2>1, <2>3, HandlesOne
  <2>5. Len(net) = 0
    BY <2>1 DEF OnceState
  <2>6. Len(net') = 1 /\ net'[1].ans = Pending
    BY <2>3, <2>4, <2>5 DEF Started
  <2>. QED BY <2>1, <2>2, <2>4, <2>6 DEF OnceState, Started
<1>2. ASSUME NEW i \in 1..Len(net), OnceServed(i) PROVE OnceState'
  <2>. DEFINE n == IF page = "event" THEN 1 ELSE srv + 1
  <2>1. Reply(i, TRUE, n)
    BY <1>2 DEF OnceServed
  <2>2. srv = 0 => n = 1
    OBVIOUS
  <2>. HIDE DEF n
  <2>3. Replied(OnceOps, i, TRUE, n)
    BY <2>1, Replies
  <2>4. i = 1 /\ ui.busy
    BY DEF OnceState
  <2>. QED BY <2>2, <2>3, <2>4 DEF OnceState, Replied
<1>3. ASSUME NEW i \in 1..Len(net), OnceDone(i) PROVE OnceState'
  <2>. DEFINE s == [busy |-> FALSE, done |-> ui.done \/ IsOk(i)]
  <2>1. Settle(i, s, << >>) /\ net[i].ans # Pending
    BY <1>3 DEF OnceDone, Answered
  <2>2. DOMAIN s = {"busy", "done"} /\ s.busy = FALSE /\ s.done = (ui.done \/ IsOk(i)) /\ s.done \in BOOLEAN
    OBVIOUS
  <2>. HIDE DEF s
  <2>3. Settled(OnceOps, i, s)
    BY <2>1, SettlesNone
  <2>4. Len(net) = 1 /\ ui.busy /\ i = 1
    BY DEF OnceState
  <2>5. ~mishap' => srv = 1 /\ s.done
    BY <2>1, <2>2, <2>3, <2>4 DEF OnceState, Settled
  <2>6. Queue(OnceOps)' /\ Len(net') = 0 /\ ui' = s /\ srv' = srv /\ (mishap => mishap')
    BY <2>3, <2>4 DEF Settled
  <2>. QED BY <2>2, <2>5, <2>6 DEF OnceState
<1>4. ASSUME NEW i \in 1..Len(net), Deny(i) PROVE OnceState'
  <2>1. Denied(OnceOps, i)
    BY <1>4, Denies
  <2>. QED BY <2>1 DEF OnceState, Denied
<1>. QED BY <1>1, <1>2, <1>3, <1>4, OnceActions DEF OnceState

\* The tip and join buttons act once (WebReactions.ActsOnce): the call is made
\* only while none is pending and none succeeded, so that without a lost answer
\* the service counted at most one, for any number of calls allowed at a time.
THEOREM TipsActOnce == Spec => []ActsOnce
<1>. DEFINE Inv == page \in OncePages => OnceState
<1>1. Init => Inv
  BY Mounts, OnceStarts
<1>2. Inv /\ [Next]_vars => Inv'
  <2>1. CASE Next
    BY <2>1, PageStays, OnceSteps
  <2>2. CASE UNCHANGED vars
    BY <2>2 DEF vars, OnceState, Queue, Calls, InOrder
  <2>. QED BY <2>1, <2>2
<1>3. Inv => ActsOnce
  <2>. SUFFICES ASSUME OnceState, ~mishap PROVE srv <= 1 /\ (Quiet => ui.done = (srv = 1))
    BY DEF ActsOnce
  <2>1. Quiet <=> ~ui.busy
    BY QuietIsEmpty DEF OnceState
  <2>. QED BY <2>1 DEF OnceState
<1>. QED BY <1>1, <1>2, <1>3, PTL DEF Spec
------------------------------------------------------------------------------
(***************************************************************************)
(* The vote arrows.                                                        *)
(***************************************************************************)
VoteOps    == {"score", "cast"}
VoteFields == {"up", "down", "mine", "loading", "cast"}

\* The arrows and counts of s are the service's.
VoteShown(s) == [up |-> s.up, down |-> s.down] = Score(srv) /\ s.mine = srv

\* The youngest call decides: once it is answered it has what the service
\* holds from then on.
VoteState ==
  /\ Queue(VoteOps)
  /\ DOMAIN ui = VoteFields /\ ui.loading \in BOOLEAN /\ ui.cast \in BOOLEAN
  /\ ui.loading => ~ui.cast /\ \A k \in 1..Len(net) : net[k].op = "score"
  /\ ~ui.loading => \A k \in 1..Len(net) : net[k].op = "cast"
  /\ ~mishap /\ ui.cast =>
       /\ Len(net) = 0 => VoteShown(ui)
       /\ Len(net) > 0 /\ net[Len(net)].ans # Pending =>
            net[Len(net)].ans = Ok([score |-> Score(srv), vote |-> srv])
  /\ ui.loading => Len(net) = 1

\* The page is mounted in a state of it.
LEMMA VoteStarts ==
  ASSUME VoteInit PROVE VoteState
<1>. DEFINE c == Request("score", 0)
<1>1. IsCall(c) /\ c.op \in VoteOps /\ c.ans = Pending /\ c.op = "score"
  BY NewCalls DEF VoteOps
<1>2. net = <<c>> /\ mishap = FALSE
  BY DEF VoteInit
<1>. HIDE DEF c
<1>3. Queue(VoteOps) /\ Len(net) = 1 /\ net[1] = c
  BY <1>1, <1>2, FirstCall
<1>4. DOMAIN ui = VoteFields /\ ui.loading /\ ~ui.cast /\ ui.loading \in BOOLEAN /\ ui.cast \in BOOLEAN
  BY DEF VoteInit, VoteFields
<1>5. \A k \in 1..Len(net) : net[k].op = "score"
  BY <1>1, <1>3
<1>. QED BY <1>3, <1>4, <1>5 DEF VoteState

\* What can happen on this page.
LEMMA VoteActions ==
  ASSUME page = "vote", Queue(VoteOps), Next
  PROVE  \/ \E v \in {-1, 1} : HandleVote(v)
         \/ \E i \in 1..Len(net) : ScoreServed(i) \/ ScoreLoaded(i) \/ CastServed(i) \/ CastDone(i) \/ Deny(i)
<1>1. page \in ReactionPages /\ Queue(ReactionOps)
  BY QueueOf DEF ReactionPages, VoteOps, ReactionOps
<1>2. CASE ReactionsUser
  BY <1>2 DEF ReactionsUser, HandlePollVote, HandleTip, HandleJoin, HandleVideoLike, HandleVideoMark,
    TypeVideoNote, HandleVideoNote, CardLike, CardMark
<1>3. ASSUME NEW i \in 1..Len(net), ReactionsService(i) \/ ReactionsThen(i)
      PROVE  ScoreServed(i) \/ ScoreLoaded(i) \/ CastServed(i) \/ CastDone(i)
  <2>1. net[i].op \in {"score", "cast"}
    BY DEF Queue, Calls, VoteOps
  <2>. QED BY <1>3, <2>1 DEF ReactionsService, MyVoteServed, TallyServed, PollVoteServed,
         OnceServed, VideoServed, VideoActServed, CardServed, Asked, ReactionsThen, MyVoteChecked,
         TallyRefreshed, PollVoteDone, OnceDone, VideoLoaded, VideoActDone, CardDone, Answered
<1>. QED BY <1>1, <1>2, <1>3, ReactionsNext

\* Every step of the page keeps it.
LEMMA VoteSteps ==
  ASSUME page = "vote", VoteState, Next PROVE VoteState'
<1>. Queue(VoteOps) /\ Len(net) \in Nat
  BY DEF VoteState, Queue, Calls
<1>1. ASSUME NEW v \in {-1, 1}, HandleVote(v) PROVE VoteState'
  <2>1. PICK new : /\ ~ui.loading
                   /\ Handle([Recount(ui, ui.mine, new) EXCEPT !.cast = TRUE],
                             <<Request("cast", [old |-> ui.mine, new |-> new])>>)
    BY <1>1 DEF HandleVote
  <2>. DEFINE s == [Recount(ui, ui.mine, new) EXCEPT !.cast = TRUE]
              c == Request("cast", [old |-> ui.mine, new |-> new])
  <2>2. IsCall(c) /\ c.op = "cast" /\ c.ans = Pending
    BY NewCalls
  <2>3. DOMAIN s = VoteFields /\ ~s.loading /\ s.loading \in BOOLEAN /\ s.cast /\ s.cast \in BOOLEAN
    BY <2>1 DEF Recount, VoteState, VoteFields
  <2>4. Handle(s, <<c>>)
    BY <2>1
  <2>. HIDE DEF s, c
  <2>5. Started(VoteOps, s, c)
    BY <2>2, <2>4, HandlesOne DEF VoteOps
  <2>6. net'[Len(net')].ans = Pending /\ Len(net') > 0
    BY <2>2, <2>5 DEF Started
  <2>7. \A k \in 1..Len(net') : net'[k].op = "cast"
    BY <2>1, <2>2, <2>5 DEF Started, VoteState
  <2>8. Queue(VoteOps)' /\ ui' = s /\ Len(net') \in Nat
    BY <2>5 DEF Started
  <2>9. /\ Len(net') # 0
        /\ ~(Len(net') > 0 /\ net'[Len(net')].ans # Pending)
    BY <2>6
  <2>10. DOMAIN ui' = VoteFields /\ ~ui'.loading /\ ui'.loading \in BOOLEAN /\ ui'.cast \in BOOLEAN
    BY <2>3, <2>8
  <2>. QED BY <2>7, <2>8, <2>9, <2>10 DEF VoteState
<1>2. ASSUME NEW i \in 1..Len(net), ScoreServed(i) PROVE VoteState'
  <2>1. Reply(i, Score(srv), srv) /\ net[i].op = "score"
    BY <1>2 DEF ScoreServed, Asked
  <2>2. Replied(VoteOps, i, Score(srv), srv)
    BY <2>1, Replies
  <2>3. ui.loading
    BY <2>1 DEF VoteState
  <2>. QED BY <2>2, <2>3 DEF VoteState, Replied
<1>3. ASSUME NEW i \in 1..Len(net), ScoreLoaded(i) PROVE VoteState'
  <2>. DEFINE s == IF IsOk(i) THEN [ui EXCEPT !.up = Data(i).up, !.down = Data(i).down, !.loading = FALSE]
                   ELSE [ui EXCEPT !.loading = FALSE]
  <2>1. Settle(i, s, << >>) /\ net[i].op = "score" /\ net[i].ans # Pending
    BY <1>3 DEF ScoreLoaded, Answered
  <2>2. DOMAIN s = VoteFields /\ ~s.loading /\ s.loading \in BOOLEAN /\ s.cast = ui.cast
    BY DEF VoteState, VoteFields
  <2>. HIDE DEF s
  <2>3. Settled(VoteOps, i, s)
    BY <2>1, SettlesNone
  <2>4. ui.loading /\ ~ui.cast /\ Len(net) = 1
    BY <2>1 DEF VoteState
  <2>5. Queue(VoteOps)' /\ Len(net') = 0 /\ ui' = s
    BY <2>3, <2>4 DEF Settled
  <2>. QED BY <2>2, <2>4, <2>5 DEF VoteState
<1>4. ASSUME NEW i \in 1..Len(net), CastServed(i) PROVE VoteState'
  <2>. DEFINE v == net[i].arg.new
              d == [score |-> Score(v), vote |-> v]
  <2>1. Reply(i, d, v) /\ net[i].op = "cast"
    BY <1>4 DEF CastServed, Asked
  <2>. HIDE DEF v
  <2>2. Replied(VoteOps, i, d, v)
    BY <2>1, Replies
  <2>3. ~ui.loading
    BY <2>1 DEF VoteState
  <2>4. ASSUME ~mishap', net'[Len(net)].ans # Pending
        PROVE  net'[Len(net)].ans = Ok(d)
    BY <2>2, <2>4 DEF Replied
  <2>5. \A k \in 1..Len(net') : net'[k].op = "cast"
    BY <2>1, <2>2, <2>3 DEF Replied, VoteState
  <2>. QED BY <2>2, <2>3, <2>4, <2>5 DEF VoteState, Replied
<1>5. ASSUME NEW i \in 1..Len(net), CastDone(i) PROVE VoteState'
  <2>. DEFINE s == IF IsOk(i)
                   THEN [ui EXCEPT !.up = Data(i).score.up, !.down = Data(i).score.down, !.mine = Data(i).vote]
                   ELSE Recount(ui, net[i].arg.new, net[i].arg.old)
  <2>1. Settle(i, s, << >>) /\ net[i].op = "cast" /\ net[i].ans # Pending
    BY <1>5 DEF CastDone, Answered
  <2>2. /\ DOMAIN s = VoteFields /\ s.loading = ui.loading /\ s.cast = ui.cast
        /\ IsOk(i) => s.up = Data(i).score.up /\ s.down = Data(i).score.down /\ s.mine = Data(i).vote
    BY DEF Recount, VoteState, VoteFields
  <2>. HIDE DEF s
  <2>3. Settled(VoteOps, i, s)
    BY <2>1, SettlesNone
  <2>4. ~ui.loading
    BY <2>1 DEF VoteState
  <2>5. ASSUME ~mishap', ui.cast, Len(net) = 1 PROVE VoteShown(s)
    <3>1. i = 1 /\ IsOk(1) /\ net[1].ans = Ok([score |-> Score(srv), vote |-> srv])
      BY <2>1, <2>3, <2>5 DEF VoteState, Settled
    <3>2. Data(1).score = Score(srv) /\ Data(1).vote = srv
      BY <3>1 DEF Data, Ok
    <3>. QED BY <2>2, <3>1, <3>2 DEF VoteShown, Score
  <2>6. ASSUME Len(net) > 1, ~mishap' PROVE net'[Len(net')] = net[Len(net)]
    BY <2>3, <2>6 DEF Settled
  <2>7. \A k \in 1..Len(net') : net'[k].op = "cast"
    BY <2>3, <2>4 DEF Settled, VoteState
  <2>8. ~mishap' /\ ui.cast =>
          /\ Len(net') = 0 => VoteShown(s)
          /\ Len(net') > 0 /\ net'[Len(net')].ans # Pending =>
               net'[Len(net')].ans = Ok([score |-> Score(srv), vote |-> srv])
    BY <2>3, <2>5, <2>6 DEF VoteState, Settled
  <2>. QED BY <2>2, <2>3, <2>4, <2>7, <2>8 DEF VoteState, VoteShown, Settled
<1>6. ASSUME NEW i \in 1..Len(net), Deny(i) PROVE VoteState'
  <2>1. Denied(VoteOps, i)
    BY <1>6, Denies
  <2>. QED BY <2>1 DEF VoteState, Denied
<1>. QED BY <1>1, <1>2, <1>3, <1>4, <1>5, <1>6, VoteActions DEF VoteState

\* Votes clicked faster than they are answered settle (WebReactions.VoteIsSettled):
\* the answer to the youngest call carries what the service holds, and nothing is
\* shown over it.
THEOREM VotesSettle == Spec => []VoteIsSettled
<1>. DEFINE Inv == page = "vote" => VoteState
<1>1. Init => Inv
  BY Mounts, VoteStarts
<1>2. Inv /\ [Next]_vars => Inv'
  <2>1. CASE Next
    BY <2>1, PageStays, VoteSteps
  <2>2. CASE UNCHANGED vars
    BY <2>2 DEF vars, VoteState, Queue, Calls, InOrder, VoteShown
  <2>. QED BY <2>1, <2>2
<1>3. Inv => VoteIsSettled
  BY QuietIsEmpty DEF VoteState, VoteShown, VoteIsSettled
<1>. QED BY <1>1, <1>2, <1>3, PTL DEF Spec
------------------------------------------------------------------------------
(***************************************************************************)
(* The poll card.                                                          *)
(***************************************************************************)
PollOps    == {"myVote", "tally", "tallyFirst", "pollVote"}
PollFields == {"voted", "tally", "submitting", "loading"}

IsTally(c) == c.op \in {"tally", "tallyFirst"}

\* What call c was told is still so: a vote is never taken back, and a tally
\* is only asked for once the user has voted.
PollCall(c, v) ==
  /\ c.op = "pollVote" => c.arg # 0
  /\ IsTally(c) => v # 0
  /\ c.ans # Pending /\ c.ans.code = "ok" =>
       /\ c.op = "myVote" => (c.ans.data => v # 0)
       /\ c.op = "pollVote" => v # 0
       /\ IsTally(c) => c.ans.data = Tally(v)

\* The tally shown is the service's, or it is being asked for.
PollState ==
  /\ Queue(PollOps)
  /\ DOMAIN ui = PollFields /\ ui.voted \in BOOLEAN
  /\ ui.voted => srv # 0
  /\ \A k \in 1..Len(net) : PollCall(net[k], srv)
  /\ ~mishap /\ ui.voted => ui.tally = Tally(srv) \/ \E k \in 1..Len(net) : IsTally(net[k])

\* The page is mounted in a state of it.
LEMMA PollStarts ==
  ASSUME PollInit PROVE PollState
<1>. DEFINE c == Fetch("myVote", 0)
<1>1. IsCall(c) /\ c.op \in PollOps /\ c.ans = Pending /\ c.op = "myVote"
  BY NewCalls DEF PollOps
<1>2. net = <<c>> /\ mishap = FALSE
  BY DEF PollInit
<1>. HIDE DEF c
<1>3. Queue(PollOps) /\ Len(net) = 1 /\ net[1] = c
  BY <1>1, <1>2, FirstCall
<1>4. DOMAIN ui = PollFields /\ ~ui.voted /\ ui.voted \in BOOLEAN
  BY DEF PollInit, PollFields
<1>5. PollCall(c, srv)
  BY <1>1 DEF PollCall, IsTally
<1>. QED BY <1>3, <1>4, <1>5 DEF PollState

\* What can happen on this page.
LEMMA PollActions ==
  ASSUME page = "poll", Queue(PollOps), Next
  PROVE  \/ \E o \in Options : HandlePollVote(o)
         \/ \E i \in 1..Len(net) : \/ MyVoteServed(i) \/ TallyServed(i) \/ PollVoteServed(i) \/ Deny(i)
                                   \/ MyVoteChecked(i) \/ TallyRefreshed(i) \/ PollVoteDone(i)
<1>1. page \in ReactionPages /\ Queue(ReactionOps)
  BY QueueOf DEF ReactionPages, PollOps, ReactionOps
<1>2. CASE ReactionsUser
  BY <1>2 DEF ReactionsUser, HandleVote, HandleTip, HandleJoin, HandleVideoLike, HandleVideoMark,
    TypeVideoNote, HandleVideoNote, CardLike, CardMark
<1>3. ASSUME NEW i \in 1..Len(net), ReactionsService(i) \/ ReactionsThen(i)
      PROVE  \/ MyVoteServed(i) \/ TallyServed(i) \/ PollVoteServed(i)
             \/ MyVoteChecked(i) \/ TallyRefreshed(i) \/ PollVoteDone(i)
  <2>1. net[i].op \in PollOps
    BY DEF Queue, Calls
  <2>. QED BY <1>3, <2>1 DEF PollOps, ReactionsService, ScoreServed, CastServed, OnceServed, VideoServed,
         VideoActServed, CardServed, Asked, ReactionsThen, ScoreLoaded, CastDone, OnceDone, VideoLoaded,
         VideoActDone, CardDone, Answered
<1>. QED BY <1>1, <1>2, <1>3, ReactionsNext

\* What a call was told outlives what is told to others.
LEMMA PollCallLasts ==
  ASSUME NEW c, NEW v, NEW w, PollCall(c, v), w = v \/ (v = 0 /\ w # 0)
  PROVE  PollCall(c, w)
BY DEF PollCall

\* A service's answer keeps what holds, if it is true itself.
LEMMA PollReplies ==
  ASSUME PollState, NEW i \in 1..Len(net), NEW v, NEW s, Reply(i, v, s),
         s = srv \/ (srv = 0 /\ s # 0),
         /\ net[i].op = "myVote" => (v => s # 0)
         /\ net[i].op = "pollVote" => s # 0
         /\ IsTally(net[i]) => v = Tally(s)
  PROVE  PollState'
<1>1. Replied(PollOps, i, v, s)
  BY Replies DEF PollState
<1>2. ASSUME NEW k \in 1..Len(net), k # i PROVE PollCall(net'[k], s)
  BY <1>1, <1>2, PollCallLasts DEF PollState, Replied
<1>3. PollCall(net[i], s)
  BY PollCallLasts DEF PollState
<1>4. PollCall(net'[i], s)
  <2>1. net'[i].op = net[i].op /\ net'[i].arg = net[i].arg /\ net'[i].ans # Pending
    BY <1>1 DEF Replied
  <2>2. net'[i].ans.code = "ok" => net'[i].ans.data = v
    BY <1>1 DEF Replied, Ok
  <2>. QED BY <2>1, <2>2, <1>3 DEF PollCall, IsTally
<1>5. \A k \in 1..Len(net') : PollCall(net'[k], srv') /\ IsTally(net'[k]) = IsTally(net[k])
  BY <1>1, <1>2, <1>4 DEF Replied, IsTally
<1>6. ui.voted => s = srv /\ s # 0
  BY DEF PollState
<1>. QED BY <1>1, <1>5, <1>6 DEF PollState, Replied

\* What is left of the calls is still true.
LEMMA PollSettles ==
  ASSUME PollState, NEW i \in 1..Len(net), net[i].ans # Pending, NEW s, Settle(i, s, << >>)
  PROVE  /\ Queue(PollOps)' /\ ui' = s /\ srv' = srv /\ (mishap => mishap')
         /\ \A k \in 1..Len(net') : PollCall(net'[k], srv')
         /\ (~mishap' => IsOk(i))
         /\ (~IsTally(net[i]) /\ (\E k \in 1..Len(net) : IsTally(net[k])) =>
               \E k \in 1..Len(net') : IsTally(net'[k]))
<1>1. Settled(PollOps, i, s)
  BY SettlesNone DEF PollState
<1>2. ASSUME NEW k \in 1..Len(net') PROVE PollCall(net'[k], srv)
  <2>1. /\ net'[k] = net[IF k < i THEN k ELSE k + 1]
        /\ (IF k < i THEN k ELSE k + 1) \in 1..Len(net)
    BY <1>1 DEF Settled
  <2>. QED BY <2>1 DEF PollState
<1>3. ASSUME NEW j \in 1..Len(net), j # i, IsTally(net[j])
      PROVE  \E k \in 1..Len(net') : IsTally(net'[k])
  <2>1. CASE j < i
    <3>1. j \in 1..(Len(net) - 1) /\ net'[j] = net[j]
      BY <2>1, <1>1 DEF Settled
    <3>. QED BY <3>1, <1>1, <1>3 DEF Settled
  <2>2. CASE j > i
    <3>1. j - 1 \in 1..(Len(net) - 1) /\ net'[j - 1] = net[j]
      BY <2>2, <1>1 DEF Settled
    <3>. QED BY <3>1, <1>1, <1>3 DEF Settled
  <2>. QED BY <2>1, <2>2, <1>3
<1>. QED BY <1>1, <1>2, <1>3 DEF Settled

\* A continuation of the poll card that asks for the tally keeps what the card
\* relies on: the service holds a vote.
LEMMA PollSettlesOne ==
  ASSUME PollState, NEW i \in 1..Len(net), net[i].ans # Pending, NEW s, NEW c, IsCall(c),
         c.op \in {"tally", "tallyFirst"}, c.ans = Pending, Settle(i, s, <<c>>),
         srv # 0, DOMAIN s = PollFields, s.voted \in BOOLEAN
  PROVE  PollState'
<1>1. SettledWith(PollOps, i, s, c)
  BY SettlesOne DEF PollState, PollOps
<1>2. PollCall(c, srv) /\ IsTally(c)
  BY DEF PollCall, IsTally
<1>3. ASSUME NEW k \in 1..Len(net') PROVE PollCall(net'[k], srv)
  <2>1. CASE k = Len(net)
    BY <2>1, <1>1, <1>2 DEF SettledWith
  <2>2. CASE k # Len(net)
    <3>1. /\ net'[k] = net[IF k < i THEN k ELSE k + 1]
          /\ (IF k < i THEN k ELSE k + 1) \in 1..Len(net)
      BY <2>2, <1>1 DEF SettledWith
    <3>. QED BY <3>1 DEF PollState
  <2>. QED BY <2>1, <2>2
<1>4. Len(net) \in 1..Len(net') /\ IsTally(net'[Len(net)])
  BY <1>1, <1>2 DEF SettledWith
<1>. QED BY <1>1, <1>3, <1>4 DEF PollState, SettledWith

\* Every step of the page keeps it.
LEMMA PollSteps ==
  ASSUME page = "poll", PollState, Next PROVE PollState'
<1>. Queue(PollOps) /\ Len(net) \in Nat
  BY DEF PollState, Queue, Calls
<1>1. ASSUME NEW o \in Options, HandlePollVote(o) PROVE PollState'
  <2>. DEFINE s == [ui EXCEPT !.submitting = TRUE]
              c == Fetch("pollVote", o)
  <2>1. Handle(s, <<c>>)
    BY <1>1 DEF HandlePollVote
  <2>2. DOMAIN s = PollFields /\ s.voted = ui.voted /\ s.tally = ui.tally
    BY DEF PollState, PollFields
  <2>3. IsCall(c) /\ c.op = "pollVote" /\ c.arg = o /\ c.ans = Pending
    BY NewCalls
  <2>. HIDE DEF s, c
  <2>4. Started(PollOps, s, c)
    BY <2>1, <2>3, HandlesOne DEF PollOps
  <2>5. PollCall(c, srv)
    BY <2>3 DEF PollCall, IsTally, Options
  <2>6. \A k \in 1..Len(net') : PollCall(net'[k], srv')
    BY <2>4, <2>5 DEF Started, PollState
  <2>7. (\E k \in 1..Len(net) : IsTally(net[k])) => \E k \in 1..Len(net') : IsTally(net'[k])
    BY <2>4 DEF Started
  <2>. QED BY <2>2, <2>4, <2>6, <2>7 DEF Started, PollState
<1>2. ASSUME NEW i \in 1..Len(net), MyVoteServed(i) PROVE PollState'
  <2>1. Reply(i, srv # 0, srv) /\ net[i].op = "myVote"
    BY <1>2 DEF MyVoteServed, Asked
  <2>. QED BY <2>1, PollReplies DEF IsTally
<1>3. ASSUME NEW i \in 1..Len(net), TallyServed(i) PROVE PollState'
  <2>1. Reply(i, Tally(srv), srv) /\ net[i].op \in {"tally", "tallyFirst"}
    BY <1>3 DEF TallyServed, Asked
  <2>. QED BY <2>1, PollReplies DEF IsTally
<1>4. ASSUME NEW i \in 1..Len(net), PollVoteServed(i) PROVE PollState'
  <2>. DEFINE v == [already |-> srv # 0]
              s == IF srv = 0 THEN net[i].arg ELSE srv
  <2>1. Reply(i, v, s) /\ net[i].op = "pollVote"
    BY <1>4 DEF PollVoteServed, Asked
  <2>2. net[i].arg # 0
    BY <2>1 DEF PollState, PollCall
  <2>3. s # 0 /\ (s = srv \/ srv = 0)
    BY <2>2
  <2>. HIDE DEF v, s
  <2>. QED BY <2>1, <2>3, PollReplies DEF IsTally
<1>5. ASSUME NEW i \in 1..Len(net), MyVoteChecked(i) PROVE PollState'
  <2>1. net[i].op = "myVote" /\ net[i].ans # Pending
    BY <1>5 DEF MyVoteChecked, Answered
  <2>2. CASE IsOk(i) /\ Data(i)
    <3>. DEFINE s == [ui EXCEPT !.voted = TRUE]
                c == Fetch("tallyFirst", 0)
    <3>1. Settle(i, s, <<c>>)
      BY <1>5, <2>2 DEF MyVoteChecked
    <3>2. DOMAIN s = PollFields /\ s.voted \in BOOLEAN
      BY DEF PollState, PollFields
    <3>3. IsCall(c) /\ c.op \in {"tally", "tallyFirst"} /\ c.ans = Pending
      BY NewCalls
    <3>4. srv # 0
      BY <2>1, <2>2 DEF PollState, PollCall, IsOk, Data
    <3>. HIDE DEF s, c
    <3>. QED BY <2>1, <3>1, <3>2, <3>3, <3>4, PollSettlesOne
  <2>3. CASE ~(IsOk(i) /\ Data(i))
    <3>. DEFINE s == [ui EXCEPT !.loading = FALSE]
    <3>1. Settle(i, s, << >>)
      BY <1>5, <2>3 DEF MyVoteChecked
    <3>2. DOMAIN s = PollFields /\ s.voted = ui.voted /\ s.tally = ui.tally
      BY DEF PollState, PollFields
    <3>. HIDE DEF s
    <3>3. /\ Queue(PollOps)' /\ ui' = s /\ srv' = srv /\ (mishap => mishap')
          /\ \A k \in 1..Len(net') : PollCall(net'[k], srv')
          /\ (~IsTally(net[i]) /\ (\E k \in 1..Len(net) : IsTally(net[k])) =>
                \E k \in 1..Len(net') : IsTally(net'[k]))
      BY <2>1, <3>1, PollSettles
    <3>. QED BY <2>1, <3>2, <3>3 DEF PollState, IsTally
  <2>. QED BY <2>2, <2>3
<1>6. ASSUME NEW i \in 1..Len(net), TallyRefreshed(i) PROVE PollState'
  <2>. DEFINE s == [ui EXCEPT !.tally = IF IsOk(i) THEN Data(i) ELSE @,
                              !.loading = @ /\ net[i].op # "tallyFirst"]
  <2>1. Settle(i, s, << >>) /\ net[i].op \in {"tally", "tallyFirst"} /\ net[i].ans # Pending
    BY <1>6 DEF TallyRefreshed, Answered
  <2>2. DOMAIN s = PollFields /\ s.voted = ui.voted /\ (IsOk(i) => s.tally = Data(i))
    BY DEF PollState, PollFields
  <2>. HIDE DEF s
  <2>3. /\ Queue(PollOps)' /\ ui' = s /\ srv' = srv
        /\ \A k \in 1..Len(net') : PollCall(net'[k], srv')
        /\ (~mishap' => IsOk(i))
    BY <2>1, PollSettles
  <2>4. IsOk(i) => Data(i) = Tally(srv)
    BY <2>1 DEF PollState, PollCall, IsOk, Data, IsTally
  <2>. QED BY <2>2, <2>3, <2>4 DEF PollState
<1>7. ASSUME NEW i \in 1..Len(net), PollVoteDone(i) PROVE PollState'
  <2>. DEFINE counted == [ui.tally EXCEPT ![net[i].arg] = @ + 1]
              done == [ui EXCEPT !.submitting = FALSE]
  <2>1. net[i].op = "pollVote" /\ net[i].ans # Pending
    BY <1>7 DEF PollVoteDone, Answered
  <2>2. CASE ~IsOk(i)
    <3>1. Settle(i, done, << >>)
      BY <1>7, <2>2 DEF PollVoteDone
    <3>2. DOMAIN done = PollFields /\ done.voted = ui.voted /\ done.tally = ui.tally
      BY DEF PollState, PollFields
    <3>. HIDE DEF done
    <3>3. /\ Queue(PollOps)' /\ ui' = done /\ srv' = srv /\ (mishap => mishap')
          /\ \A k \in 1..Len(net') : PollCall(net'[k], srv')
          /\ (~IsTally(net[i]) /\ (\E k \in 1..Len(net) : IsTally(net[k])) =>
                \E k \in 1..Len(net') : IsTally(net'[k]))
      BY <2>1, <3>1, PollSettles
    <3>. QED BY <2>1, <3>2, <3>3 DEF PollState, IsTally
  <2>3. CASE IsOk(i)
    <3>. DEFINE s == [done EXCEPT !.voted = TRUE, !.tally = IF Data(i).already THEN @ ELSE counted]
                c == Fetch("tally", 0)
    <3>1. Settle(i, s, <<c>>)
      BY <1>7, <2>3 DEF PollVoteDone
    <3>2. DOMAIN s = PollFields /\ s.voted \in BOOLEAN
      BY DEF PollState, PollFields
    <3>3. IsCall(c) /\ c.op \in {"tally", "tallyFirst"} /\ c.ans = Pending
      BY NewCalls
    <3>4. srv # 0
      BY <2>1, <2>3 DEF PollState, PollCall, IsOk
    <3>. HIDE DEF s, c
    <3>. QED BY <2>1, <3>1, <3>2, <3>3, <3>4, PollSettlesOne
  <2>. QED BY <2>2, <2>3
<1>8. ASSUME NEW i \in 1..Len(net), Deny(i) PROVE PollState'
  <2>1. Denied(PollOps, i)
    BY <1>8, Denies
  <2>2. PollCall(net'[i], srv)
    BY <2>1 DEF PollState, PollCall, Denied, IsTally
  <2>. QED BY <2>1, <2>2 DEF PollState, Denied
<1>. QED BY <1>1, <1>2, <1>3, <1>4, <1>5, <1>6, <1>7, <1>8, PollActions DEF PollState

\* A poll card that says the user voted is right, and ends with the service's
\* tally (WebReactions.PollIsTrue): every vote that is shown has its refresh in
\* the queue or answered.
THEOREM PollStaysTrue == Spec => []PollIsTrue
<1>. DEFINE Inv == page = "poll" => PollState
<1>1. Init => Inv
  BY Mounts, PollStarts
<1>2. Inv /\ [Next]_vars => Inv'
  <2>1. CASE Next
    BY <2>1, PageStays, PollSteps
  <2>2. CASE UNCHANGED vars
    BY <2>2 DEF vars, PollState, Queue, Calls, InOrder
  <2>. QED BY <2>1, <2>2
<1>3. Inv => PollIsTrue
  <2>. SUFFICES ASSUME PollState, ui.voted, Quiet, ~mishap PROVE ui.tally = Tally(srv)
    BY DEF PollIsTrue, PollState
  <2>1. Len(net) = 0
    BY QuietIsEmpty DEF PollState
  <2>. QED BY <2>1 DEF PollState
<1>. QED BY <1>1, <1>2, <1>3, PTL DEF Spec
------------------------------------------------------------------------------
(***************************************************************************)
(* The content card.                                                       *)
(***************************************************************************)
\* Flipped from a by the calls to op that are pending in q, one after the
\* other, the state ends as b.
Path(q, op, p) ==
  \A k \in 1..Len(q) :
    IF q[k].op = op /\ q[k].ans = Pending THEN p[k] # p[k - 1] ELSE p[k] = p[k - 1]

Flips(q, op, a, b) ==
  \E p \in [0..Len(q) -> BOOLEAN] : p[0] = a /\ p[Len(q)] = b /\ Path(q, op, p)

\* A toggle is shown at once and its call goes behind the others: one more flip.
LEMMA FlipsGrow ==
  ASSUME NEW q, Len(q) \in Nat, NEW t, Len(t) = Len(q) + 1, \A k \in 1..Len(q) : t[k] = q[k],
         NEW op, NEW a, NEW b, Flips(q, op, a, b), t[Len(q) + 1].ans = Pending
  PROVE  /\ t[Len(q) + 1].op = op => Flips(t, op, a, ~b)
         /\ t[Len(q) + 1].op # op => Flips(t, op, a, b)
<1>1. PICK p \in [0..Len(q) -> BOOLEAN] : p[0] = a /\ p[Len(q)] = b /\ Path(q, op, p)
  BY DEF Flips
<1>2. \A k \in 0..Len(q) : p[k] \in BOOLEAN
  OBVIOUS
<1>3. ASSUME NEW v \in BOOLEAN, IF t[Len(q) + 1].op = op THEN v # b ELSE v = b
      PROVE  Flips(t, op, a, v)
  <2>. DEFINE r == [k \in 0..Len(t) |-> IF k <= Len(q) THEN p[k] ELSE v]
  <2>1. r \in [0..Len(t) -> BOOLEAN]
    BY <1>2
  <2>2. r[0] = a /\ r[Len(t)] = v
    BY <1>1
  <2>3. ASSUME NEW k \in 1..Len(t)
        PROVE  IF t[k].op = op /\ t[k].ans = Pending THEN r[k] # r[k - 1] ELSE r[k] = r[k - 1]
    <3>1. CASE k <= Len(q)
      <4>1. r[k] = p[k] /\ r[k - 1] = p[k - 1] /\ t[k] = q[k] /\ k \in 1..Len(q)
        BY <3>1
      <4>2. IF q[k].op = op /\ q[k].ans = Pending THEN p[k] # p[k - 1] ELSE p[k] = p[k - 1]
        BY <4>1, <1>1 DEF Path
      <4>. QED BY <4>1, <4>2
    <3>2. CASE k = Len(q) + 1
      <4>1. r[k] = v /\ r[k - 1] = b
        BY <3>2, <1>1
      <4>. QED BY <4>1, <3>2, <1>3
    <3>. QED BY <3>1, <3>2
  <2>. HIDE DEF r
  <2>. QED BY <2>1, <2>2, <2>3 DEF Flips, Path
<1>4. b \in BOOLEAN
  BY <1>1, <1>2
<1>. QED BY <1>3, <1>4

\* The oldest pending call is answered.
LEMMA FlipsAnswered ==
  ASSUME NEW q, NEW t, NEW i, IsAnswered(q, t, i),
         NEW op, NEW a, NEW b, Flips(q, op, a, b)
  PROVE  /\ q[i].op = op => Flips(t, op, ~a, b)
         /\ q[i].op # op => Flips(t, op, a, b)
<1>0. /\ Len(q) \in Nat /\ Len(t) = Len(q) /\ i \in 1..Len(q)
      /\ \A k \in 1..Len(q) : k # i => t[k] = q[k]
      /\ t[i].op = q[i].op /\ t[i].ans # Pending /\ q[i].ans = Pending
      /\ \A k \in 1..(i - 1) : q[k].ans # Pending
  BY DEF IsAnswered
<1>1. PICK p \in [0..Len(q) -> BOOLEAN] : p[0] = a /\ p[Len(q)] = b /\ Path(q, op, p)
  BY DEF Flips
<1>2. \A k \in 0..Len(q) : p[k] \in BOOLEAN
  BY <1>0, <1>1
<1>3. ASSUME q[i].op = op PROVE Flips(t, op, ~a, b)
  <2>. DEFINE r == [k \in 0..Len(t) |-> IF k < i THEN ~p[k] ELSE p[k]]
  <2>1. r \in [0..Len(t) -> BOOLEAN]
    BY <1>0, <1>2
  <2>2. r[0] = ~a /\ r[Len(t)] = b
    BY <1>0, <1>1
  <2>3. ASSUME NEW k \in 1..Len(t)
        PROVE  IF t[k].op = op /\ t[k].ans = Pending THEN r[k] # r[k - 1] ELSE r[k] = r[k - 1]
    <3>1. IF q[k].op = op /\ q[k].ans = Pending THEN p[k] # p[k - 1] ELSE p[k] = p[k - 1]
      BY <1>0, <1>1 DEF Path
    <3>2. p[k] \in BOOLEAN /\ p[k - 1] \in BOOLEAN
      BY <1>0, <1>2
    <3>3. CASE k < i
      <4>1. r[k] = ~p[k] /\ r[k - 1] = ~p[k - 1] /\ t[k] = q[k] /\ q[k].ans # Pending
        BY <1>0, <3>3
      <4>. QED BY <1>0, <4>1, <3>1
    <3>4. CASE k = i
      <4>1. r[k] = p[k] /\ r[k - 1] = ~p[k - 1]
        BY <1>0, <3>4
      <4>. QED BY <1>0, <4>1, <3>1, <3>2, <3>4, <1>3
    <3>5. CASE k > i
      <4>1. r[k] = p[k] /\ r[k - 1] = p[k - 1] /\ t[k] = q[k]
        BY <1>0, <3>5
      <4>. QED BY <1>0, <4>1, <3>1
    <3>. QED BY <1>0, <3>3, <3>4, <3>5
  <2>. HIDE DEF r
  <2>. QED BY <1>0, <2>1, <2>2, <2>3 DEF Flips, Path
<1>4. ASSUME q[i].op # op PROVE Flips(t, op, a, b)
  <2>1. \A k \in 1..Len(t) : t[k].op = op /\ t[k].ans = Pending <=> q[k].op = op /\ q[k].ans = Pending
    BY <1>0, <1>4
  <2>2. Path(t, op, p)
    BY <1>0, <2>1, <1>1 DEF Path
  <2>. QED BY <1>0, <2>2, <1>1 DEF Flips
<1>. QED BY <1>3, <1>4

\* The oldest call, answered, is settled.
LEMMA FlipsLeft ==
  ASSUME NEW q, Len(q) \in Nat, Len(q) > 0, NEW t, Len(t) = Len(q) - 1,
         \A k \in 1..Len(t) : t[k] = q[k + 1], q[1].ans # Pending,
         NEW op, NEW a, NEW b, Flips(q, op, a, b)
  PROVE  Flips(t, op, a, b)
<1>1. PICK p \in [0..Len(q) -> BOOLEAN] : p[0] = a /\ p[Len(q)] = b /\ Path(q, op, p)
  BY DEF Flips
<1>. DEFINE r == [k \in 0..Len(t) |-> p[k + 1]]
<1>2. r \in [0..Len(t) -> BOOLEAN]
  OBVIOUS
<1>3. p[1] = p[0]
  BY <1>1 DEF Path
<1>4. r[0] = a /\ r[Len(t)] = b
  BY <1>1, <1>3
<1>5. ASSUME NEW k \in 1..Len(t)
      PROVE  IF t[k].op = op /\ t[k].ans = Pending THEN r[k] # r[k - 1] ELSE r[k] = r[k - 1]
  <2>1. r[k] = p[k + 1] /\ r[k - 1] = p[k] /\ t[k] = q[k + 1] /\ k + 1 \in 1..Len(q)
    OBVIOUS
  <2>2. IF q[k + 1].op = op /\ q[k + 1].ans = Pending THEN p[k + 1] # p[(k + 1) - 1]
        ELSE p[k + 1] = p[(k + 1) - 1]
    BY <2>1, <1>1 DEF Path
  <2>3. (k + 1) - 1 = k
    OBVIOUS
  <2>. QED BY <2>1, <2>2, <2>3
<1>. HIDE DEF r
<1>. QED BY <1>2, <1>4, <1>5 DEF Flips, Path

\* With no call pending nothing is flipped.
LEMMA FlipsNone ==
  ASSUME NEW q, Len(q) = 0, NEW op, NEW a
  PROVE  /\ a \in BOOLEAN => Flips(q, op, a, a)
         /\ \A b : Flips(q, op, a, b) => a = b
<1>1. ASSUME a \in BOOLEAN PROVE Flips(q, op, a, a)
  <2>. DEFINE p == [k \in 0..Len(q) |-> a]
  <2>1. p \in [0..Len(q) -> BOOLEAN] /\ p[0] = a /\ p[Len(q)] = a
    BY <1>1
  <2>2. Path(q, op, p)
    BY DEF Path
  <2>. HIDE DEF p
  <2>. QED BY <2>1, <2>2 DEF Flips
<1>. QED BY <1>1 DEF Flips

CardOps    == {"cardLike", "cardMark"}
CardFields == {"liked", "marked", "likes"}

\* The presses still pending make of what the service holds what is shown.
CardState ==
  /\ Queue(CardOps)
  /\ DOMAIN ui = CardFields /\ ui.liked \in BOOLEAN /\ ui.marked \in BOOLEAN
  /\ DOMAIN srv = {"liked", "marked"} /\ srv.liked \in BOOLEAN /\ srv.marked \in BOOLEAN
  /\ ui.likes = Others + B(ui.liked)
  /\ ~mishap => Flips(net, "cardLike", srv.liked, ui.liked) /\ Flips(net, "cardMark", srv.marked, ui.marked)

\* The page is mounted in a state of it.
LEMMA CardStarts ==
  ASSUME CardInit PROVE CardState
<1>1. Queue(CardOps) /\ Len(net) = 0
  BY NoCall DEF CardInit
<1>2. /\ DOMAIN srv = {"liked", "marked"} /\ srv.liked \in BOOLEAN /\ srv.marked \in BOOLEAN
      /\ DOMAIN ui = CardFields /\ ui.liked = srv.liked /\ ui.marked = srv.marked
      /\ ui.likes = Others + B(srv.liked)
  BY DEF CardInit, CardFields
<1>. QED BY <1>1, <1>2, FlipsNone DEF CardState

\* What can happen on this page.
LEMMA CardActions ==
  ASSUME page = "card", Queue(CardOps), Next
  PROVE  CardLike \/ CardMark \/ \E i \in 1..Len(net) : CardServed(i) \/ CardDone(i) \/ Deny(i)
<1>1. page \in ReactionPages /\ Queue(ReactionOps)
  BY QueueOf DEF ReactionPages, CardOps, ReactionOps
<1>2. CASE ReactionsUser
  BY <1>2 DEF ReactionsUser, HandleVote, HandlePollVote, HandleTip, HandleJoin, HandleVideoLike,
    HandleVideoMark, TypeVideoNote, HandleVideoNote
<1>3. ASSUME NEW i \in 1..Len(net), ReactionsService(i) \/ ReactionsThen(i)
      PROVE  CardServed(i) \/ CardDone(i)
  <2>1. net[i].op \in CardOps
    BY DEF Queue, Calls
  <2>. QED BY <1>3, <2>1 DEF CardOps, ReactionsService, ScoreServed, CastServed, MyVoteServed, TallyServed,
         PollVoteServed, OnceServed, VideoServed, VideoActServed, Asked, ReactionsThen, ScoreLoaded,
         CastDone, MyVoteChecked, TallyRefreshed, PollVoteDone, OnceDone, VideoLoaded, VideoActDone, Answered
<1>. QED BY <1>1, <1>2, <1>3, ReactionsNext

\* Every step of the page keeps it.
LEMMA CardSteps ==
  ASSUME page = "card", CardState, Next PROVE CardState'
<1>. Queue(CardOps) /\ Len(net) \in Nat
  BY DEF CardState, Queue, Calls
<1>1. CASE CardLike
  <2>. DEFINE s == [ui EXCEPT !.liked = ~@, !.likes = IF ui.liked THEN @ - 1 ELSE @ + 1]
              c == Fetch("cardLike", 0)
  <2>1. Handle(s, <<c>>)
    BY <1>1 DEF CardLike
  <2>2. /\ DOMAIN s = CardFields /\ s.liked = ~ui.liked /\ s.liked \in BOOLEAN /\ s.marked = ui.marked
        /\ s.likes = IF ui.liked THEN ui.likes - 1 ELSE ui.likes + 1
    BY DEF CardState, CardFields
  <2>3. s.likes = Others + B(s.liked)
    <3>. HIDE DEF s
    <3>1. CASE ui.liked
      <4>1. B(ui.liked) = 1 /\ ui.likes = Others + B(ui.liked) /\ ~s.liked
        BY <2>2, <3>1 DEF CardState, B
      <4>2. B(s.liked) = 0
        BY <4>1 DEF B
      <4>3. s.likes = ui.likes - 1
        BY <2>2, <3>1
      <4>. QED BY <4>1, <4>2, <4>3 DEF Others
    <3>2. CASE ~ui.liked
      <4>1. B(ui.liked) = 0 /\ ui.likes = Others + B(ui.liked) /\ s.liked
        BY <2>2, <3>2 DEF CardState, B
      <4>2. B(s.liked) = 1
        BY <4>1 DEF B
      <4>3. s.likes = 1 + 1 /\ Others = 1
        BY <2>2, <3>2, <4>1 DEF Others
      <4>. QED BY <4>2, <4>3
    <3>. QED BY <3>1, <3>2
  <2>4. IsCall(c) /\ c.op = "cardLike" /\ c.ans = Pending
    BY NewCalls
  <2>. HIDE DEF s, c
  <2>5. Started(CardOps, s, c)
    BY <2>1, <2>4, HandlesOne DEF CardOps
  <2>6. ASSUME ~mishap
        PROVE  Flips(net', "cardLike", srv.liked, ~ui.liked) /\ Flips(net', "cardMark", srv.marked, ui.marked)
    BY <2>4, <2>5, <2>6, FlipsGrow DEF Started, CardState
  <2>. QED BY <2>2, <2>3, <2>5, <2>6 DEF Started, CardState
<1>2. CASE CardMark
  <2>. DEFINE s == [ui EXCEPT !.marked = ~@]
              c == Fetch("cardMark", 0)
  <2>1. Handle(s, <<c>>)
    BY <1>2 DEF CardMark
  <2>2. /\ DOMAIN s = CardFields /\ s.marked = ~ui.marked /\ s.marked \in BOOLEAN /\ s.liked = ui.liked
        /\ s.likes = ui.likes
    BY DEF CardState, CardFields
  <2>3. IsCall(c) /\ c.op = "cardMark" /\ c.ans = Pending
    BY NewCalls
  <2>. HIDE DEF s, c
  <2>4. Started(CardOps, s, c)
    BY <2>1, <2>3, HandlesOne DEF CardOps
  <2>5. ASSUME ~mishap
        PROVE  Flips(net', "cardLike", srv.liked, ui.liked) /\ Flips(net', "cardMark", srv.marked, ~ui.marked)
    BY <2>3, <2>4, <2>5, FlipsGrow DEF Started, CardState
  <2>. QED BY <2>2, <2>4, <2>5 DEF Started, CardState
<1>3. ASSUME NEW i \in 1..Len(net), CardServed(i) PROVE CardState'
  <2>1. CASE net[i].op = "cardLike"
    <3>. DEFINE s == [srv EXCEPT !.liked = ~@]
    <3>1. Reply(i, 0, s)
      BY <1>3, <2>1 DEF CardServed, Asked
    <3>2. /\ DOMAIN s = {"liked", "marked"} /\ s.liked = ~srv.liked /\ s.liked \in BOOLEAN
          /\ s.marked = srv.marked
      BY DEF CardState
    <3>. HIDE DEF s
    <3>3. Replied(CardOps, i, 0, s)
      BY <3>1, Replies
    <3>4. ASSUME ~mishap'
          PROVE  Flips(net', "cardLike", ~srv.liked, ui.liked) /\ Flips(net', "cardMark", srv.marked, ui.marked)
      <4>1. IsAnswered(net, net', i)
        BY <3>3, <3>4, AnswersOldest
      <4>2. Flips(net, "cardLike", srv.liked, ui.liked) /\ Flips(net, "cardMark", srv.marked, ui.marked)
        BY <3>3, <3>4 DEF Replied, CardState
      <4>. QED BY <2>1, <4>1, <4>2, FlipsAnswered
    <3>. QED BY <3>2, <3>3, <3>4 DEF Replied, CardState
  <2>2. CASE net[i].op = "cardMark"
    <3>. DEFINE s == [srv EXCEPT !.marked = ~@]
    <3>1. Reply(i, 0, s)
      BY <1>3, <2>2 DEF CardServed, Asked
    <3>2. /\ DOMAIN s = {"liked", "marked"} /\ s.marked = ~srv.marked /\ s.marked \in BOOLEAN
          /\ s.liked = srv.liked
      BY DEF CardState
    <3>. HIDE DEF s
    <3>3. Replied(CardOps, i, 0, s)
      BY <3>1, Replies
    <3>4. ASSUME ~mishap'
          PROVE  Flips(net', "cardLike", srv.liked, ui.liked) /\ Flips(net', "cardMark", ~srv.marked, ui.marked)
      <4>1. IsAnswered(net, net', i)
        BY <3>3, <3>4, AnswersOldest
      <4>2. Flips(net, "cardLike", srv.liked, ui.liked) /\ Flips(net, "cardMark", srv.marked, ui.marked)
        BY <3>3, <3>4 DEF Replied, CardState
      <4>. QED BY <2>2, <4>1, <4>2, FlipsAnswered
    <3>. QED BY <3>2, <3>3, <3>4 DEF Replied, CardState
  <2>. QED BY <2>1, <2>2 DEF Queue, Calls, CardOps
<1>4. ASSUME NEW i \in 1..Len(net), CardDone(i) PROVE CardState'
  <2>1. Settle(i, ui, << >>) /\ net[i].ans # Pending
    BY <1>4 DEF CardDone, Answered
  <2>2. Settled(CardOps, i, ui)
    BY <2>1, SettlesNone
  <2>3. ASSUME ~mishap'
        PROVE  Flips(net', "cardLike", srv.liked, ui.liked) /\ Flips(net', "cardMark", srv.marked, ui.marked)
    <3>1. /\ i = 1 /\ Len(net) > 0 /\ Len(net') = Len(net) - 1
          /\ \A k \in 1..Len(net') : net'[k] = net[k + 1]
      BY <2>2, <2>3 DEF Settled
    <3>. QED BY <2>1, <2>2, <2>3, <3>1, FlipsLeft DEF Settled, CardState
  <2>. QED BY <2>2, <2>3 DEF Settled, CardState
<1>5. ASSUME NEW i \in 1..Len(net), Deny(i) PROVE CardState'
  <2>1. Denied(CardOps, i)
    BY <1>5, Denies
  <2>. QED BY <2>1 DEF CardState, Denied
<1>. QED BY <1>1, <1>2, <1>3, <1>4, <1>5, CardActions DEF CardState

\* The optimistic heart and bookmark of a card end as the service has them
\* (WebReactions.CardIsCurrent), however many toggles were pending together: the
\* pending ones lead from what the service holds to what is shown.
THEOREM CardSettles == Spec => []CardIsCurrent
<1>. DEFINE Inv == page = "card" => CardState
<1>1. Init => Inv
  BY Mounts, CardStarts
<1>2. Inv /\ [Next]_vars => Inv'
  <2>1. CASE Next
    BY <2>1, PageStays, CardSteps
  <2>2. CASE UNCHANGED vars
    BY <2>2 DEF vars, CardState, Queue, Calls, InOrder
  <2>. QED BY <2>1, <2>2
<1>3. Inv => CardIsCurrent
  <2>. SUFFICES ASSUME CardState, Quiet, ~mishap
                PROVE  ui.liked = srv.liked /\ ui.marked = srv.marked /\ ui.likes = Others + B(srv.liked)
    BY DEF CardIsCurrent
  <2>1. Len(net) = 0
    BY QuietIsEmpty DEF CardState
  <2>2. ui.liked = srv.liked /\ ui.marked = srv.marked
    BY <2>1, FlipsNone DEF CardState
  <2>. QED BY <2>2 DEF CardState
<1>. QED BY <1>1, <1>2, <1>3, PTL DEF Spec
------------------------------------------------------------------------------
(***************************************************************************)
(* The upload of a video.                                                  *)
(***************************************************************************)
UploadOps    == {"upload", "publish"}
UploadFields == {"status", "publishing", "error", "file", "submissions", "sent"}

\* What call c of an upload to the spaces sent was told is so with the service
\* at s.
UploadCall(c, sent, s) ==
  /\ c.op = "upload" =>
       /\ c.arg = sent
       /\ c.ans # Pending /\ c.ans.code = "ok" => s.videos > 0 /\ s.in = {}
  /\ c.op = "publish" =>
       /\ c.arg.spaces = sent /\ s.videos > 0 /\ s.in \in {{}, sent}
       /\ c.ans # Pending /\ c.ans.code = "ok" =>
            /\ c.ans.data \in BOOLEAN /\ (c.ans.data <=> sent \subseteq s.open)
            /\ sent \subseteq s.open => s.in = sent

\* The upload of u has ended well, as far as it says so.
UploadEnded(u, s) ==
  /\ s.videos > 0
  /\ ~u.error => s.in = u.sent

\* One call at a time, from the click to the end.
UploadState ==
  /\ Queue(UploadOps)
  /\ DOMAIN ui = UploadFields /\ ui.publishing \in BOOLEAN /\ ui.error \in BOOLEAN
  /\ DOMAIN srv = {"open", "videos", "in"} /\ srv.videos \in Nat
  /\ ui.publishing => Len(net) = 1 /\ ui.status = "uploading" /\ UploadCall(net[1], ui.sent, srv)
  /\ ~ui.publishing => Len(net) = 0 /\ ui.status # "uploading"
  /\ ui.status = "success" =>
       /\ UploadEnded(ui, srv)
       /\ ~mishap => (ui.error <=> ~(ui.sent \subseteq srv.open))

\* The page is mounted in a state of it.
LEMMA UploadStarts ==
  ASSUME UploadInit PROVE UploadState
<1>1. Queue(UploadOps) /\ Len(net) = 0
  BY NoCall DEF UploadInit
<1>2. /\ DOMAIN ui = UploadFields /\ ~ui.publishing /\ ui.publishing \in BOOLEAN
      /\ ui.error \in BOOLEAN /\ ui.status = "idle"
  BY DEF UploadInit, UploadFields
<1>3. DOMAIN srv = {"open", "videos", "in"} /\ srv.videos \in Nat
  BY DEF UploadInit
<1>. QED BY <1>1, <1>2, <1>3 DEF UploadState

\* What can happen on this page.
LEMMA UploadActions ==
  ASSUME page = "upload", Queue(UploadOps), Next
  PROVE  \/ SetVideoFile \/ HandleVideoUpload \/ UploadMore \/ \E s \in Spaces : SetSubmission(s)
         \/ \E i \in 1..Len(net) : VideoPublished(i) \/ VideoUploadDone(i) \/ Deny(i)
<1>1. page \in EditorPages /\ Queue(EditorOps)
  BY QueueOf DEF EditorPages, UploadOps, EditorOps
<1>2. CASE EditorUser
  BY <1>2 DEF EditorUser, TypeText, EditorReports, TypeTitle, SetIsFullscreen, RestoreDraft,
    DiscardDraft, HandleFile, HandleSubmitText, ComposeShown, Reload
<1>3. ASSUME NEW i \in 1..Len(net), EditorService(i) \/ EditorThen(i)
      PROVE  VideoPublished(i) \/ VideoUploadDone(i)
  <2>1. net[i].op \in UploadOps
    BY DEF Queue, Calls
  <2>. QED BY <1>3, <2>1 DEF UploadOps, EditorService, CreateServed, FileServed, Asked, EditorThen,
         CreateDone, FileDone, Answered
<1>. QED BY <1>1, <1>2, <1>3, EditorNext

\* The one call.
LEMMA UploadCallIs ==
  ASSUME UploadState, NEW i \in 1..Len(net)
  PROVE  /\ Len(net) = 1 /\ i = 1 /\ ui.publishing /\ ui.status = "uploading"
         /\ UploadCall(net[i], ui.sent, srv)
<1>1. CASE ~ui.publishing
  <2>1. Len(net) = 0
    BY <1>1 DEF UploadState
  <2>. QED BY <2>1
<1>2. CASE ui.publishing
  <2>1. Len(net) = 1 /\ ui.status = "uploading" /\ UploadCall(net[1], ui.sent, srv)
    BY <1>2 DEF UploadState
  <2>2. i = 1
    BY <2>1
  <2>. QED BY <2>1, <2>2, <1>2
<1>. QED BY <1>1, <1>2

\* While nothing is uploaded a click changes what will be.
LEMMA UploadClicks ==
  ASSUME UploadState, NEW s, Update(s), ui.status # "uploading",
         DOMAIN s = UploadFields, s.publishing = ui.publishing, s.error = ui.error, s.sent = ui.sent,
         s.status = ui.status \/ s.status = "idle"
  PROVE  UploadState'
<1>1. Updated(UploadOps, s)
  BY HandlesNone DEF UploadState
<1>2. ~ui.publishing /\ Len(net) = 0
  BY DEF UploadState
<1>3. ASSUME ui.status = "success"
      PROVE  /\ UploadEnded(s, srv)
             /\ ~mishap => (s.error <=> ~(s.sent \subseteq srv.open))
  BY <1>3 DEF UploadState, UploadEnded
<1>. QED BY <1>1, <1>2, <1>3 DEF UploadState, Updated

\* The upload ends.
LEMMA UploadsEnd ==
  ASSUME UploadState, NEW i \in 1..Len(net), net[i].ans # Pending, NEW s, Settle(i, s, << >>),
         DOMAIN s = UploadFields, s.publishing = FALSE, s.error \in BOOLEAN, s.sent = ui.sent,
         s.status \in {"success", "error"},
         s.status = "success" =>
           /\ UploadEnded(s, srv)
           /\ IsOk(i) => (s.error <=> ~(s.sent \subseteq srv.open))
  PROVE  UploadState'
<1>1. Settled(UploadOps, i, s)
  BY SettlesNone DEF UploadState
<1>2. Len(net) = 1 /\ i = 1
  BY DEF UploadState
<1>3. Queue(UploadOps)' /\ Len(net') = 0 /\ ui' = s /\ srv' = srv
  BY <1>1, <1>2 DEF Settled
<1>4. ~mishap' => IsOk(i)
  BY <1>1, <1>2 DEF Settled
<1>5. ~s.publishing /\ s.publishing \in BOOLEAN
  OBVIOUS
<1>. QED BY <1>3, <1>4, <1>5 DEF UploadState

\* The upload goes on.
LEMMA UploadsGoOn ==
  ASSUME UploadState, NEW i \in 1..Len(net), net[i].ans # Pending, NEW retry,
         NEW spaces, Settle(i, ui, <<Publish(spaces, retry)>>), spaces = ui.sent,
         srv.videos > 0, srv.in \in {{}, ui.sent}
  PROVE  UploadState'
<1>. DEFINE c == Publish(spaces, retry)
<1>1. IsCall(c) /\ c.op = "publish" /\ c.arg.spaces = spaces /\ c.ans = Pending
  BY NewCalls DEF Publish
<1>. HIDE DEF c
<1>2. SettledWith(UploadOps, i, ui, c)
  BY <1>1, SettlesOne DEF UploadState, UploadOps, c
<1>3. Len(net) = 1 /\ i = 1 /\ ui.publishing
  BY DEF UploadState
<1>4. Queue(UploadOps)' /\ Len(net') = 1 /\ net'[1] = c /\ ui' = ui /\ srv' = srv
  BY <1>2, <1>3 DEF SettledWith
<1>5. UploadCall(c, ui.sent, srv)
  BY <1>1 DEF UploadCall
<1>. QED BY <1>3, <1>4, <1>5 DEF UploadState

\* The service answers what is so.
LEMMA UploadReplies ==
  ASSUME UploadState, NEW i \in 1..Len(net), NEW v, NEW s, Reply(i, v, s),
         DOMAIN s = {"open", "videos", "in"}, s.videos \in Nat,
         \A c : /\ c.op = net[i].op /\ c.arg = net[i].arg
                /\ c.ans.code = "ok" => c.ans = Ok(v)
                => UploadCall(c, ui.sent, s)
  PROVE  UploadState'
<1>1. Replied(UploadOps, i, v, s)
  BY Replies DEF UploadState
<1>2. Len(net) = 1 /\ i = 1 /\ ui.publishing /\ ui.status = "uploading"
  BY DEF UploadState
<1>3. UploadCall(net'[1], ui.sent, s)
  BY <1>1, <1>2 DEF Replied
<1>. QED BY <1>1, <1>2, <1>3 DEF Replied, UploadState

\* Every step of the page keeps it.
LEMMA UploadSteps ==
  ASSUME page = "upload", UploadState, Next PROVE UploadState'
<1>. Queue(UploadOps) /\ Len(net) \in Nat
  BY DEF UploadState, Queue, Calls
<1>0. DOMAIN ui = UploadFields
  BY DEF UploadState
<1>1. CASE SetVideoFile
  <2>. DEFINE s == [ui EXCEPT !.file = ~@]
  <2>1. CASE ui.status = "uploading"
    <3>1. Updated(UploadOps, s)
      BY <1>1, HandlesNone DEF SetVideoFile
    <3>2. /\ DOMAIN s = UploadFields /\ s.publishing = ui.publishing /\ s.error = ui.error
          /\ s.sent = ui.sent /\ s.status = ui.status
      BY <1>0 DEF UploadFields
    <3>. HIDE DEF s
    <3>. QED BY <2>1, <3>1, <3>2 DEF UploadState, Updated
  <2>2. CASE ui.status # "uploading"
    <3>1. Update(s)
      BY <1>1 DEF SetVideoFile
    <3>2. /\ DOMAIN s = UploadFields /\ s.publishing = ui.publishing /\ s.error = ui.error
          /\ s.sent = ui.sent /\ s.status = ui.status
      BY <1>0 DEF UploadFields
    <3>. HIDE DEF s
    <3>. QED BY <2>2, <3>1, <3>2, UploadClicks
  <2>. QED BY <2>1, <2>2
<1>2. CASE UploadMore
  <2>. DEFINE s == [ui EXCEPT !.status = "idle", !.file = FALSE, !.submissions = {}]
  <2>1. Update(s) /\ ui.status # "uploading"
    BY <1>2 DEF UploadMore
  <2>2. /\ DOMAIN s = UploadFields /\ s.publishing = ui.publishing /\ s.error = ui.error
        /\ s.sent = ui.sent /\ s.status = "idle"
    BY <1>0 DEF UploadFields
  <2>. HIDE DEF s
  <2>. QED BY <2>1, <2>2, UploadClicks
<1>3. ASSUME NEW o \in Spaces, SetSubmission(o) PROVE UploadState'
  <2>. DEFINE s == [ui EXCEPT !.submissions = SymDiff(@, {o})]
  <2>1. Update(s) /\ net = << >>
    BY <1>3 DEF SetSubmission
  <2>2. ui.status # "uploading"
    BY <2>1 DEF UploadState
  <2>3. /\ DOMAIN s = UploadFields /\ s.publishing = ui.publishing /\ s.error = ui.error
        /\ s.sent = ui.sent /\ s.status = ui.status
    BY <1>0 DEF UploadFields
  <2>. HIDE DEF s
  <2>. QED BY <2>1, <2>2, <2>3, UploadClicks
<1>4. CASE HandleVideoUpload
  <2>. DEFINE s == [ui EXCEPT !.publishing = TRUE, !.error = FALSE, !.status = "uploading", !.sent = ui.submissions]
              c == Fetch("upload", ui.submissions)
  <2>1. Handle(s, <<c>>) /\ ~ui.publishing
    BY <1>4 DEF HandleVideoUpload
  <2>2. /\ DOMAIN s = UploadFields /\ s.publishing /\ s.publishing \in BOOLEAN /\ s.error \in BOOLEAN
        /\ s.status = "uploading" /\ s.sent = ui.submissions
    BY <1>0 DEF UploadFields
  <2>3. IsCall(c) /\ c.op = "upload" /\ c.arg = ui.submissions /\ c.ans = Pending
    BY NewCalls
  <2>. HIDE DEF s, c
  <2>4. Started(UploadOps, s, c)
    BY <2>1, <2>3, HandlesOne DEF UploadOps
  <2>5. Len(net) = 0
    BY <2>1 DEF UploadState
  <2>6. Queue(UploadOps)' /\ Len(net') = 1 /\ net'[1] = c /\ ui' = s /\ srv' = srv
    BY <2>4, <2>5 DEF Started
  <2>7. UploadCall(c, s.sent, srv)
    BY <2>2, <2>3 DEF UploadCall
  <2>. QED BY <2>2, <2>6, <2>7 DEF UploadState
<1>5. ASSUME NEW i \in 1..Len(net), VideoPublished(i) PROVE UploadState'
  <2>0. Len(net) = 1 /\ i = 1 /\ UploadCall(net[i], ui.sent, srv)
    BY UploadCallIs
  <2>1. CASE net[i].op = "upload"
    <3>. DEFINE s == [srv EXCEPT !.videos = @ + 1, !.in = {}]
    <3>1. Reply(i, TRUE, s)
      BY <1>5, <2>1 DEF VideoPublished, Asked
    <3>2. DOMAIN s = {"open", "videos", "in"} /\ s.videos \in Nat /\ s.videos > 0 /\ s.in = {}
      BY DEF UploadState
    <3>. HIDE DEF s
    <3>3. net[i].arg = ui.sent
      BY <2>0, <2>1 DEF UploadCall
    <3>4. ASSUME NEW c, c.op = net[i].op, c.arg = net[i].arg PROVE UploadCall(c, ui.sent, s)
      BY <2>1, <3>2, <3>3, <3>4 DEF UploadCall
    <3>. QED BY <3>1, <3>2, <3>4, UploadReplies
  <2>2. CASE net[i].op = "publish"
    <3>. DEFINE wanted == net[i].arg.spaces
                v == wanted \subseteq srv.open
                s == IF v THEN [srv EXCEPT !.in = @ \cup wanted] ELSE srv
    <3>1. Reply(i, v, s)
      BY <1>5, <2>2 DEF VideoPublished, Asked
    <3>2. wanted = ui.sent /\ srv.videos > 0 /\ srv.in \in {{}, ui.sent}
      BY <2>0, <2>2 DEF UploadCall
    <3>3. /\ DOMAIN s = {"open", "videos", "in"} /\ s.videos = srv.videos /\ s.open = srv.open
          /\ s.in = IF v THEN srv.in \cup wanted ELSE srv.in
      BY DEF UploadState
    <3>. HIDE DEF s
    <3>4. s.in \in {{}, ui.sent} /\ (v => s.in = ui.sent) /\ (v <=> ui.sent \subseteq s.open) /\ v \in BOOLEAN
      BY <3>2, <3>3
    <3>. HIDE DEF v
    <3>5. ASSUME NEW c, c.op = net[i].op, c.arg = net[i].arg, c.ans.code = "ok" => c.ans = Ok(v)
          PROVE  UploadCall(c, ui.sent, s)
      <4>1. c.ans.code = "ok" => c.ans.data = v
        BY <3>5 DEF Ok
      <4>2. c.op = "publish" /\ c.arg.spaces = ui.sent
        BY <2>2, <3>2, <3>5
      <4>. QED BY <4>1, <4>2, <3>2, <3>3, <3>4 DEF UploadCall
    <3>6. s.videos \in Nat
      BY <3>3 DEF UploadState
    <3>. QED BY <3>1, <3>3, <3>5, <3>6, UploadReplies
  <2>. QED BY <2>1, <2>2 DEF Queue, Calls, UploadOps
<1>6. ASSUME NEW i \in 1..Len(net), VideoUploadDone(i) PROVE UploadState'
  <2>0. /\ Len(net) = 1 /\ i = 1 /\ UploadCall(net[i], ui.sent, srv) /\ net[i].ans # Pending
        /\ ui.publishing
    BY <1>6, UploadCallIs DEF VideoUploadDone, Answered
  <2>1. \A ok \in BOOLEAN :
          LET s == UploadEnds(ui, ok) IN
          /\ DOMAIN s = UploadFields /\ s.publishing = FALSE /\ s.error \in BOOLEAN /\ (s.error <=> ~ok)
          /\ s.sent = ui.sent /\ s.status = "success"
    BY <1>0 DEF UploadEnds, UploadFields
  <2>2. CASE net[i].op = "upload" /\ ~IsOk(i)
    <3>. DEFINE s == [ui EXCEPT !.publishing = FALSE, !.status = "error", !.error = TRUE]
    <3>1. Settle(i, s, << >>)
      BY <1>6, <2>2 DEF VideoUploadDone, Answered
    <3>2. /\ DOMAIN s = UploadFields /\ s.publishing = FALSE /\ s.error \in BOOLEAN /\ s.sent = ui.sent
          /\ s.status = "error"
      BY <1>0 DEF UploadFields
    <3>. HIDE DEF s
    <3>. QED BY <2>0, <3>1, <3>2, UploadsEnd
  <2>3. CASE net[i].op = "upload" /\ IsOk(i)
    <3>1. net[i].arg = ui.sent /\ srv.videos > 0 /\ srv.in = {}
      BY <2>0, <2>3 DEF UploadCall, IsOk
    <3>2. CASE net[i].arg = {}
      <4>. DEFINE s == UploadEnds(ui, TRUE)
      <4>1. Settle(i, s, << >>)
        BY <1>6, <2>3, <3>2 DEF VideoUploadDone, Answered
      <4>2. /\ DOMAIN s = UploadFields /\ s.publishing = FALSE /\ s.error \in BOOLEAN /\ ~s.error
            /\ s.sent = ui.sent /\ s.status = "success"
        BY <2>1
      <4>. HIDE DEF s
      <4>3. UploadEnded(s, srv) /\ s.sent \subseteq srv.open
        BY <4>2, <3>1, <3>2 DEF UploadEnded
      <4>. QED BY <2>0, <4>1, <4>2, <4>3, UploadsEnd
    <3>3. CASE net[i].arg # {}
      <4>1. Settle(i, ui, <<Publish(net[i].arg, 1)>>)
        BY <1>6, <2>3, <3>3 DEF VideoUploadDone, Answered
      <4>. QED BY <2>0, <3>1, <4>1, UploadsGoOn
    <3>. QED BY <3>2, <3>3
  <2>4. CASE net[i].op = "publish"
    <3>. DEFINE a == net[i].arg
    <3>1. /\ a.spaces = ui.sent /\ srv.videos > 0 /\ srv.in \in {{}, ui.sent}
          /\ IsOk(i) => /\ Data(i) \in BOOLEAN /\ (Data(i) <=> ui.sent \subseteq srv.open)
                        /\ ui.sent \subseteq srv.open => srv.in = ui.sent
      BY <2>0, <2>4 DEF UploadCall, IsOk, Data
    <3>2. \/ IsOk(i) /\ Data(i) /\ Settle(i, UploadEnds(ui, TRUE), << >>)
          \/ Settle(i, ui, <<Publish(a.spaces, a.retry + 1)>>)
          \/ ~(IsOk(i) /\ Data(i)) /\ Settle(i, UploadEnds(ui, FALSE), << >>)
      BY <1>6, <2>4 DEF VideoUploadDone, Answered
    <3>3. CASE IsOk(i) /\ Data(i) /\ Settle(i, UploadEnds(ui, TRUE), << >>)
      <4>. DEFINE s == UploadEnds(ui, TRUE)
      <4>1. Settle(i, s, << >>)
        BY <3>3
      <4>2. /\ DOMAIN s = UploadFields /\ s.publishing = FALSE /\ s.error \in BOOLEAN /\ ~s.error
            /\ s.sent = ui.sent /\ s.status = "success"
        BY <2>1
      <4>. HIDE DEF s
      <4>3. UploadEnded(s, srv) /\ s.sent \subseteq srv.open
        BY <4>2, <3>1, <3>3 DEF UploadEnded
      <4>. QED BY <2>0, <4>1, <4>2, <4>3, UploadsEnd
    <3>4. CASE Settle(i, ui, <<Publish(a.spaces, a.retry + 1)>>)
      BY <2>0, <3>1, <3>4, UploadsGoOn
    <3>5. CASE ~(IsOk(i) /\ Data(i)) /\ Settle(i, UploadEnds(ui, FALSE), << >>)
      <4>. DEFINE s == UploadEnds(ui, FALSE)
      <4>1. Settle(i, s, << >>)
        BY <3>5
      <4>2. /\ DOMAIN s = UploadFields /\ s.publishing = FALSE /\ s.error \in BOOLEAN /\ s.error
            /\ s.sent = ui.sent /\ s.status = "success"
        BY <2>1
      <4>. HIDE DEF s
      <4>3. UploadEnded(s, srv) /\ (IsOk(i) => ~(s.sent \subseteq srv.open))
        BY <4>2, <3>1, <3>5 DEF UploadEnded
      <4>. QED BY <2>0, <4>1, <4>2, <4>3, UploadsEnd
    <3>. QED BY <3>2, <3>3, <3>4, <3>5
  <2>. QED BY <2>2, <2>3, <2>4 DEF Queue, Calls, UploadOps
<1>7. ASSUME NEW i \in 1..Len(net), Deny(i) PROVE UploadState'
  <2>1. Denied(UploadOps, i)
    BY <1>7, Denies
  <2>2. Len(net) = 1 /\ i = 1 /\ UploadCall(net[1], ui.sent, srv) /\ ui.publishing /\ ui.status = "uploading"
    BY UploadCallIs
  <2>3. UploadCall(net'[1], ui.sent, srv)
    BY <2>1, <2>2 DEF UploadCall, Denied
  <2>. QED BY <2>1, <2>2, <2>3 DEF UploadState, Denied
<1>. QED BY <1>1, <1>2, <1>3, <1>4, <1>5, <1>6, <1>7, UploadActions DEF UploadState

\* A video that is said to be uploaded is stored and is in the spaces chosen for
\* it (WebEditor.UploadIsPublished), through every retry of the publication.
THEOREM UploadEndsPublished == Spec => []UploadIsPublished
<1>. DEFINE Inv == page = "upload" => UploadState
<1>1. Init => Inv
  BY Mounts, UploadStarts
<1>2. Inv /\ [Next]_vars => Inv'
  <2>1. CASE Next
    BY <2>1, PageStays, UploadSteps
  <2>2. CASE UNCHANGED vars
    BY <2>2 DEF vars, UploadState, Queue, Calls, InOrder
  <2>. QED BY <2>1, <2>2
<1>3. Inv => UploadIsPublished
  <2>. SUFFICES ASSUME UploadState, ui.status = "success"
                PROVE  /\ srv.videos > 0
                       /\ ~ui.error => srv.in = ui.sent
                       /\ ~mishap => ui.error = ~(ui.sent \subseteq srv.open)
    BY DEF UploadIsPublished
  <2>. QED BY DEF UploadState, UploadEnded
<1>. QED BY <1>1, <1>2, <1>3, PTL DEF Spec
------------------------------------------------------------------------------
(***************************************************************************)
(* The owner's edit dialog.                                                *)
(***************************************************************************)
EditOps    == {"uploadIcon", "saveSpace"}
EditFields == {"space", "form", "open", "saving", "uploading"}

\* A page that shows s is right about v.
ShowsSpace(s, v) == s.icon = v.icon /\ (s.title # Blank => s.title = v.title)

IsSpaceSave(c) == c.op = "saveSpace"

\* One save at a time; once it is answered it decides.
EditState ==
  /\ Queue(EditOps)
  /\ DOMAIN ui = EditFields /\ ui.saving \in BOOLEAN
  /\ \A j, k \in 1..Len(net) : IsSpaceSave(net[j]) /\ IsSpaceSave(net[k]) => j = k
  /\ ~ui.saving => \A k \in 1..Len(net) : ~IsSpaceSave(net[k])
  /\ ~mishap =>
       /\ \A k \in 1..Len(net) : IsSpaceSave(net[k]) /\ net[k].ans # Pending => ShowsSpace(net[k].arg, srv)
       /\ (\A k \in 1..Len(net) : IsSpaceSave(net[k]) => net[k].ans = Pending) => ShowsSpace(ui.space, srv)

\* The page is mounted in a state of it.
LEMMA EditStarts ==
  ASSUME EditInit PROVE EditState
<1>1. Queue(EditOps) /\ Len(net) = 0
  BY NoCall DEF EditInit
<1>2. DOMAIN ui = EditFields /\ ui.saving \in BOOLEAN /\ ui.space = srv
  BY DEF EditInit, EditFields
<1>3. ShowsSpace(ui.space, srv)
  BY <1>2 DEF ShowsSpace
<1>. QED BY <1>1, <1>2, <1>3 DEF EditState

\* What can happen on this page.
LEMMA EditActions ==
  ASSUME page = "spaceEdit", Queue(EditOps), Next
  PROVE  \/ OpenEdit \/ EditField \/ CloseEdit \/ HandleSaveSpaceEdit
         \/ \E f \in Icons \ {NoIcon} : HandleUploadIcon(f)
         \/ \E i \in 1..Len(net) : \/ UploadServed(i) \/ SaveSpaceServed(i) \/ Deny(i)
                                   \/ UploadDone(i) \/ SaveSpaceDone(i)
<1>1. page \in SpacePages /\ Queue(SpaceOps)
  BY QueueOf DEF SpacePages, EditOps, SpaceOps
<1>2. CASE SpaceUser
  BY <1>2 DEF SpaceUser, SetPostKey, HandleToggle, SpaceShown, HandleJoinSpace, HandleSubscribe
<1>3. ASSUME NEW i \in 1..Len(net), SpaceService(i) \/ SpaceThen(i)
      PROVE  UploadServed(i) \/ SaveSpaceServed(i) \/ UploadDone(i) \/ SaveSpaceDone(i)
  <2>1. net[i].op \in EditOps
    BY DEF Queue, Calls
  <2>. QED BY <1>3, <2>1 DEF EditOps, SpaceService, PostsServed, PostActServed, PostOps, SpaceServed,
         ToggleServed, JoinSpaceServed, GetSubServed, SubscribeServed, Asked, SpaceThen, PostsFetched,
         PostActDone, SpaceFetched, ToggleDone, JoinSpaceDone, GetSubDone, SubscribeDone, Answered
<1>. QED BY <1>1, <1>2, <1>3, SpaceNext

\* What does not touch the space shown or a save.
LEMMA EditUpdates ==
  ASSUME EditState, NEW s, Update(s), DOMAIN s = EditFields, s.saving = ui.saving, s.space = ui.space
  PROVE  EditState'
<1>1. Updated(EditOps, s)
  BY HandlesNone DEF EditState
<1>. QED BY <1>1 DEF EditState, Updated

\* Every step of the page keeps it.
LEMMA EditSteps ==
  ASSUME page = "spaceEdit", EditState, Next PROVE EditState'
<1>. Queue(EditOps) /\ Len(net) \in Nat
  BY DEF EditState, Queue, Calls
<1>0. DOMAIN ui = EditFields
  BY DEF EditState
<1>1. CASE OpenEdit
  <2>. DEFINE s == [ui EXCEPT !.form = ui.space, !.open = TRUE]
  <2>1. Update(s)
    BY <1>1 DEF OpenEdit
  <2>2. DOMAIN s = EditFields /\ s.saving = ui.saving /\ s.space = ui.space
    BY <1>0 DEF EditFields
  <2>. HIDE DEF s
  <2>. QED BY <2>1, <2>2, EditUpdates
<1>2. CASE EditField
  <2>1. PICK s : Update(s) /\ DOMAIN s = EditFields /\ s.saving = ui.saving /\ s.space = ui.space
    <3>1. CASE \E t \in Titles \ {ui.form.title} : Update([ui EXCEPT !.form.title = t])
      <4>1. PICK t : Update([ui EXCEPT !.form.title = t])
        BY <3>1
      <4>. DEFINE s == [ui EXCEPT !.form.title = t]
      <4>2. DOMAIN s = EditFields /\ s.saving = ui.saving /\ s.space = ui.space
        BY <1>0 DEF EditFields
      <4>. QED BY <4>1, <4>2
    <3>2. CASE Update([ui EXCEPT !.form.icon = NoIcon])
      <4>. DEFINE s == [ui EXCEPT !.form.icon = NoIcon]
      <4>1. DOMAIN s = EditFields /\ s.saving = ui.saving /\ s.space = ui.space
        BY <1>0 DEF EditFields
      <4>. QED BY <3>2, <4>1
    <3>. QED BY <1>2, <3>1, <3>2 DEF EditField
  <2>. QED BY <2>1, EditUpdates
<1>3. CASE CloseEdit
  <2>. DEFINE s == [ui EXCEPT !.open = FALSE]
  <2>1. Update(s)
    BY <1>3 DEF CloseEdit
  <2>2. DOMAIN s = EditFields /\ s.saving = ui.saving /\ s.space = ui.space
    BY <1>0 DEF EditFields
  <2>. HIDE DEF s
  <2>. QED BY <2>1, <2>2, EditUpdates
<1>4. CASE HandleSaveSpaceEdit
  <2>. DEFINE s == [ui EXCEPT !.saving = TRUE]
              c == Request("saveSpace", ui.form)
  <2>1. Handle(s, <<c>>) /\ ~ui.saving
    BY <1>4 DEF HandleSaveSpaceEdit
  <2>2. DOMAIN s = EditFields /\ s.saving /\ s.saving \in BOOLEAN /\ s.space = ui.space
    BY <1>0 DEF EditFields
  <2>3. IsCall(c) /\ c.op = "saveSpace" /\ c.ans = Pending
    BY NewCalls
  <2>. HIDE DEF s, c
  <2>4. Started(EditOps, s, c)
    BY <2>1, <2>3, HandlesOne DEF EditOps
  <2>5. \A k \in 1..Len(net) : ~IsSpaceSave(net[k])
    BY <2>1 DEF EditState
  <2>6. \A k \in 1..Len(net') : IsSpaceSave(net'[k]) => k = Len(net')
    BY <2>4, <2>5 DEF Started
  <2>7. net'[Len(net')].ans = Pending
    BY <2>3, <2>4 DEF Started
  <2>8. ~mishap' => ShowsSpace(ui'.space, srv')
    BY <2>2, <2>4, <2>5 DEF EditState, Started
  <2>9. Queue(EditOps)' /\ ui' = s
    BY <2>4 DEF Started
  <2>. QED BY <2>2, <2>6, <2>7, <2>8, <2>9 DEF EditState
<1>5. ASSUME NEW f, HandleUploadIcon(f) PROVE EditState'
  <2>. DEFINE s == [ui EXCEPT !.uploading = TRUE]
              c == Request("uploadIcon", f)
  <2>1. Handle(s, <<c>>)
    BY <1>5 DEF HandleUploadIcon
  <2>2. DOMAIN s = EditFields /\ s.saving = ui.saving /\ s.space = ui.space
    BY <1>0 DEF EditFields
  <2>3. IsCall(c) /\ c.op = "uploadIcon" /\ c.ans = Pending /\ ~IsSpaceSave(c)
    BY NewCalls DEF IsSpaceSave
  <2>. HIDE DEF s, c
  <2>4. Started(EditOps, s, c)
    BY <2>1, <2>3, HandlesOne DEF EditOps
  <2>5. \A k \in 1..Len(net') : IsSpaceSave(net'[k]) => k \in 1..Len(net) /\ net'[k] = net[k]
    BY <2>3, <2>4 DEF Started
  <2>6. \A k \in 1..Len(net) : k \in 1..Len(net') /\ net'[k] = net[k]
    BY <2>4 DEF Started
  <2>. QED BY <2>2, <2>4, <2>5, <2>6 DEF EditState, Started
<1>6. ASSUME NEW i \in 1..Len(net), UploadServed(i) PROVE EditState'
  <2>1. Reply(i, net[i].arg, srv) /\ net[i].op = "uploadIcon"
    BY <1>6 DEF UploadServed, Asked
  <2>2. Replied(EditOps, i, net[i].arg, srv)
    BY <2>1, Replies
  <2>3. \A k \in 1..Len(net) : IsSpaceSave(net'[k]) \/ IsSpaceSave(net[k]) => net'[k] = net[k]
    BY <2>1, <2>2 DEF Replied, IsSpaceSave
  <2>. QED BY <2>2, <2>3 DEF EditState, Replied
<1>7. ASSUME NEW i \in 1..Len(net), SaveSpaceServed(i) PROVE EditState'
  <2>. DEFINE f == net[i].arg
              s == [title |-> IF f.title = Blank THEN srv.title ELSE f.title, icon |-> f.icon]
  <2>1. Reply(i, TRUE, s) /\ net[i].op = "saveSpace"
    BY <1>7 DEF SaveSpaceServed, Asked
  <2>2. ShowsSpace(f, s)
    BY DEF ShowsSpace
  <2>. HIDE DEF s
  <2>3. Replied(EditOps, i, TRUE, s)
    BY <2>1, Replies
  <2>4. \A k \in 1..Len(net) : IsSpaceSave(net'[k]) <=> IsSpaceSave(net[k])
    BY <2>1, <2>3 DEF Replied, IsSpaceSave
  <2>5. IsSpaceSave(net[i]) /\ net'[i].ans # Pending /\ net'[i].arg = f
    BY <2>1, <2>3 DEF Replied, IsSpaceSave
  <2>6. \A k \in 1..Len(net) : IsSpaceSave(net[k]) => k = i
    BY <2>5 DEF EditState
  <2>. QED BY <2>2, <2>3, <2>4, <2>5, <2>6 DEF EditState, Replied
<1>8. ASSUME NEW i \in 1..Len(net), UploadDone(i) PROVE EditState'
  <2>. DEFINE s == [ui EXCEPT !.uploading = FALSE, !.form.icon = IF IsOk(i) THEN Data(i) ELSE @]
  <2>1. Settle(i, s, << >>) /\ net[i].op = "uploadIcon" /\ net[i].ans # Pending
    BY <1>8 DEF UploadDone, Answered
  <2>2. DOMAIN s = EditFields /\ s.saving = ui.saving /\ s.space = ui.space
    BY <1>0 DEF EditFields
  <2>. HIDE DEF s
  <2>3. Settled(EditOps, i, s)
    BY <2>1, SettlesNone
  <2>4. \A k \in 1..Len(net') : \E j \in 1..Len(net) : net'[k] = net[j] /\ j = IF k < i THEN k ELSE k + 1
    BY <2>3 DEF Settled
  <2>5. ASSUME NEW j \in 1..Len(net), IsSpaceSave(net[j]) PROVE \E k \in 1..Len(net') : net'[k] = net[j]
    <3>1. j # i
      BY <2>1, <2>5 DEF IsSpaceSave
    <3>2. CASE j < i
      <4>1. j \in 1..(Len(net) - 1) /\ net'[j] = net[j]
        BY <3>2, <2>3 DEF Settled
      <4>. QED BY <4>1, <2>3 DEF Settled
    <3>3. CASE j > i
      <4>1. j - 1 \in 1..(Len(net) - 1) /\ net'[j - 1] = net[j]
        BY <3>3, <2>3 DEF Settled
      <4>. QED BY <4>1, <2>3 DEF Settled
    <3>. QED BY <3>1, <3>2, <3>3
  <2>6. \A j, k \in 1..Len(net') : IsSpaceSave(net'[j]) /\ IsSpaceSave(net'[k]) => j = k
    BY <2>4 DEF EditState
  <2>7. ~ui.saving => \A k \in 1..Len(net') : ~IsSpaceSave(net'[k])
    BY <2>4 DEF EditState
  <2>8. Queue(EditOps)' /\ ui' = s /\ srv' = srv /\ (mishap => mishap')
    BY <2>3 DEF Settled
  <2>9. ASSUME ~mishap'
        PROVE  /\ \A k \in 1..Len(net') : IsSpaceSave(net'[k]) /\ net'[k].ans # Pending => ShowsSpace(net'[k].arg, srv)
               /\ (\A k \in 1..Len(net') : IsSpaceSave(net'[k]) => net'[k].ans = Pending) => ShowsSpace(ui.space, srv)
    BY <2>4, <2>5, <2>8, <2>9 DEF EditState
  <2>. QED BY <2>2, <2>6, <2>7, <2>8, <2>9 DEF EditState
<1>9. ASSUME NEW i \in 1..Len(net), SaveSpaceDone(i) PROVE EditState'
  <2>. DEFINE s == IF IsOk(i) THEN [ui EXCEPT !.saving = FALSE, !.space = net[i].arg, !.open = FALSE]
                   ELSE [ui EXCEPT !.saving = FALSE]
  <2>1. Settle(i, s, << >>) /\ net[i].op = "saveSpace" /\ net[i].ans # Pending
    BY <1>9 DEF SaveSpaceDone, Answered
  <2>2. DOMAIN s = EditFields /\ ~s.saving /\ s.saving \in BOOLEAN /\ (IsOk(i) => s.space = net[i].arg)
    BY <1>0 DEF EditFields
  <2>. HIDE DEF s
  <2>3. Settled(EditOps, i, s)
    BY <2>1, SettlesNone
  <2>4. \A k \in 1..Len(net) : IsSpaceSave(net[k]) => k = i
    BY <2>1 DEF EditState, IsSpaceSave
  <2>5. \A k \in 1..Len(net') : ~IsSpaceSave(net'[k])
    BY <2>3, <2>4 DEF Settled
  <2>6. Queue(EditOps)' /\ ui' = s /\ srv' = srv
    BY <2>3 DEF Settled
  <2>7. ASSUME ~mishap' PROVE ShowsSpace(s.space, srv)
    <3>1. IsOk(i) /\ ~mishap
      BY <2>3, <2>7 DEF Settled
    <3>2. ShowsSpace(net[i].arg, srv)
      BY <2>1, <3>1 DEF EditState, IsSpaceSave
    <3>. QED BY <2>2, <3>1, <3>2
  <2>. QED BY <2>2, <2>5, <2>6, <2>7 DEF EditState
<1>10. ASSUME NEW i \in 1..Len(net), Deny(i) PROVE EditState'
  <2>1. Denied(EditOps, i)
    BY <1>10, Denies
  <2>2. \A k \in 1..Len(net) : IsSpaceSave(net'[k]) <=> IsSpaceSave(net[k])
    BY <2>1 DEF Denied, IsSpaceSave
  <2>. QED BY <2>1, <2>2 DEF EditState, Denied
<1>. QED BY <1>1, <1>2, <1>3, <1>4, <1>5, <1>6, <1>7, <1>8, <1>9, <1>10, EditActions DEF EditState

\* The edit dialog of a space leaves the page with what the service holds
\* (WebSpace.EditIsCurrent): a save carries the form as it was when pressed, and
\* only one is pending.
THEOREM EditShowsSaved == Spec => []EditIsCurrent
<1>. DEFINE Inv == page = "spaceEdit" => EditState
<1>1. Init => Inv
  BY Mounts, EditStarts
<1>2. Inv /\ [Next]_vars => Inv'
  <2>1. CASE Next
    BY <2>1, PageStays, EditSteps
  <2>2. CASE UNCHANGED vars
    BY <2>2 DEF vars, EditState, Queue, Calls, InOrder
  <2>. QED BY <2>1, <2>2
<1>3. Inv => EditIsCurrent
  <2>. SUFFICES ASSUME EditState, Quiet, ~mishap
                PROVE  ui.space.icon = srv.icon /\ (ui.space.title # Blank => ui.space.title = srv.title)
    BY DEF EditIsCurrent
  <2>1. Len(net) = 0
    BY QuietIsEmpty DEF EditState
  <2>. QED BY <2>1 DEF EditState, ShowsSpace
<1>. QED BY <1>1, <1>2, <1>3, PTL DEF Spec
------------------------------------------------------------------------------
(***************************************************************************)
(* The profile page.                                                       *)
(***************************************************************************)
ProfileOps    == {"profile", "profileFollowers", "profileFollowing", "follow"}
ProfileFields == {"loading", "user", "isFollowing", "followers", "busy", "pressed"}

\* What the page of state u shows is right: the only call c was to follow, and
\* it is not handled yet.
FollowCall(c, u, s) ==
  /\ c.op = "follow"
  /\ c.ans = Pending => u.followers = FollowersHeld(s)
  /\ c.ans # Pending => c.ans = Ok(s) /\ u.followers = FollowersHeld(~s)

\* The page is still loading.
LoadCall(c, u, s) ==
  /\ c.op = "profileFollowers" /\ c.ans # Pending => c.ans = Ok(FollowersHeld(s))
  /\ c.op = "profileFollowing" => u.followers = FollowersHeld(s)

\* One call at a time.
ProfileState ==
  /\ Queue(ProfileOps)
  /\ DOMAIN ui = ProfileFields /\ ui.loading \in BOOLEAN /\ ui.busy \in BOOLEAN /\ ui.pressed \in BOOLEAN
  /\ srv \in BOOLEAN
  /\ ui.loading => Len(net) = 1 /\ ~ui.pressed /\ ~ui.busy /\ net[1].op # "follow"
  /\ ui.busy => Len(net) = 1 /\ net[1].op = "follow"
  /\ ~ui.loading /\ ~ui.busy => Len(net) = 0
  /\ ~mishap =>
       /\ ui.loading => LoadCall(net[1], ui, srv)
       /\ ui.busy => FollowCall(net[1], ui, srv)
       /\ ~ui.loading /\ ~ui.busy =>
            ui.followers = FollowersHeld(srv) /\ (ui.pressed => ui.isFollowing = srv)

\* The page is mounted in a state of it.
LEMMA ProfileStarts ==
  ASSUME ProfileInit PROVE ProfileState
<1>. DEFINE c == Request("profile", 0)
<1>1. IsCall(c) /\ c.op \in ProfileOps /\ c.ans = Pending /\ c.op = "profile"
  BY NewCalls DEF ProfileOps
<1>2. net = <<c>> /\ mishap = FALSE
  BY DEF ProfileInit
<1>. HIDE DEF c
<1>3. Queue(ProfileOps) /\ Len(net) = 1 /\ net[1] = c
  BY <1>1, <1>2, FirstCall
<1>4. /\ DOMAIN ui = ProfileFields /\ ui.loading /\ ~ui.busy /\ ~ui.pressed
      /\ ui.loading \in BOOLEAN /\ ui.busy \in BOOLEAN /\ ui.pressed \in BOOLEAN /\ srv \in BOOLEAN
  BY DEF ProfileInit, ProfileFields
<1>5. LoadCall(c, ui, srv)
  BY <1>1 DEF LoadCall
<1>. QED BY <1>1, <1>3, <1>4, <1>5 DEF ProfileState

\* What can happen on this page.
LEMMA ProfileActions ==
  ASSUME page = "profile", Queue(ProfileOps), Next
  PROVE  \/ HandleFollow
         \/ \E i \in 1..Len(net) : \/ ProfileServed(i) \/ FollowServed(i) \/ Deny(i)
                                   \/ ProfileLoaded(i) \/ FollowDone(i)
<1>1. page \in FeedsPages /\ Queue(FeedsOps)
  BY QueueOf DEF FeedsPages, ProfileOps, FeedsOps
<1>2. CASE FeedsUser
  BY <1>2 DEF FeedsUser, FeedTab, FeedScroll, GoToPage, SetFilter, LoadMoreCreations, ActOnCreation,
    InteractionTab, FollowToggle
<1>3. ASSUME NEW i \in 1..Len(net), FeedsService(i) \/ FeedsThen(i)
      PROVE  ProfileServed(i) \/ FollowServed(i) \/ ProfileLoaded(i) \/ FollowDone(i)
  <2>1. net[i].op \in ProfileOps
    BY DEF Queue, Calls
  <2>. QED BY <1>3, <2>1 DEF ProfileOps, FeedsService, FeedServed, CreationsServed, CreationActServed,
         InteractionsServed, FollowToggleServed, Asked, FeedsThen, FeedLoaded, CreationsLoaded,
         CreationActDone, Reloading, InteractionsLoaded, FollowToggled, Answered
<1>. QED BY <1>1, <1>2, <1>3, FeedsNext

\* The one call.
LEMMA ProfileCallIs ==
  ASSUME ProfileState, NEW i \in 1..Len(net)
  PROVE  /\ Len(net) = 1 /\ i = 1
         /\ net[i].op = "follow" => ui.busy /\ ~ui.loading /\ (~mishap => FollowCall(net[i], ui, srv))
         /\ net[i].op # "follow" => /\ ui.loading /\ ~ui.busy /\ ~ui.pressed
                                    /\ ~mishap => LoadCall(net[i], ui, srv)
<1>1. CASE ui.loading
  <2>1. Len(net) = 1 /\ ~ui.pressed /\ ~ui.busy /\ net[1].op # "follow"
    BY <1>1 DEF ProfileState
  <2>2. i = 1
    BY <2>1
  <2>. QED BY <1>1, <2>1, <2>2 DEF ProfileState
<1>2. CASE ui.busy
  <2>1. Len(net) = 1 /\ net[1].op = "follow" /\ ~ui.loading
    BY <1>2 DEF ProfileState
  <2>2. i = 1
    BY <2>1
  <2>. QED BY <1>2, <2>1, <2>2 DEF ProfileState
<1>3. CASE ~ui.loading /\ ~ui.busy
  <2>1. Len(net) = 0
    BY <1>3 DEF ProfileState
  <2>. QED BY <2>1
<1>. QED BY <1>1, <1>2, <1>3

\* The count of followers is not cut off at zero while it is not negative.
LEMMA MaxWithZero ==
  ASSUME NEW n \in Nat PROVE Max({0, n}) = n
<1>1. n \in {0, n} /\ \A y \in {0, n} : n >= y
  OBVIOUS
<1>2. \A x \in {0, n} : (\A y \in {0, n} : x >= y) => x = n
  OBVIOUS
<1>. QED BY <1>1, <1>2 DEF Max

\* The next call of the load.
LEMMA ProfileGoesOn ==
  ASSUME ProfileState, NEW i \in 1..Len(net), net[i].op # "follow", net[i].ans # Pending,
         NEW s, NEW op \in {"profileFollowers", "profileFollowing"}, Settle(i, s, <<Request(op, 0)>>),
         DOMAIN s = ProfileFields, s.loading = ui.loading, s.busy = ui.busy, s.pressed = ui.pressed,
         op = "profileFollowing" => net[i].op = "profileFollowers" /\ (IsOk(i) => s.followers = Data(i))
  PROVE  ProfileState'
<1>. DEFINE c == Request(op, 0)
<1>1. IsCall(c) /\ c.op = op /\ c.op \in ProfileOps /\ c.op # "follow" /\ c.ans = Pending
  BY NewCalls DEF ProfileOps
<1>2. Settle(i, s, <<c>>)
  OBVIOUS
<1>. HIDE DEF c
<1>3. SettledWith(ProfileOps, i, s, c)
  BY <1>1, <1>2, SettlesOne DEF ProfileState
<1>4. Len(net) = 1 /\ i = 1 /\ ui.loading /\ ~ui.busy /\ ~ui.pressed /\ (~mishap => LoadCall(net[i], ui, srv))
  BY ProfileCallIs
<1>5. Queue(ProfileOps)' /\ Len(net') = 1 /\ net'[1] = c /\ ui' = s /\ srv' = srv
  BY <1>3, <1>4 DEF SettledWith
<1>6. ASSUME ~mishap' PROVE LoadCall(c, s, srv)
  <2>1. IsOk(i) /\ LoadCall(net[i], ui, srv)
    BY <1>3, <1>4, <1>6 DEF SettledWith
  <2>2. op = "profileFollowing" => s.followers = FollowersHeld(srv)
    BY <2>1 DEF LoadCall, IsOk, Data, Ok
  <2>. QED BY <1>1, <2>2 DEF LoadCall
<1>7. s.loading /\ ~s.busy /\ ~s.pressed /\ s.loading \in BOOLEAN /\ s.busy \in BOOLEAN /\ s.pressed \in BOOLEAN
  BY <1>4 DEF ProfileState
<1>8. srv' \in BOOLEAN
  BY <1>5 DEF ProfileState
<1>. QED BY <1>1, <1>5, <1>6, <1>7, <1>8 DEF ProfileState

\* Every step of the page keeps it.
LEMMA ProfileSteps ==
  ASSUME page = "profile", ProfileState, Next PROVE ProfileState'
<1>. Queue(ProfileOps) /\ Len(net) \in Nat
  BY DEF ProfileState, Queue, Calls
<1>0. DOMAIN ui = ProfileFields
  BY DEF ProfileState
<1>1. CASE HandleFollow
  <2>. DEFINE s == [ui EXCEPT !.busy = TRUE, !.pressed = TRUE]
              c == Request("follow", 0)
  <2>1. Handle(s, <<c>>) /\ ~ui.loading /\ ~ui.busy
    BY <1>1 DEF HandleFollow
  <2>2. /\ DOMAIN s = ProfileFields /\ s.loading = ui.loading /\ s.busy /\ s.pressed
        /\ s.busy \in BOOLEAN /\ s.pressed \in BOOLEAN /\ s.followers = ui.followers
    BY <1>0 DEF ProfileFields
  <2>3. IsCall(c) /\ c.op = "follow" /\ c.ans = Pending
    BY NewCalls
  <2>. HIDE DEF s, c
  <2>4. Started(ProfileOps, s, c)
    BY <2>1, <2>3, HandlesOne DEF ProfileOps
  <2>5. Len(net) = 0
    BY <2>1 DEF ProfileState
  <2>6. /\ Queue(ProfileOps)' /\ Len(net') = 1 /\ net'[1] = c /\ ui' = s /\ srv' = srv
        /\ mishap' = mishap
    BY <2>4, <2>5 DEF Started
  <2>7. ~mishap => FollowCall(c, s, srv)
    BY <2>1, <2>2, <2>3 DEF ProfileState, FollowCall
  <2>8. ~s.loading /\ s.loading \in BOOLEAN /\ srv \in BOOLEAN
    BY <2>1, <2>2 DEF ProfileState
  <2>. QED BY <2>2, <2>3, <2>6, <2>7, <2>8 DEF ProfileState
<1>2. ASSUME NEW i \in 1..Len(net), ProfileServed(i) PROVE ProfileState'
  <2>1. Reply(i, FollowersHeld(srv), srv) /\ net[i].op \in {"profile", "profileFollowers", "profileFollowing"}
    BY <1>2 DEF ProfileServed, Asked
  <2>2. Replied(ProfileOps, i, FollowersHeld(srv), srv)
    BY <2>1, Replies
  <2>3. Len(net) = 1 /\ i = 1 /\ ui.loading /\ ~ui.busy /\ ~ui.pressed /\ (~mishap => LoadCall(net[i], ui, srv))
    BY <2>1, ProfileCallIs
  <2>4. /\ Queue(ProfileOps)' /\ Len(net') = 1 /\ ui' = ui /\ srv' = srv /\ net'[1].op = net[1].op
        /\ (mishap => mishap')
    BY <2>2, <2>3 DEF Replied
  <2>5. ~mishap' => LoadCall(net'[1], ui, srv)
    BY <2>2, <2>3, <2>4 DEF Replied, LoadCall
  <2>6. srv \in BOOLEAN /\ ui.loading \in BOOLEAN /\ ui.busy \in BOOLEAN /\ ui.pressed \in BOOLEAN
    BY DEF ProfileState
  <2>. QED BY <1>0, <2>1, <2>3, <2>4, <2>5, <2>6 DEF ProfileState
<1>3. ASSUME NEW i \in 1..Len(net), FollowServed(i) PROVE ProfileState'
  <2>1. Reply(i, ~srv, ~srv) /\ net[i].op = "follow"
    BY <1>3 DEF FollowServed, Asked
  <2>2. Replied(ProfileOps, i, ~srv, ~srv)
    BY <2>1, Replies
  <2>3. Len(net) = 1 /\ i = 1 /\ ui.busy /\ ~ui.loading /\ (~mishap => FollowCall(net[i], ui, srv))
    BY <2>1, ProfileCallIs
  <2>4. /\ Queue(ProfileOps)' /\ Len(net') = 1 /\ ui' = ui /\ srv' = ~srv /\ net'[1].op = "follow"
        /\ net'[1].ans # Pending /\ (~mishap' => net'[1].ans = Ok(~srv) /\ ~mishap) /\ net[1].ans = Pending
    BY <2>1, <2>2, <2>3 DEF Replied
  <2>5. srv \in BOOLEAN /\ ui.loading \in BOOLEAN /\ ui.busy \in BOOLEAN /\ ui.pressed \in BOOLEAN
    BY DEF ProfileState
  <2>6. ~~srv = srv
    BY <2>5
  <2>7. ASSUME ~mishap' PROVE FollowCall(net'[1], ui, ~srv)
    <3>1. ui.followers = FollowersHeld(srv)
      BY <2>3, <2>4, <2>7 DEF FollowCall
    <3>2. FollowersHeld(~~srv) = FollowersHeld(srv)
      BY DEF FollowersHeld
    <3>. QED BY <3>1, <3>2, <2>4, <2>7 DEF FollowCall
  <2>. QED BY <1>0, <2>3, <2>4, <2>5, <2>7 DEF ProfileState
<1>4. ASSUME NEW i \in 1..Len(net), ProfileLoaded(i) PROVE ProfileState'
  <2>1. CASE net[i].op = "profile"
    <3>. DEFINE s == [ui EXCEPT !.user = IsOk(i)]
    <3>1. Settle(i, s, <<Request("profileFollowers", 0)>>) /\ net[i].ans # Pending
      BY <1>4, <2>1 DEF ProfileLoaded, Answered
    <3>2. DOMAIN s = ProfileFields /\ s.loading = ui.loading /\ s.busy = ui.busy /\ s.pressed = ui.pressed
      BY <1>0 DEF ProfileFields
    <3>. HIDE DEF s
    <3>. QED BY <2>1, <3>1, <3>2, ProfileGoesOn
  <2>2. CASE net[i].op = "profileFollowers"
    <3>. DEFINE s == [ui EXCEPT !.followers = IF IsOk(i) THEN Data(i) ELSE @]
    <3>1. Settle(i, s, <<Request("profileFollowing", 0)>>) /\ net[i].ans # Pending
      BY <1>4, <2>2 DEF ProfileLoaded, Answered
    <3>2. /\ DOMAIN s = ProfileFields /\ s.loading = ui.loading /\ s.busy = ui.busy /\ s.pressed = ui.pressed
          /\ IsOk(i) => s.followers = Data(i)
      BY <1>0 DEF ProfileFields
    <3>. HIDE DEF s
    <3>. QED BY <2>2, <3>1, <3>2, ProfileGoesOn
  <2>3. CASE net[i].op = "profileFollowing"
    <3>. DEFINE s == [ui EXCEPT !.loading = FALSE]
    <3>1. Settle(i, s, << >>) /\ net[i].ans # Pending
      BY <1>4, <2>3 DEF ProfileLoaded, Answered
    <3>2. /\ DOMAIN s = ProfileFields /\ ~s.loading /\ s.loading \in BOOLEAN /\ s.busy = ui.busy
          /\ s.pressed = ui.pressed /\ s.followers = ui.followers
      BY <1>0 DEF ProfileFields
    <3>. HIDE DEF s
    <3>3. Settled(ProfileOps, i, s)
      BY <3>1, SettlesNone
    <3>4. Len(net) = 1 /\ i = 1 /\ ui.loading /\ ~ui.busy /\ ~ui.pressed /\ (~mishap => LoadCall(net[i], ui, srv))
      BY <2>3, ProfileCallIs
    <3>5. Queue(ProfileOps)' /\ Len(net') = 0 /\ ui' = s /\ srv' = srv /\ (mishap => mishap')
      BY <3>3, <3>4 DEF Settled
    <3>6. ~mishap' => s.followers = FollowersHeld(srv)
      BY <2>3, <3>2, <3>4, <3>5 DEF LoadCall
    <3>7. srv \in BOOLEAN /\ ~s.busy /\ ~s.pressed /\ s.busy \in BOOLEAN /\ s.pressed \in BOOLEAN
      BY <3>2, <3>4 DEF ProfileState
    <3>. QED BY <3>2, <3>5, <3>6, <3>7 DEF ProfileState
  <2>. QED BY <1>4, <2>1, <2>2, <2>3 DEF ProfileLoaded, Answered
<1>5. ASSUME NEW i \in 1..Len(net), FollowDone(i) PROVE ProfileState'
  <2>. DEFINE s == IF ~IsOk(i) THEN [ui EXCEPT !.busy = FALSE]
                   ELSE [ui EXCEPT !.busy = FALSE, !.isFollowing = Data(i),
                                   !.followers = IF Data(i) THEN @ + 1 ELSE Max({0, @ - 1})]
  <2>1. Settle(i, s, << >>) /\ net[i].op = "follow" /\ net[i].ans # Pending
    BY <1>5 DEF FollowDone, Answered
  <2>2. /\ DOMAIN s = ProfileFields /\ ~s.busy /\ s.busy \in BOOLEAN /\ s.loading = ui.loading
        /\ s.pressed = ui.pressed
        /\ IsOk(i) => /\ s.isFollowing = Data(i)
                      /\ s.followers = IF Data(i) THEN ui.followers + 1 ELSE Max({0, ui.followers - 1})
    BY <1>0 DEF ProfileFields
  <2>. HIDE DEF s
  <2>3. Settled(ProfileOps, i, s)
    BY <2>1, SettlesNone
  <2>4. Len(net) = 1 /\ i = 1 /\ ui.busy /\ ~ui.loading /\ (~mishap => FollowCall(net[i], ui, srv))
    BY <2>1, ProfileCallIs
  <2>5. Queue(ProfileOps)' /\ Len(net') = 0 /\ ui' = s /\ srv' = srv /\ (mishap => mishap')
    BY <2>3, <2>4 DEF Settled
  <2>6. srv \in BOOLEAN /\ ~s.loading /\ s.loading \in BOOLEAN /\ s.pressed \in BOOLEAN
    BY <2>2, <2>4 DEF ProfileState
  <2>7. ASSUME ~mishap' PROVE s.followers = FollowersHeld(srv) /\ s.isFollowing = srv
    <3>1. IsOk(i) /\ net[i].ans = Ok(srv) /\ ui.followers = FollowersHeld(~srv)
      BY <2>1, <2>3, <2>4, <2>7 DEF Settled, FollowCall
    <3>2. Data(i) = srv
      BY <3>1 DEF Data, Ok
    <3>3. s.isFollowing = srv
      BY <2>2, <3>1, <3>2
    <3>4. CASE srv = TRUE
      <4>1. ui.followers = 1 /\ FollowersHeld(srv) = 2
        BY <3>1, <3>4 DEF FollowersHeld, OtherFollowers
      <4>2. s.followers = ui.followers + 1
        BY <2>2, <3>1, <3>2, <3>4
      <4>. QED BY <4>1, <4>2, <3>3
    <3>5. CASE srv = FALSE
      <4>1. ui.followers = 2 /\ FollowersHeld(srv) = 1
        BY <3>1, <3>5 DEF FollowersHeld, OtherFollowers
      <4>2. s.followers = Max({0, ui.followers - 1})
        BY <2>2, <3>1, <3>2, <3>5
      <4>3. ui.followers - 1 = 1
        BY <4>1
      <4>. QED BY <4>1, <4>2, <4>3, <3>3, MaxWithZero
    <3>. QED BY <3>4, <3>5, <2>6
  <2>. QED BY <2>2, <2>5, <2>6, <2>7 DEF ProfileState
<1>6. ASSUME NEW i \in 1..Len(net), Deny(i) PROVE ProfileState'
  <2>1. Denied(ProfileOps, i)
    BY <1>6, Denies
  <2>. QED BY <2>1 DEF ProfileState, Denied
<1>. QED BY <1>1, <1>2, <1>3, <1>4, <1>5, <1>6, ProfileActions DEF ProfileState

\* The follow button and the number of followers are the service's
\* (WebFeeds.FollowIsCurrent): the toggle says what it led to, and the count is
\* moved by it alone.
THEOREM ProfileFollows == Spec => []FollowIsCurrent
<1>. DEFINE Inv == page = "profile" => ProfileState
<1>1. Init => Inv
  BY Mounts, ProfileStarts
<1>2. Inv /\ [Next]_vars => Inv'
  <2>1. CASE Next
    BY <2>1, PageStays, ProfileSteps
  <2>2. CASE UNCHANGED vars
    BY <2>2 DEF vars, ProfileState, Queue, Calls, InOrder
  <2>. QED BY <2>1, <2>2
<1>3. Inv => FollowIsCurrent
  <2>. SUFFICES ASSUME ProfileState, Quiet, ~mishap
                PROVE  ui.followers = FollowersHeld(srv) /\ (ui.pressed => ui.isFollowing = srv)
    BY DEF FollowIsCurrent
  <2>1. Len(net) = 0
    BY QuietIsEmpty DEF ProfileState
  <2>. QED BY <2>1 DEF ProfileState
<1>. QED BY <1>1, <1>2, <1>3, PTL DEF Spec
------------------------------------------------------------------------------
(***************************************************************************)
(* The draft of an article.                                                *)
(***************************************************************************)
ComposeOps    == {"create", "file"}
ComposeFields == {"title", "body", "mountedTitle", "full", "offer", "draft", "publishing", "left",
                  "given", "kept"}

\* At s, what was kept is in the draft, and a text on display is that one unless
\* the page put it there.
IsSaved(s) ==
  s.kept # NoText => s.draft.stored /\ s.draft.body = s.kept /\ (s.body \in {NoText, s.kept} \/ s.given)

\* The state of the editor.
Editing(s) ==
  /\ DOMAIN s = ComposeFields
  /\ s.publishing \in BOOLEAN /\ s.left \in BOOLEAN /\ s.given \in BOOLEAN
  /\ s.body \in Texts /\ s.draft.body \in Texts
  /\ s.draft.body # NoText => s.draft.stored
  /\ IsSaved(s)

\* In q is one publication while the page publishes, as p says, and none
\* otherwise; when it is answered well the article is in a.
OneCreate(q, p, a) ==
  /\ \A k \in 1..Len(q) :
       q[k].op = "create" => p /\ q[k].arg \in Texts /\ (q[k].ans.code = "ok" => a # << >>)
  /\ \A j, k \in 1..Len(q) : q[j].op = "create" /\ q[k].op = "create" => j = k
  /\ p => \E k \in 1..Len(q) : q[k].op = "create"

ComposeState ==
  /\ Queue(ComposeOps)
  /\ Editing(ui)
  /\ srv \in Seq(Texts)
  /\ OneCreate(net, ui.publishing, srv)
  /\ ui.left => srv # << >>

\* No call, no publication.
LEMMA NoCreate ==
  ASSUME NEW q, Len(q) = 0, NEW a PROVE OneCreate(q, FALSE, a)
<1>1. 1..Len(q) = {}
  OBVIOUS
<1>. QED BY <1>1 DEF OneCreate

\* A page just mounted shows no text; the storage is as it was.
LEMMA JustMounted ==
  ASSUME NEW d, d.body \in Texts, d.body # NoText => d.stored, NEW k, k # NoText => d.body = k,
         NEW s, s = Mounted(d, k)
  PROVE  Editing(s) /\ ~s.publishing /\ s.publishing = FALSE /\ ~s.left
<1>1. /\ DOMAIN s = ComposeFields /\ s.publishing = FALSE /\ s.left = FALSE /\ s.given = FALSE
      /\ s.body = NoText /\ s.kept = k /\ s.draft = d
  BY DEF Mounted, ComposeFields
<1>2. NoText \in Texts
  BY DEF Texts
<1>. QED BY <1>1, <1>2 DEF Editing, IsSaved

\* The page is mounted in a state of it.
LEMMA ComposeStarts ==
  ASSUME ComposeInit PROVE ComposeState
<1>1. Queue(ComposeOps) /\ Len(net) = 0
  BY NoCall DEF ComposeInit
<1>2. \/ ui = Mounted(NoDraft, NoText)
      \/ ui = Mounted([stored |-> TRUE, title |-> 1, body |-> 1], 1)
  BY DEF ComposeInit
<1>3. NoDraft.body = NoText /\ NoText \in Texts /\ 1 \in Texts
  BY DEF NoDraft, Texts, NoText
<1>4. Editing(ui) /\ ui.publishing = FALSE /\ ~ui.left
  <2>. DEFINE d == [stored |-> TRUE, title |-> 1, body |-> 1]
  <2>1. d.body = 1 /\ d.stored
    OBVIOUS
  <2>. HIDE DEF d
  <2>2. CASE ui = Mounted(NoDraft, NoText)
    BY <1>3, <2>2, JustMounted
  <2>3. CASE ui = Mounted(d, 1)
    BY <1>3, <2>1, <2>3, JustMounted
  <2>. QED BY <1>2, <2>2, <2>3 DEF d
<1>5. OneCreate(net, FALSE, srv)
  BY <1>1, NoCreate
<1>6. srv \in Seq(Texts)
  BY DEF ComposeInit
<1>. QED BY <1>1, <1>4, <1>5, <1>6 DEF ComposeState

\* What can happen on this page.
LEMMA ComposeActions ==
  ASSUME page = "compose", Queue(ComposeOps), Next
  PROVE  \/ \E b \in Texts : TypeText(b)
         \/ \E t \in Headers : TypeTitle(t)
         \/ EditorReports \/ SetIsFullscreen \/ RestoreDraft \/ DiscardDraft \/ HandleFile
         \/ HandleSubmitText \/ Reload
         \/ \E i \in 1..Len(net) :
              CreateServed(i) \/ FileServed(i) \/ CreateDone(i) \/ FileDone(i) \/ Deny(i)
<1>1. page \in EditorPages /\ Queue(EditorOps)
  BY QueueOf DEF EditorPages, ComposeOps, EditorOps
<1>2. CASE EditorUser
  BY <1>2 DEF EditorUser, SetVideoFile, HandleVideoUpload, UploadMore, SetSubmission
<1>3. ASSUME NEW i \in 1..Len(net), EditorService(i) \/ EditorThen(i)
      PROVE  CreateServed(i) \/ FileServed(i) \/ CreateDone(i) \/ FileDone(i)
  <2>1. net[i].op \in ComposeOps
    BY DEF Queue, Calls
  <2>. QED BY <1>3, <2>1 DEF ComposeOps, EditorService, VideoPublished, Asked, EditorThen,
         VideoUploadDone, Answered
<1>. QED BY <1>1, <1>2, <1>3, EditorNext

\* What the user does in the editor.
LEMMA ComposeClicks ==
  ASSUME ComposeState, NEW s, Update(s), Editing(s), s.publishing = ui.publishing, s.left = ui.left
  PROVE  ComposeState'
<1>1. Updated(ComposeOps, s)
  BY HandlesNone DEF ComposeState
<1>2. ui' = s /\ net' = net /\ srv' = srv
  BY <1>1 DEF Updated
<1>. QED BY <1>1, <1>2 DEF ComposeState, Updated

\* A text the editor reports is stored before anything else happens.
LEMMA EditorSaves ==
  ASSUME ComposeState, NEW b \in Texts, ComposeShown, EditorChange(b)
  PROVE  ComposeState'
<1>. DEFINE s == [ui EXCEPT !.body = b, !.given = FALSE, !.kept = b]
            t == HandleAutoSave(s, b)
<1>1. Update(t)
  BY DEF EditorChange
<1>2. /\ DOMAIN s = ComposeFields /\ s.publishing = ui.publishing /\ s.left = ui.left
      /\ s.given = FALSE /\ s.body = b /\ s.kept = b
  BY DEF ComposeState, Editing, ComposeFields
<1>. HIDE DEF s
<1>3. /\ DOMAIN t = ComposeFields /\ t.publishing = ui.publishing /\ t.left = ui.left
      /\ t.given = FALSE /\ t.body = b /\ t.kept = b /\ t.draft.body = b /\ t.draft.stored
  BY <1>2 DEF HandleAutoSave, ComposeFields
<1>. HIDE DEF t
<1>4. Editing(t)
  BY <1>3 DEF Editing, IsSaved, ComposeState
<1>. QED BY <1>1, <1>3, <1>4, ComposeClicks

\* What the page itself puts into the editor is given, or what was there.
LEMMA PutThere ==
  ASSUME NEW s, Editing(s), NEW b \in Texts, NEW t, t = SetBody(s, b)
  PROVE  /\ Editing(t) /\ t.body = b /\ (t.given \/ b = s.body) /\ t.kept = s.kept /\ t.draft = s.draft
         /\ t.publishing = s.publishing /\ t.left = s.left
<1>1. CASE b = s.body
  BY <1>1 DEF SetBody
<1>2. CASE b # s.body
  <2>1. t = [s EXCEPT !.body = b, !.given = TRUE]
    BY <1>2 DEF SetBody
  <2>2. /\ DOMAIN t = ComposeFields /\ t.publishing = s.publishing /\ t.left = s.left
        /\ t.given = TRUE /\ t.body = b /\ t.kept = s.kept /\ t.draft = s.draft
    BY <2>1 DEF Editing, ComposeFields
  <2>. QED BY <2>2 DEF Editing, IsSaved
<1>. QED BY <1>1, <1>2

\* A state that differs in none of these is one of the editor too.
LEMMA SameText ==
  ASSUME NEW s, Editing(s), NEW t, DOMAIN t = ComposeFields, t.publishing \in BOOLEAN,
         t.left = s.left, t.given = s.given, t.body = s.body, t.kept = s.kept, t.draft = s.draft
  PROVE  Editing(t)
BY DEF Editing, IsSaved

\* A call for a file goes behind the others.
LEMMA FileAsked ==
  ASSUME ComposeState, NEW c, IsCall(c), c.op = "file", c.ans = Pending,
         Handle(ui, <<c>>)
  PROVE  ComposeState'
<1>1. Started(ComposeOps, ui, c)
  BY HandlesOne DEF ComposeState, ComposeOps
<1>2. /\ Queue(ComposeOps)' /\ ui' = ui /\ srv' = srv
      /\ Len(net') = Len(net) + 1 /\ Len(net) \in Nat
      /\ \A k \in 1..Len(net) : net'[k] = net[k]
      /\ net'[Len(net) + 1].op # "create"
  BY <1>1 DEF Started
<1>3. OneCreate(net, ui.publishing, srv)
  BY DEF ComposeState
<1>4. \A k \in 1..Len(net') : net'[k].op = "create" => k \in 1..Len(net)
  BY <1>2
<1>5. OneCreate(net', ui.publishing, srv)
  BY <1>2, <1>3, <1>4 DEF OneCreate
<1>. QED BY <1>2, <1>5 DEF ComposeState

\* Publishing starts with no publication on its way.
LEMMA CreateAsked ==
  ASSUME ComposeState, HandleSubmitText
  PROVE  ComposeState'
<1>. DEFINE s == [ui EXCEPT !.publishing = TRUE]
            c == Fetch("create", ui.body)
<1>1. Handle(s, <<c>>) /\ ~ui.publishing
  BY DEF HandleSubmitText
<1>2. Editing(s) /\ s.publishing = TRUE /\ s.left = ui.left
  <2>1. Editing(ui)
    BY DEF ComposeState
  <2>2. /\ DOMAIN s = ComposeFields /\ s.publishing = TRUE /\ s.left = ui.left /\ s.given = ui.given
        /\ s.body = ui.body /\ s.kept = ui.kept /\ s.draft = ui.draft
    BY <2>1 DEF Editing, ComposeFields
  <2>. HIDE DEF s
  <2>. QED BY <2>1, <2>2, SameText
<1>3. IsCall(c) /\ c.op = "create" /\ c.arg = ui.body /\ c.ans = Pending
  BY NewCalls
<1>. HIDE DEF s, c
<1>4. Started(ComposeOps, s, c)
  BY <1>1, <1>3, HandlesOne DEF ComposeState, ComposeOps
<1>5. /\ Queue(ComposeOps)' /\ ui' = s /\ srv' = srv
      /\ Len(net') = Len(net) + 1 /\ Len(net) \in Nat
      /\ \A k \in 1..Len(net) : net'[k] = net[k]
      /\ net'[Len(net) + 1] = c
  BY <1>4 DEF Started
<1>6. \A k \in 1..Len(net) : net[k].op # "create"
  BY <1>1 DEF ComposeState, OneCreate
<1>7. \A k \in 1..Len(net') : net'[k].op = "create" => k = Len(net) + 1
  BY <1>5, <1>6
<1>8. c.arg \in Texts /\ c.ans.code # "ok"
  BY <1>3 DEF ComposeState, Editing, Pending
<1>9. Len(net) + 1 \in 1..Len(net')
  BY <1>5
<1>10. OneCreate(net', TRUE, srv)
  BY <1>3, <1>5, <1>7, <1>8, <1>9 DEF OneCreate
<1>. QED BY <1>2, <1>5, <1>10 DEF ComposeState

\* An answer to a call leaves the calls what they are, and the publications with
\* them, if an article is stored before its answer.
LEMMA CreateKept ==
  ASSUME NEW q, NEW p, NEW a, NEW b, OneCreate(q, p, a), NEW r, Len(r) = Len(q), Len(q) \in Nat,
         NEW i \in 1..Len(q), \A k \in 1..Len(q) : k # i => r[k] = q[k],
         r[i].op = q[i].op, r[i].arg = q[i].arg, a # << >> => b # << >>,
         r[i].op = "create" /\ r[i].ans.code = "ok" => b # << >>
  PROVE  OneCreate(r, p, b)
<1>1. \A k \in 1..Len(q) : r[k].op = q[k].op /\ r[k].arg = q[k].arg
  OBVIOUS
<1>2. \A k \in 1..Len(q) : r[k].op = "create" /\ r[k].ans.code = "ok" => b # << >>
  BY DEF OneCreate
<1>. QED BY <1>1, <1>2 DEF OneCreate

\* A call for a file leaves the publications what they are.
LEMMA FileLeft ==
  ASSUME NEW q, NEW p, NEW a, OneCreate(q, p, a), NEW r, Len(r) = Len(q) - 1, Len(q) \in Nat,
         NEW i \in 1..Len(q), \A k \in 1..(Len(q) - 1) : r[k] = q[IF k < i THEN k ELSE k + 1],
         q[i].op # "create"
  PROVE  OneCreate(r, p, a)
<1>. DEFINE at(k) == IF k < i THEN k ELSE k + 1
<1>1. \A k \in 1..Len(r) : at(k) \in 1..Len(q) /\ r[k] = q[at(k)]
  OBVIOUS
<1>2. \A j, k \in 1..Len(r) : at(j) = at(k) => j = k
  OBVIOUS
<1>3. \A k \in 1..Len(q) : k # i => \E j \in 1..Len(r) : at(j) = k
  <2>. SUFFICES ASSUME NEW k \in 1..Len(q), k # i PROVE \E j \in 1..Len(r) : at(j) = k
    OBVIOUS
  <2>1. CASE k < i
    <3>1. k \in 1..Len(r) /\ at(k) = k
      BY <2>1
    <3>. QED BY <3>1
  <2>2. CASE ~(k < i)
    <3>1. k - 1 \in 1..Len(r) /\ at(k - 1) = k
      BY <2>2
    <3>. QED BY <3>1
  <2>. QED BY <2>1, <2>2
<1>. HIDE DEF at
<1>4. p => \E j \in 1..Len(r) : r[j].op = "create"
  <2>. SUFFICES ASSUME p PROVE \E j \in 1..Len(r) : r[j].op = "create"
    OBVIOUS
  <2>1. PICK k \in 1..Len(q) : q[k].op = "create"
    BY DEF OneCreate
  <2>2. PICK j \in 1..Len(r) : at(j) = k
    BY <2>1, <1>3
  <2>. QED BY <2>1, <2>2, <1>1
<1>. QED BY <1>1, <1>2, <1>4 DEF OneCreate

\* The publication leaves none.
LEMMA CreateLeft ==
  ASSUME NEW q, NEW p, NEW a, NEW b, OneCreate(q, p, a), NEW r, Len(r) = Len(q) - 1, Len(q) \in Nat,
         NEW i \in 1..Len(q), \A k \in 1..(Len(q) - 1) : r[k] = q[IF k < i THEN k ELSE k + 1],
         q[i].op = "create"
  PROVE  OneCreate(r, FALSE, b)
<1>. DEFINE at(k) == IF k < i THEN k ELSE k + 1
<1>1. \A k \in 1..Len(r) : at(k) \in 1..Len(q) /\ at(k) # i /\ r[k] = q[at(k)]
  OBVIOUS
<1>. HIDE DEF at
<1>2. \A k \in 1..Len(r) : r[k].op # "create"
  BY <1>1 DEF OneCreate
<1>. QED BY <1>2 DEF OneCreate

\* A restored draft is the one in storage.
LEMMA RestoreKeeps ==
  ASSUME ComposeState, RestoreDraft
  PROVE  ComposeState'
<1>. DEFINE d == ui.draft
            s == SetBody(ui, d.body)
            r == [s EXCEPT !.kept = d.body]
            w == IF d.body = NoText THEN ui ELSE r
            t == [w EXCEPT !.offer = FALSE, !.title = IF d.title # NoText THEN d.title ELSE @]
<1>1. Update(t) /\ ~ui.left
  BY DEF RestoreDraft, ComposeShown
<1>2. Editing(ui) /\ d.body \in Texts
  BY DEF ComposeState, Editing
<1>3. Editing(w) /\ w.publishing = ui.publishing /\ w.left = ui.left
  <2>1. CASE d.body = NoText
    BY <2>1, <1>2
  <2>2. CASE d.body # NoText
    <3>1. /\ Editing(s) /\ s.body = d.body /\ s.draft = d
          /\ s.publishing = ui.publishing /\ s.left = ui.left
      <4>. HIDE DEF d
      <4>. QED BY <1>2, PutThere DEF d
    <3>. HIDE DEF s
    <3>2. /\ DOMAIN r = ComposeFields /\ r.publishing = s.publishing /\ r.left = s.left
          /\ r.given = s.given /\ r.body = s.body /\ r.kept = d.body /\ r.draft = s.draft
      BY <3>1 DEF Editing, ComposeFields
    <3>3. d.stored
      BY <1>2, <2>2 DEF Editing
    <3>. HIDE DEF r, d
    <3>4. Editing(r)
      BY <3>1, <3>2, <3>3 DEF Editing, IsSaved
    <3>5. w = r
      BY <2>2
    <3>. QED BY <3>1, <3>2, <3>4, <3>5
  <2>. QED BY <2>1, <2>2
<1>. HIDE DEF w
<1>4. /\ DOMAIN t = ComposeFields /\ t.publishing = w.publishing /\ t.left = w.left
      /\ t.given = w.given /\ t.body = w.body /\ t.kept = w.kept /\ t.draft = w.draft
  BY <1>3 DEF Editing, ComposeFields
<1>. HIDE DEF t
<1>5. t.publishing \in BOOLEAN
  BY <1>3, <1>4 DEF Editing
<1>6. Editing(t)
  BY <1>3, <1>4, <1>5, SameText
<1>. QED BY <1>1, <1>3, <1>4, <1>6, ComposeClicks

\* Reloading the tab keeps the draft; a publication on its way may be stored.
LEMMA ReloadKeeps ==
  ASSUME ComposeState, Reload
  PROVE  ComposeState'
<1>1. ui' = Mounted(ui.draft, ui.kept) /\ net' = << >>
  BY DEF Reload
<1>2. Editing(ui') /\ ui'.publishing = FALSE /\ ~ui'.left
  <2>1. /\ ui.draft.body \in Texts /\ (ui.draft.body # NoText => ui.draft.stored)
        /\ ui.kept # NoText => ui.draft.body = ui.kept
    BY DEF ComposeState, Editing, IsSaved
  <2>. QED BY <1>1, <2>1, JustMounted
<1>3. /\ Len(net') = 0 /\ net' = [k \in 1..Len(net') |-> net'[k]] /\ 1..Len(net') = {}
  BY <1>1
<1>4. mishap' \in BOOLEAN
  BY DEF Reload, Queue, ComposeState
<1>5. Queue(ComposeOps)'
  BY <1>3, <1>4 DEF Queue, Calls, InOrder
<1>6. srv' \in Seq(Texts)
  <2>1. srv \in Seq(Texts) /\ DOMAIN net = 1..Len(net)
    BY InDomain DEF ComposeState
  <2>2. \A k \in 1..Len(net) : Asked(k, {"create"}) => net[k].arg \in Texts
    BY DEF ComposeState, OneCreate, Asked
  <2>3. \A k \in 1..Len(net) : Asked(k, {"create"}) => Append(srv, net[k].arg) \in Seq(Texts)
    BY <2>1, <2>2
  <2>. QED BY <2>1, <2>3 DEF Reload
<1>7. OneCreate(net', FALSE, srv')
  BY <1>3, NoCreate
<1>. QED BY <1>2, <1>5, <1>6, <1>7 DEF ComposeState

\* A service that holds w answers.
LEMMA ComposeReplied ==
  ASSUME ComposeState, NEW i \in 1..Len(net), NEW w \in Seq(Texts), Reply(i, TRUE, w),
         srv # << >> => w # << >>, net[i].op = "create" => w # << >>
  PROVE  ComposeState'
<1>1. Replied(ComposeOps, i, TRUE, w)
  BY Replies DEF ComposeState
<1>2. /\ Queue(ComposeOps)' /\ ui' = ui /\ srv' = w /\ Len(net') = Len(net) /\ Len(net) \in Nat
      /\ \A k \in 1..Len(net) : k # i => net'[k] = net[k]
      /\ net'[i].op = net[i].op /\ net'[i].arg = net[i].arg
  BY <1>1 DEF Replied
<1>3. OneCreate(net, ui.publishing, srv)
  BY DEF ComposeState
<1>4. OneCreate(net', ui.publishing, w)
  BY <1>2, <1>3, CreateKept
<1>. QED BY <1>2, <1>4 DEF ComposeState

\* An article is stored with its answer; a file changes nothing.
LEMMA ComposeServed ==
  ASSUME ComposeState, NEW i \in 1..Len(net), CreateServed(i) \/ FileServed(i)
  PROVE  ComposeState'
<1>1. srv \in Seq(Texts) /\ OneCreate(net, ui.publishing, srv)
  BY DEF ComposeState
<1>2. CASE CreateServed(i)
  <2>. DEFINE w == Append(srv, net[i].arg)
  <2>1. Reply(i, TRUE, w) /\ net[i].op = "create"
    BY <1>2 DEF CreateServed, Asked
  <2>2. net[i].arg \in Texts
    BY <1>1, <2>1 DEF OneCreate
  <2>3. w \in Seq(Texts) /\ w # << >>
    BY <1>1, <2>2
  <2>. HIDE DEF w
  <2>. QED BY <2>1, <2>3, ComposeReplied
<1>3. CASE FileServed(i)
  <2>1. Reply(i, TRUE, srv) /\ net[i].op # "create"
    BY <1>3 DEF FileServed, Asked
  <2>. QED BY <1>1, <2>1, ComposeReplied
<1>. QED BY <1>2, <1>3

\* A call refused or lost stores nothing.
LEMMA ComposeDenied ==
  ASSUME ComposeState, NEW i \in 1..Len(net), Deny(i)
  PROVE  ComposeState'
<1>1. Denied(ComposeOps, i)
  BY Denies DEF ComposeState
<1>2. /\ Queue(ComposeOps)' /\ ui' = ui /\ srv' = srv /\ Len(net') = Len(net) /\ Len(net) \in Nat
      /\ \A k \in 1..Len(net) : k # i => net'[k] = net[k]
      /\ net'[i].op = net[i].op /\ net'[i].arg = net[i].arg /\ net'[i].ans.code # "ok"
  BY <1>1 DEF Denied
<1>3. OneCreate(net, ui.publishing, srv)
  BY DEF ComposeState
<1>4. OneCreate(net', ui.publishing, srv)
  BY <1>2, <1>3, CreateKept
<1>. QED BY <1>2, <1>4 DEF ComposeState

\* The page is left when the article is stored, and goes on when it is not.
LEMMA ComposeEnds ==
  ASSUME ComposeState, NEW i \in 1..Len(net), CreateDone(i)
  PROVE  ComposeState'
<1>. DEFINE s == IF IsOk(i) THEN [ui EXCEPT !.publishing = FALSE, !.draft = NoDraft, !.left = TRUE,
                                      !.kept = NoText]
                 ELSE [ui EXCEPT !.publishing = FALSE]
<1>1. Settle(i, s, << >>) /\ net[i].ans # Pending /\ net[i].op = "create"
  BY DEF CreateDone, Answered
<1>2. Editing(ui) /\ OneCreate(net, ui.publishing, srv)
  BY DEF ComposeState
<1>3. Editing(s) /\ s.publishing = FALSE /\ s.left \in {ui.left, IsOk(i)}
  <2>1. CASE IsOk(i)
    <3>1. /\ DOMAIN s = ComposeFields /\ s.publishing = FALSE /\ s.left = TRUE /\ s.given = ui.given
          /\ s.body = ui.body /\ s.draft = NoDraft /\ s.kept = NoText
      BY <1>2, <2>1 DEF Editing, ComposeFields
    <3>2. NoDraft.body \in Texts /\ NoDraft.body = NoText
      BY DEF NoDraft, Texts
    <3>. HIDE DEF s
    <3>3. Editing(s)
      BY <1>2, <3>1, <3>2 DEF Editing, IsSaved
    <3>. QED BY <2>1, <3>1, <3>3
  <2>2. CASE ~IsOk(i)
    <3>1. /\ DOMAIN s = ComposeFields /\ s.publishing = FALSE /\ s.left = ui.left /\ s.given = ui.given
          /\ s.body = ui.body /\ s.kept = ui.kept /\ s.draft = ui.draft
      BY <1>2, <2>2 DEF Editing, ComposeFields
    <3>. HIDE DEF s
    <3>. QED BY <1>2, <3>1, SameText
  <2>. QED BY <2>1, <2>2
<1>. HIDE DEF s
<1>4. Settled(ComposeOps, i, s)
  BY <1>1, SettlesNone DEF ComposeState
<1>5. /\ Queue(ComposeOps)' /\ ui' = s /\ srv' = srv /\ Len(net') = Len(net) - 1 /\ Len(net) \in Nat
      /\ \A k \in 1..(Len(net) - 1) : net'[k] = net[IF k < i THEN k ELSE k + 1]
  BY <1>4 DEF Settled
<1>6. OneCreate(net', FALSE, srv)
  BY <1>1, <1>2, <1>5, CreateLeft
<1>7. s.left => srv # << >>
  <2>1. IsOk(i) => srv # << >>
    BY <1>1, <1>2 DEF OneCreate, IsOk
  <2>. QED BY <2>1, <1>3 DEF ComposeState
<1>. QED BY <1>3, <1>5, <1>6, <1>7 DEF ComposeState

\* A file's text is given to the editor.
LEMMA FileEnds ==
  ASSUME ComposeState, NEW i \in 1..Len(net), FileDone(i)
  PROVE  ComposeState'
<1>1. PICK b \in Texts : Settle(i, IF IsOk(i) /\ ~ui.left THEN SetBody(ui, b) ELSE ui, << >>)
  BY DEF FileDone
<1>2. net[i].ans # Pending /\ net[i].op # "create"
  BY DEF FileDone, Answered
<1>. DEFINE s == IF IsOk(i) /\ ~ui.left THEN SetBody(ui, b) ELSE ui
<1>3. Editing(ui) /\ OneCreate(net, ui.publishing, srv)
  BY DEF ComposeState
<1>4. Editing(s) /\ s.publishing = ui.publishing /\ s.left = ui.left
  BY <1>3, PutThere
<1>5. Settle(i, s, << >>)
  BY <1>1
<1>. HIDE DEF s
<1>6. Settled(ComposeOps, i, s)
  BY <1>2, <1>5, SettlesNone DEF ComposeState
<1>7. /\ Queue(ComposeOps)' /\ ui' = s /\ srv' = srv /\ Len(net') = Len(net) - 1 /\ Len(net) \in Nat
      /\ \A k \in 1..(Len(net) - 1) : net'[k] = net[IF k < i THEN k ELSE k + 1]
  BY <1>6 DEF Settled
<1>8. OneCreate(net', ui.publishing, srv)
  BY <1>2, <1>3, <1>7, FileLeft
<1>. QED BY <1>4, <1>7, <1>8 DEF ComposeState

\* Every step of the page keeps it.
LEMMA ComposeSteps ==
  ASSUME page = "compose", ComposeState, Next PROVE ComposeState'
<1>0. Queue(ComposeOps) /\ Editing(ui) /\ DOMAIN ui = ComposeFields
  BY DEF ComposeState, Editing
<1>1. ASSUME NEW b \in Texts, TypeText(b) PROVE ComposeState'
  BY <1>1, EditorSaves DEF TypeText
<1>2. CASE EditorReports
  <2>1. ui.body \in Texts /\ ComposeShown /\ EditorChange(ui.body)
    BY <1>0, <1>2 DEF EditorReports, Editing
  <2>. QED BY <2>1, EditorSaves
<1>3. ASSUME NEW x \in Headers, TypeTitle(x) PROVE ComposeState'
  <2>. DEFINE s == [ui EXCEPT !.title = x]
  <2>1. Update(s)
    BY <1>3 DEF TypeTitle
  <2>2. /\ DOMAIN s = ComposeFields /\ s.publishing = ui.publishing /\ s.left = ui.left
        /\ s.given = ui.given /\ s.body = ui.body /\ s.kept = ui.kept /\ s.draft = ui.draft
    BY <1>0 DEF ComposeFields
  <2>. HIDE DEF s
  <2>3. Editing(s)
    BY <1>0, <2>2, SameText DEF Editing
  <2>. QED BY <2>1, <2>2, <2>3, ComposeClicks
<1>4. CASE SetIsFullscreen
  <2>. DEFINE s == [ui EXCEPT !.full = ~@, !.mountedTitle = ui.title]
  <2>1. Update(s)
    BY <1>4 DEF SetIsFullscreen
  <2>2. /\ DOMAIN s = ComposeFields /\ s.publishing = ui.publishing /\ s.left = ui.left
        /\ s.given = ui.given /\ s.body = ui.body /\ s.kept = ui.kept /\ s.draft = ui.draft
    BY <1>0 DEF ComposeFields
  <2>. HIDE DEF s
  <2>3. Editing(s)
    BY <1>0, <2>2, SameText DEF Editing
  <2>. QED BY <2>1, <2>2, <2>3, ComposeClicks
<1>5. CASE DiscardDraft
  <2>. DEFINE s == [ui EXCEPT !.offer = FALSE, !.draft = NoDraft, !.kept = NoText]
  <2>1. Update(s)
    BY <1>5 DEF DiscardDraft
  <2>2. /\ DOMAIN s = ComposeFields /\ s.publishing = ui.publishing /\ s.left = ui.left
        /\ s.given = ui.given /\ s.body = ui.body /\ s.kept = NoText /\ s.draft = NoDraft
    BY <1>0 DEF ComposeFields
  <2>3. NoDraft.body \in Texts /\ NoDraft.body = NoText
    BY DEF NoDraft, Texts
  <2>. HIDE DEF s
  <2>4. Editing(s)
    BY <1>0, <2>2, <2>3 DEF Editing, IsSaved
  <2>. QED BY <2>1, <2>2, <2>4, ComposeClicks
<1>6. CASE HandleFile
  <2>. DEFINE c == Fetch("file", NoText)
  <2>1. Handle(ui, <<c>>)
    BY <1>6 DEF HandleFile
  <2>2. IsCall(c) /\ c.op = "file" /\ c.ans = Pending
    BY NewCalls
  <2>. HIDE DEF c
  <2>. QED BY <2>1, <2>2, FileAsked
<1>7. ASSUME NEW i \in 1..Len(net),
             CreateServed(i) \/ FileServed(i) \/ CreateDone(i) \/ FileDone(i) \/ Deny(i)
      PROVE  ComposeState'
  BY <1>7, ComposeServed, ComposeEnds, FileEnds, ComposeDenied
<1>. QED BY <1>0, <1>1, <1>2, <1>3, <1>4, <1>5, <1>6, <1>7, RestoreKeeps, CreateAsked, ReloadKeeps,
       ComposeActions

\* The text last typed, reported or restored, also before a reload, is in the
\* browser's storage until it is published or discarded, and a text on display is
\* that one unless the page put another there that the editor has not reported;
\* it is published by one call at a time, and the page is left when the article
\* is stored (WebEditor.DraftIsSafe).
THEOREM DraftStaysSafe == Spec => []DraftIsSafe
<1>. DEFINE Inv == page = "compose" => ComposeState
<1>1. Init => Inv
  BY Mounts, ComposeStarts
<1>2. Inv /\ [Next]_vars => Inv'
  <2>1. CASE Next
    BY <2>1, PageStays, ComposeSteps
  <2>2. CASE UNCHANGED vars
    <3>1. ComposeState => ComposeState'
      BY <2>2 DEF vars, ComposeState, Queue, Calls, InOrder, OneCreate
    <3>. QED BY <2>2, <3>1 DEF vars
  <2>. QED BY <2>1, <2>2
<1>3. Inv => DraftIsSafe
  <2>. SUFFICES ASSUME ComposeState
                PROVE  /\ ui.kept # NoText =>
                            ui.draft.stored /\ ui.draft.body = ui.kept /\ (ui.body \in {NoText, ui.kept} \/ ui.given)
                       /\ ui.publishing => Cardinality({i \in DOMAIN net : net[i].op = "create"}) = 1
                       /\ ui.left => srv # << >>
    BY DEF DraftIsSafe
  <2>1. IsSaved(ui) /\ (ui.left => srv # << >>)
    BY DEF ComposeState, Editing
  <2>2. ASSUME ui.publishing PROVE Cardinality({i \in DOMAIN net : net[i].op = "create"}) = 1
    <3>1. DOMAIN net = 1..Len(net) /\ OneCreate(net, ui.publishing, srv)
      BY InDomain DEF ComposeState
    <3>2. PICK k \in 1..Len(net) : net[k].op = "create"
      BY <2>2, <3>1 DEF OneCreate
    <3>3. {i \in DOMAIN net : net[i].op = "create"} = {k}
      BY <3>1, <3>2 DEF OneCreate
    <3>. QED BY <3>3, FS_Singleton
  <2>. QED BY <2>1, <2>2 DEF IsSaved
<1>. QED BY <1>1, <1>2, <1>3, PTL DEF Spec
------------------------------------------------------------------------------
(***************************************************************************)
(* Followers and followings.                                               *)
(***************************************************************************)
TabsOps    == {"interactions", "followToggle"}
TabsFields == {"tab", "lists", "loading"}

\* No toggle is behind call k of q.
LastToggled(q, k) == \A j \in (k + 1)..Len(q) : q[j].op # "followToggle"

\* Nothing in q changes what the service holds.
NoToggle(q) == \A k \in 1..Len(q) : q[k].op # "followToggle"

\* With the last toggle of q or behind it, tab t will be loaded.
ToCome(q, t) == \E k \in 1..Len(q) : q[k].arg = t /\ LastToggled(q, k)

\* A list that was answered with no toggle behind it is what the service, at s, holds.
FreshLists(q, s) ==
  \A k \in 1..Len(q) :
    q[k].op = "interactions" /\ q[k].ans # Pending /\ LastToggled(q, k) =>
      q[k].ans = Ok(InteractionsHeld(s, q[k].arg))

\* The list of the open tab is right with no toggle on its way, or it will be
\* loaded behind the last of them, at once or when that toggle is answered.
TabIsRight(q, lists, t, s) ==
  \/ lists[t] = InteractionsHeld(s, t) /\ NoToggle(q)
  \/ ToCome(q, t)

TabsState ==
  /\ Queue(TabsOps)
  /\ DOMAIN ui = TabsFields /\ DOMAIN ui.lists = InteractionTabs /\ ui.tab \in InteractionTabs
  /\ \A k \in 1..Len(net) : net[k].arg \in InteractionTabs
  /\ ~mishap => FreshLists(net, srv) /\ TabIsRight(net, ui.lists, ui.tab, srv)

\* A list is asked for behind the calls of q.
LEMMA ListAsked ==
  ASSUME NEW q, Len(q) \in Nat, NEW t, Len(t) = Len(q) + 1, \A k \in 1..Len(q) : t[k] = q[k],
         t[Len(q) + 1].op = "interactions", t[Len(q) + 1].ans = Pending, NEW s
  PROVE  /\ ToCome(t, t[Len(q) + 1].arg)
         /\ FreshLists(q, s) => FreshLists(t, s)
         /\ \A lists, tab : TabIsRight(q, lists, tab, s) => TabIsRight(t, lists, tab, s)
<1>1. \A k \in 1..Len(q) : LastToggled(t, k) <=> LastToggled(q, k)
  <2>1. \A j \in 1..Len(t) : j \in 1..Len(q) \/ j = Len(q) + 1
    OBVIOUS
  <2>. QED BY <2>1 DEF LastToggled
<1>2. ToCome(t, t[Len(q) + 1].arg)
  <2>1. Len(q) + 1 \in 1..Len(t) /\ LastToggled(t, Len(q) + 1)
    BY DEF LastToggled
  <2>. QED BY <2>1 DEF ToCome
<1>3. FreshLists(q, s) => FreshLists(t, s)
  <2>. SUFFICES ASSUME FreshLists(q, s), NEW k \in 1..Len(t), t[k].op = "interactions",
                       t[k].ans # Pending, LastToggled(t, k)
                PROVE  t[k].ans = Ok(InteractionsHeld(s, t[k].arg))
    BY DEF FreshLists
  <2>1. k \in 1..Len(q) /\ t[k] = q[k]
    OBVIOUS
  <2>. QED BY <2>1, <1>1 DEF FreshLists
<1>4. ASSUME NEW lists, NEW tab, TabIsRight(q, lists, tab, s) PROVE TabIsRight(t, lists, tab, s)
  <2>1. NoToggle(q) => NoToggle(t)
    BY DEF NoToggle
  <2>2. ToCome(q, tab) => ToCome(t, tab)
    BY <1>1 DEF ToCome
  <2>. QED BY <1>4, <2>1, <2>2 DEF TabIsRight
<1>. QED BY <1>2, <1>3, <1>4

\* The oldest call, answered, is settled.
LEMMA ListsLeft ==
  ASSUME NEW q, Len(q) \in Nat, Len(q) > 0, NEW t, Len(t) = Len(q) - 1,
         \A k \in 1..Len(t) : t[k] = q[k + 1], NEW s, FreshLists(q, s)
  PROVE  /\ FreshLists(t, s)
         /\ NoToggle(q) => NoToggle(t)
         /\ LastToggled(q, 1) => NoToggle(t)
         /\ NoToggle(q) => LastToggled(q, 1)
         /\ \A tab : ToCome(q, tab) => ToCome(t, tab) \/ (q[1].arg = tab /\ LastToggled(q, 1))
<1>1. \A k \in 1..Len(t) : LastToggled(t, k) <=> LastToggled(q, k + 1)
  <2>. SUFFICES ASSUME NEW k \in 1..Len(t) PROVE LastToggled(t, k) <=> LastToggled(q, k + 1)
    OBVIOUS
  <2>1. \A j \in ((k + 1) + 1)..Len(q) : j - 1 \in (k + 1)..Len(t) /\ t[j - 1] = q[j]
    OBVIOUS
  <2>2. \A j \in (k + 1)..Len(t) : j + 1 \in ((k + 1) + 1)..Len(q) /\ t[j] = q[j + 1]
    OBVIOUS
  <2>3. LastToggled(t, k) => LastToggled(q, k + 1)
    BY <2>1 DEF LastToggled
  <2>4. LastToggled(q, k + 1) => LastToggled(t, k)
    BY <2>2 DEF LastToggled
  <2>. QED BY <2>3, <2>4
<1>2. FreshLists(t, s)
  <2>. SUFFICES ASSUME NEW k \in 1..Len(t), t[k].op = "interactions", t[k].ans # Pending, LastToggled(t, k)
                PROVE  t[k].ans = Ok(InteractionsHeld(s, t[k].arg))
    BY DEF FreshLists
  <2>1. k + 1 \in 1..Len(q) /\ t[k] = q[k + 1]
    OBVIOUS
  <2>. QED BY <2>1, <1>1 DEF FreshLists
<1>3. \A k \in 1..Len(t) : k + 1 \in 2..Len(q) /\ k + 1 \in 1..Len(q) /\ t[k] = q[k + 1]
  OBVIOUS
<1>4. (NoToggle(q) => NoToggle(t)) /\ (LastToggled(q, 1) => NoToggle(t))
  BY <1>3 DEF NoToggle, LastToggled
<1>5. NoToggle(q) => LastToggled(q, 1)
  <2>1. \A j \in (1 + 1)..Len(q) : j \in 1..Len(q)
    OBVIOUS
  <2>. QED BY <2>1 DEF NoToggle, LastToggled
<1>6. ASSUME NEW tab, ToCome(q, tab) PROVE ToCome(t, tab) \/ (q[1].arg = tab /\ LastToggled(q, 1))
  <2>1. PICK k \in 1..Len(q) : q[k].arg = tab /\ LastToggled(q, k)
    BY <1>6 DEF ToCome
  <2>2. CASE k = 1
    BY <2>1, <2>2
  <2>3. CASE k # 1
    <3>1. k - 1 \in 1..Len(t) /\ t[k - 1] = q[k] /\ (k - 1) + 1 = k
      BY <2>3
    <3>2. LastToggled(t, k - 1)
      BY <3>1, <2>1, <1>1
    <3>. QED BY <3>1, <3>2, <2>1 DEF ToCome
  <2>. QED BY <2>2, <2>3
<1>. QED BY <1>2, <1>4, <1>5, <1>6

\* The page is mounted in a state of it.
LEMMA TabsStart ==
  ASSUME InteractionsInit PROVE TabsState
<1>. DEFINE c == LoadInteractions("followers")
<1>1. IsCall(c) /\ c.op = "interactions" /\ c.op \in TabsOps /\ c.arg = "followers" /\ c.ans = Pending
  BY NewCalls DEF TabsOps, LoadInteractions
<1>2. net = <<c>> /\ mishap = FALSE
  BY DEF InteractionsInit
<1>. HIDE DEF c
<1>3. Queue(TabsOps) /\ Len(net) = 1 /\ net[1] = c
  BY <1>1, <1>2, FirstCall
<1>4. /\ DOMAIN ui = TabsFields /\ DOMAIN ui.lists = InteractionTabs /\ ui.tab = "followers"
      /\ ui.tab \in InteractionTabs
  BY DEF InteractionsInit, TabsFields, InteractionTabs
<1>5. FreshLists(net, srv)
  BY <1>1, <1>3 DEF FreshLists
<1>6. ToCome(net, ui.tab)
  <2>1. LastToggled(net, 1)
    BY <1>3 DEF LastToggled
  <2>. QED BY <2>1, <1>1, <1>3, <1>4 DEF ToCome
<1>7. \A k \in 1..Len(net) : net[k].arg \in InteractionTabs
  BY <1>1, <1>3 DEF InteractionTabs
<1>. QED BY <1>3, <1>4, <1>5, <1>6, <1>7 DEF TabsState, TabIsRight

\* What can happen on this page.
LEMMA TabsActions ==
  ASSUME page = "interactions", Queue(TabsOps), Next
  PROVE  \/ \E t \in InteractionTabs : InteractionTab(t)
         \/ FollowToggle
         \/ \E i \in 1..Len(net) : \/ InteractionsServed(i) \/ FollowToggleServed(i) \/ Deny(i)
                                   \/ InteractionsLoaded(i) \/ FollowToggled(i)
<1>1. page \in FeedsPages /\ Queue(FeedsOps)
  BY QueueOf DEF FeedsPages, TabsOps, FeedsOps
<1>2. CASE FeedsUser
  BY <1>2 DEF FeedsUser, FeedTab, FeedScroll, GoToPage, SetFilter, LoadMoreCreations, ActOnCreation,
    HandleFollow
<1>3. ASSUME NEW i \in 1..Len(net), FeedsService(i) \/ FeedsThen(i)
      PROVE  InteractionsServed(i) \/ FollowToggleServed(i) \/ InteractionsLoaded(i) \/ FollowToggled(i)
  <2>1. net[i].op \in TabsOps
    BY DEF Queue, Calls
  <2>. QED BY <1>3, <2>1 DEF TabsOps, FeedsService, FeedServed, CreationsServed, CreationActServed,
         ProfileServed, FollowServed, Asked, FeedsThen, FeedLoaded, CreationsLoaded,
         CreationActDone, Reloading, ProfileLoaded, FollowDone, Answered
<1>. QED BY <1>1, <1>2, <1>3, FeedsNext

\* The answer to a list goes to its own tab.
LEMMA ListShown ==
  ASSUME TabsState, NEW i \in 1..Len(net), net[i].op = "interactions", net[i].ans # Pending, NEW s,
         Settle(i, s, << >>), DOMAIN s = TabsFields, s.tab = ui.tab, DOMAIN s.lists = InteractionTabs,
         IsOk(i) => s.lists = [ui.lists EXCEPT ![net[i].arg] = Data(i)]
  PROVE  TabsState'
<1>1. Settled(TabsOps, i, s)
  BY SettlesNone DEF TabsState
<1>2. /\ Queue(TabsOps)' /\ Len(net') = Len(net) - 1 /\ Len(net) \in Nat
      /\ ui' = s /\ srv' = srv /\ (mishap => mishap') /\ (~mishap' => i = 1 /\ IsOk(1))
      /\ \A k \in 1..Len(net') : net'[k] = net[IF k < i THEN k ELSE k + 1]
  BY <1>1 DEF Settled
<1>3. \A k \in 1..Len(net') : net'[k].arg \in InteractionTabs
  <2>1. \A k \in 1..Len(net') : (IF k < i THEN k ELSE k + 1) \in 1..Len(net)
    BY <1>2
  <2>. QED BY <1>2, <2>1 DEF TabsState
<1>4. ASSUME ~mishap' PROVE FreshLists(net', srv) /\ TabIsRight(net', s.lists, s.tab, srv)
  <2>1. i = 1 /\ IsOk(1) /\ FreshLists(net, srv) /\ TabIsRight(net, ui.lists, ui.tab, srv)
    BY <1>2, <1>4 DEF TabsState
  <2>2. \A k \in 1..Len(net') : net'[k] = net[k + 1]
    BY <1>2, <2>1
  <2>3. Len(net) > 0 /\ 1 \in 1..Len(net)
    BY <1>2
  <2>4. /\ FreshLists(net', srv)
        /\ NoToggle(net) => NoToggle(net')
        /\ LastToggled(net, 1) => NoToggle(net')
        /\ NoToggle(net) => LastToggled(net, 1)
        /\ \A tab : ToCome(net, tab) => ToCome(net', tab) \/ (net[1].arg = tab /\ LastToggled(net, 1))
    BY <1>2, <2>1, <2>2, <2>3, ListsLeft
  <2>5. LastToggled(net, 1) => Data(i) = InteractionsHeld(srv, net[1].arg)
    <3>1. LastToggled(net, 1) => net[1].ans = Ok(InteractionsHeld(srv, net[1].arg))
      BY <2>1, <2>3 DEF FreshLists
    <3>. QED BY <2>1, <3>1 DEF Data, Ok
  <2>6. s.lists[s.tab] = IF s.tab = net[1].arg THEN Data(i) ELSE ui.lists[ui.tab]
    BY <2>1 DEF TabsState
  <2>7. CASE NoToggle(net) /\ ui.lists[ui.tab] = InteractionsHeld(srv, ui.tab)
    BY <2>4, <2>5, <2>6, <2>7 DEF TabIsRight
  <2>8. CASE ToCome(net, ui.tab)
    BY <2>4, <2>5, <2>6, <2>8 DEF TabIsRight
  <2>. QED BY <2>1, <2>4, <2>7, <2>8 DEF TabIsRight
<1>. QED BY <1>2, <1>3, <1>4 DEF TabsState

\* Every step of the page keeps it.
LEMMA TabsSteps ==
  ASSUME page = "interactions", TabsState, Next PROVE TabsState'
<1>. Queue(TabsOps) /\ Len(net) \in Nat
  BY DEF TabsState, Queue, Calls
<1>0. DOMAIN ui = TabsFields /\ DOMAIN ui.lists = InteractionTabs /\ ui.tab \in InteractionTabs
  BY DEF TabsState
<1>1. ASSUME NEW t \in InteractionTabs, InteractionTab(t) PROVE TabsState'
  <2>. DEFINE s == [ui EXCEPT !.tab = t, !.loading = TRUE]
              c == LoadInteractions(t)
  <2>1. Handle(s, <<c>>)
    BY <1>1 DEF InteractionTab
  <2>2. DOMAIN s = TabsFields /\ s.tab = t /\ s.lists = ui.lists
    BY <1>0 DEF TabsFields
  <2>3. IsCall(c) /\ c.op = "interactions" /\ c.op \in TabsOps /\ c.arg = t /\ c.ans = Pending
    BY NewCalls DEF TabsOps, LoadInteractions
  <2>. HIDE DEF s, c
  <2>4. Started(TabsOps, s, c)
    BY <2>1, <2>3, HandlesOne
  <2>5. /\ Queue(TabsOps)' /\ Len(net') = Len(net) + 1 /\ net'[Len(net) + 1] = c /\ ui' = s /\ srv' = srv
        /\ mishap' = mishap /\ \A k \in 1..Len(net) : net'[k] = net[k]
    BY <2>4 DEF Started
  <2>6. ToCome(net', t) /\ (FreshLists(net, srv) => FreshLists(net', srv))
    BY <2>3, <2>5, ListAsked
  <2>7. \A k \in 1..Len(net') : net'[k].arg \in InteractionTabs
    BY <2>3, <2>5 DEF TabsState
  <2>. QED BY <1>0, <2>2, <2>5, <2>6, <2>7 DEF TabsState, TabIsRight
<1>2. CASE FollowToggle
  <2>. DEFINE c == Request("followToggle", ui.tab)
  <2>1. Handle(ui, <<c>>)
    BY <1>2 DEF FollowToggle
  <2>2. IsCall(c) /\ c.op = "followToggle" /\ c.op \in TabsOps /\ c.arg = ui.tab /\ c.ans = Pending
    BY NewCalls DEF TabsOps
  <2>. HIDE DEF c
  <2>3. Started(TabsOps, ui, c)
    BY <2>1, <2>2, HandlesOne
  <2>4. /\ Queue(TabsOps)' /\ Len(net') = Len(net) + 1 /\ net'[Len(net) + 1] = c /\ ui' = ui /\ srv' = srv
        /\ mishap' = mishap /\ \A k \in 1..Len(net) : net'[k] = net[k]
    BY <2>3 DEF Started
  <2>5. FreshLists(net', srv)
    <3>1. \A k \in 1..Len(net) : ~LastToggled(net', k)
      <4>1. \A k \in 1..Len(net) : Len(net) + 1 \in (k + 1)..Len(net')
        BY <2>4
      <4>. QED BY <4>1, <2>2, <2>4 DEF LastToggled
    <3>2. \A k \in 1..Len(net') : k \in 1..Len(net) \/ k = Len(net) + 1
      BY <2>4
    <3>. QED BY <3>1, <3>2, <2>2, <2>4 DEF FreshLists
  <2>6. ToCome(net', ui.tab)
    <3>1. Len(net) + 1 \in 1..Len(net') /\ LastToggled(net', Len(net) + 1)
      BY <2>4 DEF LastToggled
    <3>. QED BY <3>1, <2>2, <2>4 DEF ToCome
  <2>7. \A k \in 1..Len(net') : net'[k].arg \in InteractionTabs
    BY <1>0, <2>2, <2>4 DEF TabsState
  <2>. QED BY <1>0, <2>4, <2>5, <2>6, <2>7 DEF TabsState, TabIsRight
<1>3. ASSUME NEW i \in 1..Len(net), InteractionsServed(i) PROVE TabsState'
  <2>. DEFINE v == InteractionsHeld(srv, net[i].arg)
  <2>1. Reply(i, v, srv) /\ net[i].op = "interactions"
    BY <1>3 DEF InteractionsServed, Asked
  <2>2. Replied(TabsOps, i, v, srv)
    BY <2>1, Replies
  <2>3. /\ Queue(TabsOps)' /\ Len(net') = Len(net) /\ ui' = ui /\ srv' = srv /\ (mishap => mishap')
        /\ \A k \in 1..Len(net) : net'[k].op = net[k].op /\ net'[k].arg = net[k].arg
        /\ \A k \in 1..Len(net) : k # i => net'[k] = net[k]
        /\ ~mishap' => net'[i].ans = Ok(v)
    BY <2>2 DEF Replied
  <2>4. \A k \in 1..Len(net) : LastToggled(net', k) <=> LastToggled(net, k)
    BY <2>3 DEF LastToggled
  <2>5. \A k \in 1..Len(net') : net'[k].arg \in InteractionTabs
    BY <2>3 DEF TabsState
  <2>6. ASSUME ~mishap' PROVE FreshLists(net', srv)
    <3>1. FreshLists(net, srv)
      BY <2>3, <2>6 DEF TabsState
    <3>2. net'[i].ans = Ok(InteractionsHeld(srv, net'[i].arg))
      BY <2>3, <2>6
    <3>. QED BY <3>1, <3>2, <2>3, <2>4 DEF FreshLists
  <2>7. NoToggle(net) => NoToggle(net')
    BY <2>3 DEF NoToggle
  <2>8. ToCome(net, ui.tab) => ToCome(net', ui.tab)
    BY <2>3, <2>4 DEF ToCome
  <2>. QED BY <1>0, <2>3, <2>5, <2>6, <2>7, <2>8 DEF TabsState, TabIsRight
<1>4. ASSUME NEW i \in 1..Len(net), FollowToggleServed(i) PROVE TabsState'
  <2>1. Reply(i, ~srv, ~srv) /\ net[i].op = "followToggle"
    BY <1>4 DEF FollowToggleServed, Asked
  <2>2. Replied(TabsOps, i, ~srv, ~srv)
    BY <2>1, Replies
  <2>3. /\ Queue(TabsOps)' /\ Len(net') = Len(net) /\ ui' = ui /\ srv' = ~srv /\ (mishap => mishap')
        /\ \A k \in 1..Len(net) : net'[k].op = net[k].op /\ net'[k].arg = net[k].arg
        /\ \A k \in 1..Len(net) : k # i => net'[k] = net[k]
        /\ ~mishap' => \A k \in i..Len(net) : net[k].ans = Pending
    BY <2>2 DEF Replied
  <2>4. \A k \in 1..Len(net) : LastToggled(net', k) <=> LastToggled(net, k)
    BY <2>3 DEF LastToggled
  <2>5. \A k \in 1..Len(net') : net'[k].arg \in InteractionTabs
    BY <2>3 DEF TabsState
  <2>6. ASSUME ~mishap' PROVE FreshLists(net', ~srv)
    <3>. SUFFICES ASSUME NEW k \in 1..Len(net), net'[k].op = "interactions", net'[k].ans # Pending,
                         LastToggled(net', k)
                  PROVE  FALSE
      BY <2>3 DEF FreshLists
    <3>1. k # i
      BY <2>1, <2>3
    <3>2. CASE k < i
      <4>1. i \in (k + 1)..Len(net')
        BY <3>2, <2>3
      <4>. QED BY <4>1, <2>1, <2>3 DEF LastToggled
    <3>3. CASE k > i
      <4>1. net[k].ans = Pending /\ net'[k] = net[k]
        BY <3>3, <2>3, <2>6
      <4>. QED BY <4>1
    <3>. QED BY <3>1, <3>2, <3>3
  <2>7. ~NoToggle(net)
    BY <2>1 DEF NoToggle
  <2>8. ToCome(net, ui.tab) => ToCome(net', ui.tab)
    BY <2>3, <2>4 DEF ToCome
  <2>. QED BY <1>0, <2>3, <2>5, <2>6, <2>7, <2>8 DEF TabsState, TabIsRight
<1>5. ASSUME NEW i \in 1..Len(net), InteractionsLoaded(i) PROVE TabsState'
  <2>. DEFINE s == IF IsOk(i) THEN [ui EXCEPT !.lists[net[i].arg] = Data(i), !.loading = FALSE]
                   ELSE [ui EXCEPT !.loading = FALSE]
  <2>1. Settle(i, s, << >>) /\ net[i].ans # Pending /\ net[i].op = "interactions"
    BY <1>5 DEF InteractionsLoaded, Answered
  <2>2. /\ DOMAIN s = TabsFields /\ s.tab = ui.tab /\ DOMAIN s.lists = InteractionTabs
        /\ IsOk(i) => s.lists = [ui.lists EXCEPT ![net[i].arg] = Data(i)]
    BY <1>0 DEF TabsFields
  <2>. HIDE DEF s
  <2>. QED BY <2>1, <2>2, ListShown
<1>6. ASSUME NEW i \in 1..Len(net), FollowToggled(i), IsOk(i) PROVE TabsState'
  <2>. DEFINE s == [ui EXCEPT !.loading = TRUE]
              c == LoadInteractions(net[i].arg)
  <2>1. Settle(i, s, <<c>>) /\ net[i].ans # Pending /\ net[i].op = "followToggle"
    BY <1>6 DEF FollowToggled, Answered
  <2>2. DOMAIN s = TabsFields /\ s.tab = ui.tab /\ s.lists = ui.lists
    BY <1>0 DEF TabsFields
  <2>3. IsCall(c) /\ c.op = "interactions" /\ c.op \in TabsOps /\ c.arg = net[i].arg /\ c.ans = Pending
    BY NewCalls DEF TabsOps, LoadInteractions
  <2>. HIDE DEF s, c
  <2>4. SettledWith(TabsOps, i, s, c)
    BY <2>1, <2>3, SettlesOne
  <2>5. /\ Queue(TabsOps)' /\ Len(net') = Len(net) /\ ui' = s /\ srv' = srv /\ (mishap => mishap')
        /\ \A k \in 1..(Len(net) - 1) : net'[k] = net[IF k < i THEN k ELSE k + 1]
        /\ net'[Len(net)] = c /\ (~mishap' => i = 1)
    BY <2>4 DEF SettledWith
  <2>6. \A k \in 1..Len(net') : net'[k].arg \in InteractionTabs
    <3>1. \A k \in 1..(Len(net) - 1) : (IF k < i THEN k ELSE k + 1) \in 1..Len(net)
      OBVIOUS
    <3>2. \A k \in 1..Len(net') : k \in 1..(Len(net) - 1) \/ k = Len(net)
      BY <2>5
    <3>. QED BY <3>1, <3>2, <2>3, <2>5 DEF TabsState
  <2>7. ASSUME ~mishap' PROVE FreshLists(net', srv) /\ ToCome(net', ui.tab)
    <3>. DEFINE t == [k \in 1..(Len(net) - 1) |-> net[k + 1]]
    <3>1. Len(t) = Len(net) - 1 /\ \A k \in 1..Len(t) : t[k] = net[k + 1]
      OBVIOUS
    <3>. HIDE DEF t
    <3>2. FreshLists(net, srv) /\ TabIsRight(net, ui.lists, ui.tab, srv) /\ i = 1
      BY <2>5, <2>7 DEF TabsState
    <3>3. ~NoToggle(net)
      BY <2>1 DEF NoToggle
    <3>4. ToCome(net, ui.tab)
      BY <3>2, <3>3 DEF TabIsRight
    <3>5. /\ FreshLists(t, srv)
          /\ ToCome(net, ui.tab) => ToCome(t, ui.tab) \/ (net[1].arg = ui.tab /\ LastToggled(net, 1))
      BY <3>1, <3>2, ListsLeft
    <3>6. /\ Len(t) \in Nat /\ Len(net') = Len(t) + 1 /\ net'[Len(t) + 1] = c
          /\ \A k \in 1..Len(t) : net'[k] = t[k]
      BY <3>1, <3>2, <2>5
    <3>7. /\ ToCome(net', c.arg)
          /\ FreshLists(t, srv) => FreshLists(net', srv)
          /\ \A lists, tab : TabIsRight(t, lists, tab, srv) => TabIsRight(net', lists, tab, srv)
      BY <3>6, <2>3, ListAsked
    <3>8. CASE net[1].arg = ui.tab
      BY <3>2, <3>5, <3>7, <3>8, <2>3
    <3>9. CASE ToCome(t, ui.tab)
      <4>1. PICK k \in 1..Len(t) : t[k].arg = ui.tab /\ LastToggled(t, k)
        BY <3>9 DEF ToCome
      <4>2. LastToggled(net', k)
        <5>1. \A j \in (k + 1)..Len(net') : j \in (k + 1)..Len(t) \/ j = Len(t) + 1
          BY <3>6
        <5>2. \A j \in (k + 1)..Len(t) : j \in 1..Len(t)
          OBVIOUS
        <5>. QED BY <4>1, <5>1, <5>2, <3>6, <2>3 DEF LastToggled
      <4>3. k \in 1..Len(net') /\ net'[k].arg = ui.tab
        BY <4>1, <3>6
      <4>. QED BY <4>2, <4>3, <3>5, <3>7 DEF ToCome
    <3>. QED BY <3>4, <3>5, <3>8, <3>9
  <2>. QED BY <1>0, <2>2, <2>5, <2>6, <2>7 DEF TabsState, TabIsRight
<1>7. ASSUME NEW i \in 1..Len(net), FollowToggled(i), ~IsOk(i) PROVE TabsState'
  <2>1. Settle(i, ui, << >>) /\ net[i].ans # Pending
    BY <1>7 DEF FollowToggled, Answered
  <2>2. Settled(TabsOps, i, ui)
    BY <2>1, SettlesNone
  <2>3. /\ Queue(TabsOps)' /\ Len(net') = Len(net) - 1 /\ ui' = ui /\ srv' = srv /\ mishap'
        /\ \A k \in 1..Len(net') : net'[k] = net[IF k < i THEN k ELSE k + 1]
    BY <2>2, <1>7 DEF Settled
  <2>4. \A k \in 1..Len(net') : (IF k < i THEN k ELSE k + 1) \in 1..Len(net)
    BY <2>3
  <2>5. \A k \in 1..Len(net') : net'[k].arg \in InteractionTabs
    BY <2>3, <2>4 DEF TabsState
  <2>. QED BY <1>0, <2>3, <2>5 DEF TabsState
<1>8. ASSUME NEW i \in 1..Len(net), Deny(i) PROVE TabsState'
  <2>1. Denied(TabsOps, i)
    BY <1>8, Denies
  <2>2. /\ Queue(TabsOps)' /\ Len(net') = Len(net) /\ ui' = ui /\ mishap'
        /\ \A k \in 1..Len(net) : net'[k].arg = net[k].arg
    BY <2>1 DEF Denied
  <2>. QED BY <1>0, <2>2 DEF TabsState
<1>. QED BY <1>1, <1>2, <1>3, <1>4, <1>5, <1>6, <1>7, <1>8, TabsActions DEF TabsState

\* The list of the chosen tab is the service's after any mix of toggles and
\* changes of the tab (WebFeeds.InteractionsAreCurrent): a change that is not
\* shown yet has a load of its list behind it.
THEOREM TabsStayCurrent == Spec => []InteractionsAreCurrent
<1>. DEFINE Inv == page = "interactions" => TabsState
<1>1. Init => Inv
  BY Mounts, TabsStart
<1>2. Inv /\ [Next]_vars => Inv'
  <2>1. CASE Next
    BY <2>1, PageStays, TabsSteps
  <2>2. CASE UNCHANGED vars
    BY <2>2 DEF vars, TabsState, Queue, Calls, InOrder, FreshLists, TabIsRight
  <2>. QED BY <2>1, <2>2
<1>3. Inv => InteractionsAreCurrent
  <2>. SUFFICES ASSUME TabsState, Quiet, ~mishap
                PROVE  ui.lists[ui.tab] = InteractionsHeld(srv, ui.tab)
    BY DEF InteractionsAreCurrent
  <2>1. Len(net) = 0
    BY QuietIsEmpty DEF TabsState
  <2>2. ~ToCome(net, ui.tab)
    BY <2>1 DEF ToCome
  <2>. QED BY <2>2 DEF TabsState, TabIsRight
<1>. QED BY <1>1, <1>2, <1>3, PTL DEF Spec
------------------------------------------------------------------------------
(***************************************************************************)
(* What a page shows when the continuation of a call shows its answer, or  *)
(* does once more to the page what the service has done.                   *)
(***************************************************************************)
\* Call k of q is the last one to op that is answered.
LastAnswered(q, op, k) ==
  /\ q[k].op = op /\ q[k].ans # Pending
  /\ \A j \in (k + 1)..Len(q) : q[j].op = op => q[j].ans = Pending

\* What is shown, v, is what the service holds, s, or the last answer is.
ShowsLast(q, op, v, s) ==
  /\ (\A k \in 1..Len(q) : q[k].op = op => q[k].ans = Pending) => v = s
  /\ \A k \in 1..Len(q) : LastAnswered(q, op, k) => q[k].ans = Ok(s)

\* A call is made behind the calls of q.
LEMMA ShowsGrow ==
  ASSUME NEW q, Len(q) \in Nat, NEW t, Len(t) = Len(q) + 1, \A k \in 1..Len(q) : t[k] = q[k],
         t[Len(q) + 1].ans = Pending, NEW op, NEW v, NEW s, ShowsLast(q, op, v, s)
  PROVE  ShowsLast(t, op, v, s)
<1>. DEFINE n == Len(q) + 1
<1>1. \A k \in 1..Len(t) : k \in 1..Len(q) \/ k = n
  OBVIOUS
<1>2. \A k \in 1..Len(q) : k \in 1..Len(t) /\ t[k] = q[k]
  OBVIOUS
<1>3. \A k \in 1..Len(q) : LastAnswered(t, op, k) => LastAnswered(q, op, k)
  <2>1. \A k \in 1..Len(q) : \A j \in (k + 1)..Len(q) : j \in (k + 1)..Len(t) /\ t[j] = q[j]
    OBVIOUS
  <2>. QED BY <2>1 DEF LastAnswered
<1>4. ~LastAnswered(t, op, n)
  BY DEF LastAnswered
<1>. HIDE DEF n
<1>. QED BY <1>1, <1>2, <1>3, <1>4 DEF ShowsLast

\* The oldest pending call, to op, is answered: its answer is the last one.
LEMMA ShowsAnswered ==
  ASSUME NEW q, Len(q) \in Nat, NEW t, Len(t) = Len(q), NEW i \in 1..Len(q),
         \A k \in 1..Len(q) : t[k].op = q[k].op /\ (k # i => t[k] = q[k]),
         \A k \in i..Len(q) : q[k].ans = Pending, t[i].ans # Pending,
         NEW op, q[i].op = op, NEW v, NEW s, t[i].ans = Ok(s)
  PROVE  ShowsLast(t, op, v, s)
<1>1. ASSUME NEW k \in 1..Len(t), LastAnswered(t, op, k) PROVE t[k].ans = Ok(s)
  <2>1. CASE k < i
    <3>1. i \in (k + 1)..Len(t)
      BY <2>1
    <3>. QED BY <3>1, <1>1 DEF LastAnswered
  <2>2. CASE k = i
    BY <2>2
  <2>3. CASE k > i
    <3>1. k \in i..Len(q) /\ t[k] = q[k]
      BY <2>3
    <3>. QED BY <3>1, <1>1 DEF LastAnswered
  <2>. QED BY <2>1, <2>2, <2>3
<1>2. ~\A k \in 1..Len(t) : t[k].op = op => t[k].ans = Pending
  OBVIOUS
<1>. QED BY <1>1, <1>2 DEF ShowsLast

\* An answer to another call changes nothing of it.
LEMMA ShowsOther ==
  ASSUME NEW q, Len(q) \in Nat, NEW t, Len(t) = Len(q), NEW i \in 1..Len(q),
         \A k \in 1..Len(q) : t[k].op = q[k].op /\ (k # i => t[k] = q[k]),
         NEW op, q[i].op # op, NEW v, NEW s, ShowsLast(q, op, v, s)
  PROVE  ShowsLast(t, op, v, s)
<1>1. \A k \in 1..Len(q) : q[k].op = op => t[k] = q[k]
  OBVIOUS
<1>2. \A k \in 1..Len(q) : LastAnswered(t, op, k) => LastAnswered(q, op, k)
  <2>1. \A k \in 1..Len(q) : \A j \in (k + 1)..Len(q) : j \in 1..Len(q)
    OBVIOUS
  <2>. QED BY <1>1, <2>1 DEF LastAnswered
<1>. QED BY <1>1, <1>2 DEF ShowsLast, LastAnswered

\* The oldest call, answered, is settled; to op, its answer is shown.
LEMMA ShowsLeft ==
  ASSUME NEW q, Len(q) \in Nat, Len(q) > 0, NEW t, Len(t) = Len(q) - 1,
         \A k \in 1..Len(t) : t[k] = q[k + 1], q[1].ans # Pending,
         NEW op, NEW v, NEW s, ShowsLast(q, op, v, s),
         NEW w, q[1].op # op => w = v, q[1].op = op => w = q[1].ans.data
  PROVE  ShowsLast(t, op, w, s)
<1>1. \A k \in 1..Len(t) : k + 1 \in 1..Len(q) /\ t[k] = q[k + 1]
  OBVIOUS
<1>2. \A k \in 1..Len(q) : k = 1 \/ (k - 1 \in 1..Len(t) /\ t[k - 1] = q[k])
  OBVIOUS
<1>3. \A k \in 1..Len(t) : LastAnswered(t, op, k) => LastAnswered(q, op, k + 1)
  <2>1. \A k \in 1..Len(t) : \A j \in ((k + 1) + 1)..Len(q) : j - 1 \in (k + 1)..Len(t) /\ t[j - 1] = q[j]
    OBVIOUS
  <2>. QED BY <2>1, <1>1 DEF LastAnswered
<1>4. ASSUME \A k \in 1..Len(t) : t[k].op = op => t[k].ans = Pending PROVE w = s
  <2>1. CASE q[1].op = op
    <3>1. \A j \in (1 + 1)..Len(q) : j - 1 \in 1..Len(t) /\ t[j - 1] = q[j]
      OBVIOUS
    <3>2. LastAnswered(q, op, 1)
      BY <2>1, <3>1, <1>4 DEF LastAnswered
    <3>3. 1 \in 1..Len(q)
      OBVIOUS
    <3>4. q[1].ans = Ok(s)
      BY <3>2, <3>3 DEF ShowsLast
    <3>. QED BY <3>4, <2>1 DEF Ok
  <2>2. CASE q[1].op # op
    <3>1. \A k \in 1..Len(q) : q[k].op = op => q[k].ans = Pending
      BY <2>2, <1>2, <1>4
    <3>. QED BY <3>1, <2>2 DEF ShowsLast
  <2>. QED BY <2>1, <2>2
<1>5. \A k \in 1..Len(t) : LastAnswered(t, op, k) => t[k].ans = Ok(s)
  BY <1>1, <1>3 DEF ShowsLast
<1>. QED BY <1>4, <1>5 DEF ShowsLast

\* f is done to a by each call to op that is answered in q, one after the
\* other, and the end is b.
Walk(q, op, f, w) ==
  \A k \in 1..Len(q) : w[k] = IF q[k].op = op /\ q[k].ans # Pending THEN f[w[k - 1]] ELSE w[k - 1]

Leads(q, op, f, S, a, b) ==
  \E w \in [0..Len(q) -> S] : w[0] = a /\ w[Len(q)] = b /\ Walk(q, op, f, w)

\* A call is made behind the calls of q.
LEMMA LeadsGrow ==
  ASSUME NEW q, Len(q) \in Nat, NEW t, Len(t) = Len(q) + 1, \A k \in 1..Len(q) : t[k] = q[k],
         t[Len(q) + 1].ans = Pending,
         NEW op, NEW f, NEW S, NEW a, NEW b, Leads(q, op, f, S, a, b)
  PROVE  Leads(t, op, f, S, a, b)
<1>1. PICK w \in [0..Len(q) -> S] : w[0] = a /\ w[Len(q)] = b /\ Walk(q, op, f, w)
  BY DEF Leads
<1>. DEFINE r == [k \in 0..Len(t) |-> IF k <= Len(q) THEN w[k] ELSE b]
<1>2. \A k \in 0..Len(q) : w[k] \in S
  OBVIOUS
<1>3. b \in S
  BY <1>1, <1>2
<1>4. r \in [0..Len(t) -> S] /\ r[0] = a /\ r[Len(t)] = b
  BY <1>1, <1>2, <1>3
<1>5. ASSUME NEW k \in 1..Len(t)
      PROVE  r[k] = IF t[k].op = op /\ t[k].ans # Pending THEN f[r[k - 1]] ELSE r[k - 1]
  <2>1. CASE k <= Len(q)
    <3>1. r[k] = w[k] /\ r[k - 1] = w[k - 1] /\ t[k] = q[k] /\ k \in 1..Len(q)
      BY <2>1
    <3>2. w[k] = IF q[k].op = op /\ q[k].ans # Pending THEN f[w[k - 1]] ELSE w[k - 1]
      BY <3>1, <1>1 DEF Walk
    <3>. QED BY <3>1, <3>2
  <2>2. CASE k = Len(q) + 1
    BY <2>2, <1>1
  <2>. QED BY <2>1, <2>2
<1>. HIDE DEF r
<1>. QED BY <1>4, <1>5 DEF Leads, Walk

\* The oldest pending call is answered: if it is one to op, the service did f.
LEMMA LeadsAnswered ==
  ASSUME NEW q, NEW t, NEW i, IsAnswered(q, t, i),
         NEW op, NEW f, NEW S, f \in [S -> S], NEW a, NEW b, Leads(q, op, f, S, a, b)
  PROVE  /\ q[i].op = op => Leads(t, op, f, S, a, f[b])
         /\ q[i].op # op => Leads(t, op, f, S, a, b)
<1>0. /\ Len(q) \in Nat /\ Len(t) = Len(q) /\ i \in 1..Len(q)
      /\ \A k \in 1..Len(q) : t[k].op = q[k].op /\ (k # i => t[k] = q[k])
      /\ (\A k \in i..Len(q) : q[k].ans = Pending) /\ t[i].ans # Pending
  BY DEF IsAnswered
<1>1. PICK w \in [0..Len(q) -> S] : w[0] = a /\ w[Len(q)] = b /\ Walk(q, op, f, w)
  BY DEF Leads
<1>2. \A k \in 0..Len(q) : w[k] \in S /\ f[w[k]] \in S
  BY <1>1
<1>3. ASSUME q[i].op = op PROVE Leads(t, op, f, S, a, f[b])
  <2>. DEFINE r == [k \in 0..Len(t) |-> IF k < i THEN w[k] ELSE f[w[k]]]
  <2>1. r \in [0..Len(t) -> S]
    BY <1>0, <1>2
  <2>2. r[0] = a /\ r[Len(t)] = f[b]
    BY <1>0, <1>1
  <2>3. ASSUME NEW k \in 1..Len(t)
        PROVE  r[k] = IF t[k].op = op /\ t[k].ans # Pending THEN f[r[k - 1]] ELSE r[k - 1]
    <3>1. w[k] = IF q[k].op = op /\ q[k].ans # Pending THEN f[w[k - 1]] ELSE w[k - 1]
      BY <1>0, <1>1 DEF Walk
    <3>2. CASE k < i
      <4>1. r[k] = w[k] /\ r[k - 1] = w[k - 1] /\ t[k] = q[k]
        BY <1>0, <3>2
      <4>. QED BY <1>0, <4>1, <3>1
    <3>3. CASE k = i
      <4>1. r[k] = f[w[k]] /\ r[k - 1] = w[k - 1] /\ q[k].ans = Pending /\ t[k].ans # Pending /\ t[k].op = op
        BY <1>0, <3>3, <1>3
      <4>. QED BY <1>0, <4>1, <3>1
    <3>4. CASE k > i
      <4>1. r[k] = f[w[k]] /\ r[k - 1] = f[w[k - 1]] /\ t[k] = q[k] /\ q[k].ans = Pending
        BY <1>0, <3>4
      <4>. QED BY <1>0, <4>1, <3>1
    <3>. QED BY <1>0, <3>2, <3>3, <3>4
  <2>. HIDE DEF r
  <2>. QED BY <1>0, <2>1, <2>2, <2>3 DEF Leads, Walk
<1>4. ASSUME q[i].op # op PROVE Leads(t, op, f, S, a, b)
  <2>1. \A k \in 1..Len(t) : (t[k].op = op /\ t[k].ans # Pending) <=> (q[k].op = op /\ q[k].ans # Pending)
    BY <1>0, <1>4
  <2>2. Walk(t, op, f, w)
    BY <1>0, <2>1, <1>1 DEF Walk
  <2>. QED BY <1>0, <2>2, <1>1 DEF Leads
<1>. QED BY <1>3, <1>4

\* The oldest call, answered, is settled: if it is one to op, the page does f.
LEMMA LeadsLeft ==
  ASSUME NEW q, Len(q) \in Nat, Len(q) > 0, NEW t, Len(t) = Len(q) - 1,
         \A k \in 1..Len(t) : t[k] = q[k + 1], q[1].ans # Pending,
         NEW op, NEW S, NEW f, NEW a, NEW b, Leads(q, op, f, S, a, b)
  PROVE  /\ q[1].op = op => Leads(t, op, f, S, f[a], b)
         /\ q[1].op # op => Leads(t, op, f, S, a, b)
<1>1. PICK w \in [0..Len(q) -> S] : w[0] = a /\ w[Len(q)] = b /\ Walk(q, op, f, w)
  BY DEF Leads
<1>. DEFINE r == [k \in 0..Len(t) |-> w[k + 1]]
<1>2. r \in [0..Len(t) -> S]
  OBVIOUS
<1>3. w[1] = IF q[1].op = op /\ q[1].ans # Pending THEN f[w[1 - 1]] ELSE w[1 - 1]
  BY <1>1 DEF Walk
<1>4. r[Len(t)] = b /\ r[0] = w[1]
  BY <1>1
<1>5. ASSUME NEW k \in 1..Len(t)
      PROVE  r[k] = IF t[k].op = op /\ t[k].ans # Pending THEN f[r[k - 1]] ELSE r[k - 1]
  <2>1. r[k] = w[k + 1] /\ r[k - 1] = w[(k + 1) - 1] /\ t[k] = q[k + 1] /\ k + 1 \in 1..Len(q)
    OBVIOUS
  <2>2. w[k + 1] = IF q[k + 1].op = op /\ q[k + 1].ans # Pending THEN f[w[(k + 1) - 1]] ELSE w[(k + 1) - 1]
    BY <2>1, <1>1 DEF Walk
  <2>. QED BY <2>1, <2>2
<1>. HIDE DEF r
<1>6. Leads(t, op, f, S, w[1], b)
  BY <1>2, <1>4, <1>5 DEF Leads, Walk
<1>. QED BY <1>1, <1>3, <1>6

\* With no call nothing is done.
LEMMA NothingDone ==
  ASSUME NEW q, Len(q) = 0, NEW op, NEW S, NEW f, NEW a, NEW b
  PROVE  /\ Leads(q, op, f, S, a, b) => a = b
         /\ a \in S => Leads(q, op, f, S, a, a)
<1>1. Leads(q, op, f, S, a, b) => a = b
  BY DEF Leads
<1>2. ASSUME a \in S PROVE Leads(q, op, f, S, a, a)
  <2>. DEFINE w == [k \in 0..Len(q) |-> a]
  <2>1. w \in [0..Len(q) -> S] /\ w[0] = a /\ w[Len(q)] = a
    BY <1>2
  <2>. HIDE DEF w
  <2>. QED BY <2>1 DEF Leads, Walk
<1>. QED BY <1>1, <1>2

\* And nothing is answered.
LEMMA NothingAnswered ==
  ASSUME NEW q, Len(q) = 0, NEW op, NEW a, NEW b
  PROVE  ShowsLast(q, op, a, b) <=> a = b
BY DEF ShowsLast
------------------------------------------------------------------------------
(***************************************************************************)
(* The author's editor of a post.                                          *)
(***************************************************************************)
AuthorOps    == {"savePost", "deletePost"}
AuthorFields == {"post", "editing", "form", "saved", "left"}
FormFields   == {"title", "visibility", "password"}
PostFields   == FormFields \cup {"deleted"}

\* Call k of q is the last save sent.
LastSave(q, k) ==
  /\ q[k].op = "savePost"
  /\ \A j \in (k + 1)..Len(q) : q[j].op # "savePost"

\* The service, at s, holds the title and the password that were sent.
Holds(s, saved) == s.title = saved.title /\ (saved.password => s.password)

\* What was sent last is held, or it is in the last save.
SentIs(q, saved, s) ==
  /\ (\A k \in 1..Len(q) : q[k].op # "savePost") => Holds(s, saved)
  /\ \A k \in 1..Len(q) : LastSave(q, k) =>
       /\ q[k].arg.title = saved.title /\ q[k].arg.password = saved.password
       /\ q[k].ans # Pending => Holds(s, saved)

\* The author left, or is about to, exactly when the post is deleted.
LeavesDeleted(q, left, s) ==
  /\ left => s.deleted
  /\ s.deleted => left \/ \E k \in 1..Len(q) : q[k].op = "deletePost" /\ q[k].ans # Pending
  /\ \A k \in 1..Len(q) : q[k].op = "deletePost" /\ q[k].ans # Pending => s.deleted

AuthorState ==
  /\ Queue(AuthorOps)
  /\ DOMAIN ui = AuthorFields /\ DOMAIN ui.form = FormFields
  /\ ui.left \in BOOLEAN /\ ui.form.password \in BOOLEAN /\ ui.saved.password \in BOOLEAN
  /\ DOMAIN srv = PostFields /\ srv.deleted \in BOOLEAN
  /\ ~mishap =>
       /\ LeavesDeleted(net, ui.left, srv)
       /\ ~srv.deleted => ShowsLast(net, "savePost", ui.post, srv) /\ SentIs(net, ui.saved, srv)

\* A call is made behind the calls of q.
LEMMA CallBehind ==
  ASSUME NEW q, Len(q) \in Nat, NEW t, Len(t) = Len(q) + 1, \A k \in 1..Len(q) : t[k] = q[k],
         t[Len(q) + 1].ans = Pending, NEW s, NEW left, LeavesDeleted(q, left, s)
  PROVE  LeavesDeleted(t, left, s)
<1>1. \A k \in 1..Len(t) : k \in 1..Len(q) \/ k = Len(q) + 1
  OBVIOUS
<1>2. \A k \in 1..Len(q) : k \in 1..Len(t) /\ t[k] = q[k]
  OBVIOUS
<1>. QED BY <1>1, <1>2 DEF LeavesDeleted

\* The oldest call, answered, is settled.
LEMMA CallLeaves ==
  ASSUME NEW q, Len(q) \in Nat, Len(q) > 0, NEW t, Len(t) = Len(q) - 1,
         \A k \in 1..Len(t) : t[k] = q[k + 1], q[1].ans # Pending, NEW s
  PROVE  /\ \A saved : SentIs(q, saved, s) => SentIs(t, saved, s)
         /\ \A left : LeavesDeleted(q, left, s) =>
              /\ q[1].op # "deletePost" => LeavesDeleted(t, left, s)
              /\ q[1].op = "deletePost" => LeavesDeleted(t, TRUE, s)
<1>1. \A k \in 1..Len(t) : k + 1 \in 1..Len(q) /\ t[k] = q[k + 1]
  OBVIOUS
<1>2. \A k \in 1..Len(q) : k = 1 \/ (k - 1 \in 1..Len(t) /\ t[k - 1] = q[k])
  OBVIOUS
<1>3. \A k \in 1..Len(t) : LastSave(t, k) => LastSave(q, k + 1)
  <2>1. \A k \in 1..Len(t) : \A j \in ((k + 1) + 1)..Len(q) : j - 1 \in (k + 1)..Len(t) /\ t[j - 1] = q[j]
    OBVIOUS
  <2>. QED BY <2>1, <1>1 DEF LastSave
<1>4. \A j \in (1 + 1)..Len(q) : j - 1 \in 1..Len(t) /\ t[j - 1] = q[j]
  OBVIOUS
<1>5. 1 \in 1..Len(q)
  OBVIOUS
<1>7. ASSUME NEW saved, SentIs(q, saved, s) PROVE SentIs(t, saved, s)
  <2>1. ASSUME \A k \in 1..Len(t) : t[k].op # "savePost" PROVE Holds(s, saved)
    <3>1. CASE q[1].op = "savePost"
      <4>1. LastSave(q, 1)
        BY <3>1, <1>4, <2>1 DEF LastSave
      <4>. QED BY <4>1, <1>5, <1>7 DEF SentIs
    <3>2. CASE q[1].op # "savePost"
      <4>1. \A k \in 1..Len(q) : q[k].op # "savePost"
        BY <3>2, <1>2, <2>1
      <4>. QED BY <4>1, <1>7 DEF SentIs
    <3>. QED BY <3>1, <3>2
  <2>2. \A k \in 1..Len(t) : LastSave(t, k) =>
          /\ t[k].arg.title = saved.title /\ t[k].arg.password = saved.password
          /\ t[k].ans # Pending => Holds(s, saved)
    BY <1>1, <1>3, <1>7 DEF SentIs
  <2>. QED BY <2>1, <2>2 DEF SentIs
<1>8. ASSUME NEW left, LeavesDeleted(q, left, s)
      PROVE  /\ q[1].op # "deletePost" => LeavesDeleted(t, left, s)
             /\ q[1].op = "deletePost" => LeavesDeleted(t, TRUE, s)
  <2>1. \A k \in 1..Len(t) : t[k].op = "deletePost" /\ t[k].ans # Pending => s.deleted
    BY <1>1, <1>8 DEF LeavesDeleted
  <2>2. q[1].op = "deletePost" => s.deleted
    BY <1>5, <1>8 DEF LeavesDeleted
  <2>3. ASSUME q[1].op # "deletePost", NEW k \in 1..Len(q), q[k].op = "deletePost", q[k].ans # Pending
        PROVE  \E j \in 1..Len(t) : t[j].op = "deletePost" /\ t[j].ans # Pending
    BY <1>2, <2>3
  <2>. QED BY <2>1, <2>2, <2>3, <1>8 DEF LeavesDeleted
<1>. QED BY <1>7, <1>8

\* The page is mounted in a state of it.
LEMMA AuthorStarts ==
  ASSUME EditorInit PROVE AuthorState
<1>1. Queue(AuthorOps) /\ Len(net) = 0
  BY NoCall DEF EditorInit
<1>2. /\ DOMAIN ui = AuthorFields /\ DOMAIN ui.form = FormFields /\ ~ui.left /\ ui.left \in BOOLEAN
      /\ ui.form.password \in BOOLEAN /\ ui.saved.password \in BOOLEAN
      /\ ui.post = srv /\ ui.saved.title = 1 /\ ~ui.saved.password
  BY DEF EditorInit, FormOf, AuthorFields, FormFields
<1>3. DOMAIN srv = PostFields /\ ~srv.deleted /\ srv.deleted \in BOOLEAN /\ srv.title = 1
  BY DEF EditorInit, PostFields, FormFields
<1>4. LeavesDeleted(net, ui.left, srv)
  BY <1>1, <1>2, <1>3 DEF LeavesDeleted
<1>5. ShowsLast(net, "savePost", ui.post, srv) /\ SentIs(net, ui.saved, srv)
  <2>1. ShowsLast(net, "savePost", ui.post, srv)
    BY <1>1, <1>2, NothingAnswered
  <2>2. SentIs(net, ui.saved, srv)
    BY <1>1, <1>2, <1>3 DEF SentIs, Holds
  <2>. QED BY <2>1, <2>2
<1>. QED BY <1>1, <1>2, <1>3, <1>4, <1>5 DEF AuthorState

\* What can happen on this page.
LEMMA AuthorActions ==
  ASSUME page = "postEdit", Queue(AuthorOps), Next
  PROVE  \/ HandleEdit \/ HandleCancelEdit \/ HandleSaveEdit \/ HandleDelete
         \/ \E f \in PostForm : SetForm(f)
         \/ \E i \in 1..Len(net) : EditorServed(i) \/ EditorDone(i) \/ Deny(i)
<1>1. page \in PostPages /\ Queue(ReadOps)
  BY QueueOf DEF PostPages, AuthorOps, ReadOps
<1>2. CASE PostUser
  BY <1>2 DEF PostUser, HandleFollowAuthor, HandleLike, HandleBookmark, HandleUnlock, PostShown,
    TypeComment, TypeReply, NotesOpen, HandleComment
<1>3. ASSUME NEW i \in 1..Len(net), PostService(i) \/ PostThen(i)
      PROVE  EditorServed(i) \/ EditorDone(i)
  <2>1. net[i].op \in AuthorOps
    BY DEF Queue, Calls
  <2>2. PostService(i) => EditorServed(i)
    BY <2>1 DEF AuthorOps, PostService, GetPostServed, ViewServed, ReaderServed, ReaderOps, NotesServed, Asked
  <2>3. PostThen(i) => EditorDone(i)
    BY <2>1 DEF AuthorOps, PostThen, PostLoaded, ViewDone, ReaderDone, NotesDone, Answered
  <2>. QED BY <1>3, <2>2, <2>3
<1>. QED BY <1>1, <1>2, <1>3, PostNext

\* What the author does to the form only.
LEMMA AuthorTypes ==
  ASSUME AuthorState, NEW s, Update(s), DOMAIN s = AuthorFields, DOMAIN s.form = FormFields,
         s.form.password \in BOOLEAN, s.left = ui.left, s.post = ui.post, s.saved = ui.saved
  PROVE  AuthorState'
<1>1. Updated(AuthorOps, s)
  BY HandlesNone DEF AuthorState
<1>2. Queue(AuthorOps)' /\ net' = net /\ ui' = s /\ srv' = srv /\ mishap' = mishap
  BY <1>1 DEF Updated
<1>. QED BY <1>2 DEF AuthorState

\* Every step of the page keeps it.
LEMMA AuthorSteps ==
  ASSUME page = "postEdit", AuthorState, Next PROVE AuthorState'
<1>. Queue(AuthorOps) /\ Len(net) \in Nat
  BY DEF AuthorState, Queue, Calls
<1>0. /\ DOMAIN ui = AuthorFields /\ DOMAIN ui.form = FormFields /\ ui.form.password \in BOOLEAN
      /\ ui.left \in BOOLEAN /\ ui.saved.password \in BOOLEAN
      /\ DOMAIN srv = PostFields /\ srv.deleted \in BOOLEAN
  BY DEF AuthorState
<1>1. CASE HandleEdit
  <2>. DEFINE s == [ui EXCEPT !.editing = TRUE, !.form = FormOf(ui.post)]
  <2>1. Update(s)
    BY <1>1 DEF HandleEdit
  <2>2. /\ DOMAIN s = AuthorFields /\ DOMAIN s.form = FormFields /\ s.form.password \in BOOLEAN
        /\ s.left = ui.left /\ s.post = ui.post /\ s.saved = ui.saved
    BY <1>0 DEF AuthorFields, FormFields, FormOf
  <2>. HIDE DEF s
  <2>. QED BY <2>1, <2>2, AuthorTypes
<1>2. CASE HandleCancelEdit
  <2>. DEFINE s == [ui EXCEPT !.editing = FALSE, !.form = FormOf(ui.post)]
  <2>1. Update(s)
    BY <1>2 DEF HandleCancelEdit
  <2>2. /\ DOMAIN s = AuthorFields /\ DOMAIN s.form = FormFields /\ s.form.password \in BOOLEAN
        /\ s.left = ui.left /\ s.post = ui.post /\ s.saved = ui.saved
    BY <1>0 DEF AuthorFields, FormFields, FormOf
  <2>. HIDE DEF s
  <2>. QED BY <2>1, <2>2, AuthorTypes
<1>3. ASSUME NEW f \in PostForm, SetForm(f) PROVE AuthorState'
  <2>. DEFINE g == [f EXCEPT !.password = @ /\ f.visibility = "unlisted"]
              s == [ui EXCEPT !.form = g]
  <2>1. Update(s)
    BY <1>3 DEF SetForm
  <2>2. DOMAIN g = FormFields /\ g.password \in BOOLEAN
    BY DEF PostForm, FormFields
  <2>. HIDE DEF g
  <2>3. DOMAIN s = AuthorFields /\ s.form = g /\ s.left = ui.left /\ s.post = ui.post /\ s.saved = ui.saved
    BY <1>0 DEF AuthorFields
  <2>. HIDE DEF s
  <2>. QED BY <2>1, <2>2, <2>3, AuthorTypes
<1>4. CASE HandleSaveEdit
  <2>. DEFINE sent == [ui.form EXCEPT !.visibility = IF @ = ui.post.visibility THEN Unchanged ELSE @]
              s == [ui EXCEPT !.saved = [title |-> ui.form.title, password |-> ui.form.password]]
              c == Request("savePost", sent)
  <2>1. Handle(s, <<c>>)
    BY <1>4 DEF HandleSaveEdit
  <2>2. sent.title = ui.form.title /\ sent.password = ui.form.password
    BY <1>0 DEF FormFields
  <2>3. /\ DOMAIN s = AuthorFields /\ s.left = ui.left /\ s.post = ui.post /\ s.form = ui.form
        /\ s.saved.title = ui.form.title /\ s.saved.password = ui.form.password
    BY <1>0 DEF AuthorFields
  <2>. HIDE DEF s, sent
  <2>4. IsCall(c) /\ c.op = "savePost" /\ c.op \in AuthorOps /\ c.arg = sent /\ c.ans = Pending
    BY NewCalls DEF AuthorOps
  <2>. HIDE DEF c
  <2>5. Started(AuthorOps, s, c)
    BY <2>1, <2>4, HandlesOne
  <2>6. /\ Queue(AuthorOps)' /\ Len(net') = Len(net) + 1 /\ net'[Len(net) + 1] = c /\ ui' = s /\ srv' = srv
        /\ mishap' = mishap /\ \A k \in 1..Len(net) : net'[k] = net[k]
    BY <2>5 DEF Started
  <2>7. /\ ShowsLast(net, "savePost", ui.post, srv) => ShowsLast(net', "savePost", ui.post, srv)
        /\ LeavesDeleted(net, ui.left, srv) => LeavesDeleted(net', ui.left, srv)
    BY <2>4, <2>6, CallBehind, ShowsGrow
  <2>8. SentIs(net', s.saved, srv)
    <3>1. \A k \in 1..Len(net') : k = Len(net) + 1 \/ Len(net) + 1 \in (k + 1)..Len(net')
      BY <2>6
    <3>2. Len(net) + 1 \in 1..Len(net')
      BY <2>6
    <3>3. \A k \in 1..Len(net') : LastSave(net', k) => k = Len(net) + 1
      BY <3>1, <2>4, <2>6 DEF LastSave
    <3>. QED BY <3>2, <3>3, <2>2, <2>3, <2>4, <2>6 DEF SentIs
  <2>. QED BY <1>0, <2>3, <2>6, <2>7, <2>8 DEF AuthorState
<1>5. CASE HandleDelete
  <2>. DEFINE c == Request("deletePost", 0)
  <2>1. Handle(ui, <<c>>)
    BY <1>5 DEF HandleDelete
  <2>2. IsCall(c) /\ c.op = "deletePost" /\ c.op \in AuthorOps /\ c.ans = Pending
    BY NewCalls DEF AuthorOps
  <2>. HIDE DEF c
  <2>3. Started(AuthorOps, ui, c)
    BY <2>1, <2>2, HandlesOne
  <2>4. /\ Queue(AuthorOps)' /\ Len(net') = Len(net) + 1 /\ net'[Len(net) + 1] = c /\ ui' = ui /\ srv' = srv
        /\ mishap' = mishap /\ \A k \in 1..Len(net) : net'[k] = net[k]
    BY <2>3 DEF Started
  <2>5. /\ ShowsLast(net, "savePost", ui.post, srv) => ShowsLast(net', "savePost", ui.post, srv)
        /\ LeavesDeleted(net, ui.left, srv) => LeavesDeleted(net', ui.left, srv)
    BY <2>2, <2>4, CallBehind, ShowsGrow
  <2>6. SentIs(net, ui.saved, srv) => SentIs(net', ui.saved, srv)
    <3>1. \A k \in 1..Len(net') : k \in 1..Len(net) \/ k = Len(net) + 1
      BY <2>4
    <3>2. \A k \in 1..Len(net) : k \in 1..Len(net') /\ net'[k] = net[k]
      BY <2>4
    <3>3. ~LastSave(net', Len(net) + 1)
      BY <2>2, <2>4 DEF LastSave
    <3>4. \A k \in 1..Len(net) : LastSave(net', k) => LastSave(net, k)
      <4>1. \A k \in 1..Len(net) : \A j \in (k + 1)..Len(net) : j \in (k + 1)..Len(net') /\ net'[j] = net[j]
        BY <2>4
      <4>. QED BY <4>1, <3>2 DEF LastSave
    <3>. QED BY <3>1, <3>2, <3>3, <3>4 DEF SentIs
  <2>. QED BY <1>0, <2>4, <2>5, <2>6 DEF AuthorState
<1>6. ASSUME NEW i \in 1..Len(net), EditorServed(i), net[i].op = "savePost" PROVE AuthorState'
  <2>. DEFINE s == SavedAs(srv, net[i].arg)
  <2>1. Reply(i, s, s) /\ ~srv.deleted
    BY <1>6 DEF EditorServed, Asked
  <2>2. /\ DOMAIN s = PostFields /\ s.deleted = srv.deleted /\ s.title = net[i].arg.title
        /\ net[i].arg.password => s.password
    BY <1>0 DEF SavedAs, PostFields, FormFields
  <2>. HIDE DEF s
  <2>3. Replied(AuthorOps, i, s, s)
    BY <2>1, Replies
  <2>4. /\ Queue(AuthorOps)' /\ Len(net') = Len(net) /\ ui' = ui /\ srv' = s /\ (mishap => mishap')
        /\ \A k \in 1..Len(net) : net'[k].op = net[k].op /\ net'[k].arg = net[k].arg
        /\ \A k \in 1..Len(net) : k # i => net'[k] = net[k]
        /\ net'[i].ans # Pending
        /\ ~mishap' => net'[i].ans = Ok(s) /\ \A k \in i..Len(net) : net[k].ans = Pending
    BY <2>3 DEF Replied
  <2>5. ~mishap' => ShowsLast(net', "savePost", ui.post, s)
    BY <2>4, <1>6, ShowsAnswered
  <2>6. ASSUME ~mishap' PROVE SentIs(net', ui.saved, s)
    <3>1. SentIs(net, ui.saved, srv)
      BY <2>1, <2>4, <2>6 DEF AuthorState
    <3>2. \A k \in 1..Len(net) : LastSave(net', k) => LastSave(net, k)
      BY <2>4 DEF LastSave
    <3>3. ASSUME NEW k \in 1..Len(net), LastSave(net', k)
          PROVE  /\ net'[k].arg.title = ui.saved.title /\ net'[k].arg.password = ui.saved.password
                 /\ net'[k].ans # Pending => Holds(s, ui.saved)
      <4>1. net[k].arg.title = ui.saved.title /\ net[k].arg.password = ui.saved.password
        BY <3>1, <3>2, <3>3 DEF SentIs
      <4>2. CASE k < i
        <5>1. i \in (k + 1)..Len(net')
          BY <4>2, <2>4
        <5>. QED BY <5>1, <3>3, <2>4, <1>6 DEF LastSave
      <4>3. CASE k = i
        <5>1. Holds(s, ui.saved)
          BY <4>1, <4>3, <2>2 DEF Holds
        <5>. QED BY <4>1, <4>3, <5>1, <2>4
      <4>4. CASE k > i
        <5>1. k \in i..Len(net) /\ net'[k] = net[k] /\ net[k].ans = Pending
          BY <4>4, <2>4, <2>6
        <5>. QED BY <5>1, <4>1
      <4>. QED BY <4>2, <4>3, <4>4
    <3>4. ~\A k \in 1..Len(net') : net'[k].op # "savePost"
      BY <2>4, <1>6
    <3>. QED BY <3>3, <3>4, <2>4 DEF SentIs
  <2>7. ASSUME ~mishap' PROVE LeavesDeleted(net', ui.left, s)
    <3>1. LeavesDeleted(net, ui.left, srv)
      BY <2>4, <2>7 DEF AuthorState
    <3>2. \A k \in 1..Len(net) : net'[k].op = "deletePost" => net'[k] = net[k]
      BY <2>4, <1>6
    <3>. QED BY <3>1, <3>2, <2>1, <2>2, <2>4 DEF LeavesDeleted
  <2>. QED BY <1>0, <2>2, <2>4, <2>5, <2>6, <2>7 DEF AuthorState
<1>7. ASSUME NEW i \in 1..Len(net), EditorServed(i), net[i].op = "deletePost" PROVE AuthorState'
  <2>. DEFINE s == [srv EXCEPT !.deleted = TRUE]
  <2>1. Reply(i, TRUE, s)
    BY <1>7 DEF EditorServed, Asked
  <2>2. DOMAIN s = PostFields /\ s.deleted /\ s.deleted \in BOOLEAN
    BY <1>0 DEF PostFields
  <2>. HIDE DEF s
  <2>3. Replied(AuthorOps, i, TRUE, s)
    BY <2>1, Replies
  <2>4. /\ Queue(AuthorOps)' /\ Len(net') = Len(net) /\ ui' = ui /\ srv' = s
        /\ net'[i].ans # Pending /\ net'[i].op = "deletePost"
    BY <2>3, <1>7 DEF Replied
  <2>5. LeavesDeleted(net', ui.left, s)
    BY <2>2, <2>4 DEF LeavesDeleted
  <2>. QED BY <1>0, <2>2, <2>4, <2>5 DEF AuthorState
<1>8. ASSUME NEW i \in 1..Len(net), EditorDone(i) PROVE AuthorState'
  <2>1. CASE ~IsOk(i)
    <3>. DEFINE s == IF net[i].op = "savePost" THEN ui ELSE [ui EXCEPT !.left = @ \/ IsOk(i)]
    <3>1. Settle(i, s, << >>) /\ net[i].ans # Pending
      BY <1>8, <2>1 DEF EditorDone, Answered
    <3>2. /\ DOMAIN s = AuthorFields /\ s.form = ui.form /\ s.saved = ui.saved /\ s.left \in BOOLEAN
      BY <1>0 DEF AuthorFields
    <3>. HIDE DEF s
    <3>3. Settled(AuthorOps, i, s)
      BY <3>1, SettlesNone
    <3>4. Queue(AuthorOps)' /\ ui' = s /\ srv' = srv /\ mishap'
      BY <3>3, <2>1 DEF Settled
    <3>. QED BY <1>0, <3>2, <3>4 DEF AuthorState
  <2>2. CASE IsOk(i)
    <3>. DEFINE s == IF net[i].op = "savePost"
                     THEN [ui EXCEPT !.post = Data(i), !.editing = FALSE, !.form = FormOf(Data(i))]
                     ELSE [ui EXCEPT !.left = @ \/ IsOk(i)]
    <3>0. net[i].op \in AuthorOps
      BY DEF Queue, Calls
    <3>1. Settle(i, s, << >>) /\ net[i].ans # Pending
      BY <1>8, <2>2, <3>0 DEF EditorDone, Answered, AuthorOps
    <3>2. /\ DOMAIN s = AuthorFields /\ DOMAIN s.form = FormFields /\ s.form.password \in BOOLEAN
          /\ s.saved = ui.saved /\ s.left \in BOOLEAN
          /\ net[i].op = "savePost" => s.post = Data(i) /\ s.left = ui.left
          /\ net[i].op # "savePost" => s.post = ui.post /\ s.left = TRUE
      BY <1>0, <2>2 DEF AuthorFields, FormFields, FormOf
    <3>. HIDE DEF s
    <3>3. Settled(AuthorOps, i, s)
      BY <3>1, SettlesNone
    <3>4. /\ Queue(AuthorOps)' /\ Len(net') = Len(net) - 1 /\ ui' = s /\ srv' = srv /\ (mishap => mishap')
          /\ ~mishap' => i = 1
          /\ \A k \in 1..Len(net') : net'[k] = net[IF k < i THEN k ELSE k + 1]
      BY <3>3 DEF Settled
    <3>5. ASSUME ~mishap'
          PROVE  /\ LeavesDeleted(net', s.left, srv)
                 /\ ~srv.deleted => ShowsLast(net', "savePost", s.post, srv) /\ SentIs(net', s.saved, srv)
      <4>1. /\ i = 1 /\ Len(net) > 0 /\ \A k \in 1..Len(net') : net'[k] = net[k + 1]
            /\ LeavesDeleted(net, ui.left, srv)
            /\ ~srv.deleted => ShowsLast(net, "savePost", ui.post, srv) /\ SentIs(net, ui.saved, srv)
        BY <3>4, <3>5 DEF AuthorState
      <4>2. net[1].op = "savePost" => s.post = net[1].ans.data
        BY <4>1, <3>2 DEF Data
      <4>3. net[1].op # "savePost" => s.post = ui.post /\ s.left = TRUE
        BY <4>1, <3>2
      <4>4. net[1].ans # Pending /\ Len(net') = Len(net) - 1
        BY <4>1, <3>1, <3>4
      <4>5. /\ \A saved : SentIs(net, saved, srv) => SentIs(net', saved, srv)
            /\ \A left : LeavesDeleted(net, left, srv) =>
                 /\ net[1].op # "deletePost" => LeavesDeleted(net', left, srv)
                 /\ net[1].op = "deletePost" => LeavesDeleted(net', TRUE, srv)
        BY <4>1, <4>4, CallLeaves
      <4>6. LeavesDeleted(net', s.left, srv)
        <5>1. CASE net[1].op = "savePost"
          BY <5>1, <4>1, <4>5, <3>2
        <5>2. CASE net[1].op = "deletePost"
          BY <5>2, <4>1, <4>3, <4>5
        <5>. QED BY <5>1, <5>2, <4>1, <3>0 DEF AuthorOps
      <4>7. ~srv.deleted => ShowsLast(net', "savePost", s.post, srv)
        BY <4>1, <4>2, <4>3, <4>4, ShowsLeft
      <4>8. ~srv.deleted => SentIs(net', s.saved, srv)
        BY <4>1, <4>5, <3>2
      <4>. QED BY <4>6, <4>7, <4>8
    <3>. QED BY <1>0, <3>2, <3>4, <3>5 DEF AuthorState
  <2>. QED BY <2>1, <2>2
<1>9. ASSUME NEW i \in 1..Len(net), Deny(i) PROVE AuthorState'
  <2>1. Denied(AuthorOps, i)
    BY <1>9, Denies
  <2>. QED BY <1>0, <2>1 DEF Denied, AuthorState
<1>10. ASSUME NEW i \in 1..Len(net), EditorServed(i)
       PROVE  net[i].op = "savePost" \/ net[i].op = "deletePost"
  BY <1>10 DEF EditorServed, Asked
<1>. QED BY <1>1, <1>2, <1>3, <1>4, <1>5, <1>6, <1>7, <1>8, <1>9, <1>10, AuthorActions DEF AuthorState

\* The post on display is the service's though its form is sent again while a
\* save is pending (WebPost.EditedPostIsCurrent): the last save answered is the
\* one shown.
THEOREM EditsStayCurrent == Spec => []EditedPostIsCurrent
<1>. DEFINE Inv == page = "postEdit" => AuthorState
<1>1. Init => Inv
  BY Mounts, AuthorStarts
<1>2. Inv /\ [Next]_vars => Inv'
  <2>1. CASE Next
    BY <2>1, PageStays, AuthorSteps
  <2>2. CASE UNCHANGED vars
    BY <2>2 DEF vars, AuthorState, Queue, Calls, InOrder, ShowsLast, SentIs, LeavesDeleted
  <2>. QED BY <2>1, <2>2
<1>3. Inv => EditedPostIsCurrent
  <2>. SUFFICES ASSUME AuthorState, Quiet, ~mishap
                PROVE  /\ ui.left = srv.deleted
                       /\ ~ui.left => /\ ui.post = srv
                                      /\ srv.title = ui.saved.title
                                      /\ ui.saved.password => srv.password
    BY DEF EditedPostIsCurrent
  <2>1. Len(net) = 0
    BY QuietIsEmpty DEF AuthorState
  <2>2. ui.left \in BOOLEAN /\ srv.deleted \in BOOLEAN
    BY DEF AuthorState
  <2>3. ui.left <=> srv.deleted
    BY <2>1 DEF AuthorState, LeavesDeleted
  <2>4. ASSUME ~srv.deleted PROVE ui.post = srv /\ Holds(srv, ui.saved)
    <3>1. ShowsLast(net, "savePost", ui.post, srv) /\ SentIs(net, ui.saved, srv)
      BY <2>4 DEF AuthorState
    <3>2. ui.post = srv
      BY <2>1, <3>1, NothingAnswered
    <3>3. Holds(srv, ui.saved)
      BY <2>1, <3>1 DEF SentIs
    <3>. QED BY <3>2, <3>3
  <2>. QED BY <2>2, <2>3, <2>4 DEF Holds
<1>. QED BY <1>1, <1>2, <1>3, PTL DEF Spec
------------------------------------------------------------------------------
(***************************************************************************)
(* The video page.                                                         *)
(***************************************************************************)
VideoOps    == {"video", "videoLike", "videoMark", "videoNote"}
VideoFields == {"loading", "known", "liked", "marked", "notes", "draft", "liking", "marking"}
VideoHeld   == [liked : BOOLEAN, marked : BOOLEAN, notes : Int]

\* What a like does to the like, and a comment to their number.
Flip    == [b \in BOOLEAN |-> ~b]
OneMore == [n \in Int |-> n + 1]

\* The page of state u shows what the service, at s, holds, but for the calls
\* of q that are answered.
VideoShows(q, u, s) ==
  /\ Leads(q, "videoLike", Flip, BOOLEAN, u.liked, s.liked)
  /\ ShowsLast(q, "videoMark", u.marked, s.marked)
  /\ Leads(q, "videoNote", OneMore, Int, u.notes, s.notes)

\* The video comes first, with all that is shown of it.
VideoState ==
  /\ Queue(VideoOps)
  /\ DOMAIN ui = VideoFields /\ ui.known \in BOOLEAN
  /\ srv \in VideoHeld
  /\ ui.known => \A k \in 1..Len(net) : net[k].op # "video"
  /\ ~ui.known => Len(net) <= 1 /\ \A k \in 1..Len(net) : net[k].op = "video"
  /\ ~mishap =>
       /\ ~ui.known => \A k \in 1..Len(net) : net[k].ans # Pending => net[k].ans = Ok(srv)
       /\ ui.known => VideoShows(net, ui, srv)

\* The page is mounted in a state of it.
LEMMA VideoStarts ==
  ASSUME VideoInit PROVE VideoState
<1>. DEFINE c == Request("video", 0)
<1>1. IsCall(c) /\ c.op = "video" /\ c.op \in VideoOps /\ c.ans = Pending
  BY NewCalls DEF VideoOps
<1>2. net = <<c>> /\ mishap = FALSE
  BY DEF VideoInit
<1>. HIDE DEF c
<1>3. Queue(VideoOps) /\ Len(net) = 1 /\ net[1] = c
  BY <1>1, <1>2, FirstCall
<1>4. DOMAIN ui = VideoFields /\ ~ui.known /\ ui.known \in BOOLEAN
  BY DEF VideoInit, VideoFields
<1>5. srv \in VideoHeld
  BY DEF VideoInit, VideoHeld
<1>6. \A k \in 1..Len(net) : net[k].op = "video" /\ net[k].ans = Pending
  BY <1>1, <1>3
<1>. QED BY <1>3, <1>4, <1>5, <1>6 DEF VideoState

\* What can happen on this page.
LEMMA VideoActions ==
  ASSUME page = "video", Queue(VideoOps), Next
  PROVE  \/ HandleVideoLike \/ HandleVideoMark \/ TypeVideoNote \/ HandleVideoNote
         \/ \E i \in 1..Len(net) : \/ VideoServed(i) \/ VideoActServed(i) \/ Deny(i)
                                   \/ VideoLoaded(i) \/ VideoActDone(i)
<1>1. page \in ReactionPages /\ Queue(ReactionOps)
  BY QueueOf DEF ReactionPages, VideoOps, ReactionOps
<1>2. CASE ReactionsUser
  BY <1>2 DEF ReactionsUser, HandleVote, HandlePollVote, HandleTip, HandleJoin, CardLike, CardMark
<1>3. ASSUME NEW i \in 1..Len(net), ReactionsService(i) \/ ReactionsThen(i)
      PROVE  VideoServed(i) \/ VideoActServed(i) \/ VideoLoaded(i) \/ VideoActDone(i)
  <2>1. net[i].op \in VideoOps
    BY DEF Queue, Calls
  <2>2. ReactionsService(i) => VideoServed(i) \/ VideoActServed(i)
    BY <2>1 DEF VideoOps, ReactionsService, ScoreServed, CastServed, MyVoteServed, TallyServed,
      PollVoteServed, OnceServed, CardServed, Asked
  <2>3. ReactionsThen(i) => VideoLoaded(i) \/ VideoActDone(i)
    BY <2>1 DEF VideoOps, ReactionsThen, ScoreLoaded, CastDone, MyVoteChecked, TallyRefreshed,
      PollVoteDone, OnceDone, CardDone, Answered
  <2>. QED BY <1>3, <2>2, <2>3
<1>. QED BY <1>1, <1>2, <1>3, ReactionsNext

\* What the two functions do.
LEMMA FlipAndOneMore ==
  /\ Flip \in [BOOLEAN -> BOOLEAN] /\ \A b \in BOOLEAN : Flip[b] = ~b
  /\ OneMore \in [Int -> Int] /\ \A n \in Int : OneMore[n] = n + 1
BY DEF Flip, OneMore

\* A click that starts a call changes nothing of what is shown.
LEMMA VideoClicked ==
  ASSUME VideoState, ui.known, NEW s, NEW c, Handle(s, <<c>>), IsCall(c), c.ans = Pending,
         c.op \in VideoOps \ {"video"}, DOMAIN s = VideoFields, s.known = ui.known,
         s.liked = ui.liked, s.marked = ui.marked, s.notes = ui.notes
  PROVE  VideoState'
<1>1. Started(VideoOps, s, c)
  BY HandlesOne DEF VideoState
<1>2. /\ Queue(VideoOps)' /\ Len(net') = Len(net) + 1 /\ net'[Len(net) + 1] = c /\ ui' = s /\ srv' = srv
      /\ mishap' = mishap /\ (\A k \in 1..Len(net) : net'[k] = net[k]) /\ Len(net) \in Nat
  BY <1>1 DEF Started
<1>3. \A k \in 1..Len(net') : net'[k].op # "video"
  BY <1>2 DEF VideoState
<1>4. ASSUME ~mishap' PROVE VideoShows(net', s, srv)
  <2>1. VideoShows(net, ui, srv)
    BY <1>2, <1>4 DEF VideoState
  <2>2. Leads(net', "videoLike", Flip, BOOLEAN, ui.liked, srv.liked)
    BY <1>2, <2>1, LeadsGrow DEF VideoShows
  <2>3. ShowsLast(net', "videoMark", ui.marked, srv.marked)
    BY <1>2, <2>1, ShowsGrow DEF VideoShows
  <2>4. Leads(net', "videoNote", OneMore, Int, ui.notes, srv.notes)
    BY <1>2, <2>1, LeadsGrow DEF VideoShows
  <2>. QED BY <2>2, <2>3, <2>4 DEF VideoShows
<1>5. ui.known \in BOOLEAN /\ srv \in VideoHeld
  BY DEF VideoState
<1>. QED BY <1>2, <1>3, <1>4, <1>5 DEF VideoState

\* The service does what it is asked, to the like, the bookmark or the comments.
LEMMA VideoServes ==
  ASSUME VideoState, NEW i \in 1..Len(net), net[i].op # "video", NEW v, NEW s, Reply(i, v, s), s \in VideoHeld,
         s.liked = IF net[i].op = "videoLike" THEN ~srv.liked ELSE srv.liked,
         s.marked = IF net[i].op = "videoMark" THEN ~srv.marked ELSE srv.marked,
         s.notes = IF net[i].op = "videoNote" THEN srv.notes + 1 ELSE srv.notes,
         net[i].op = "videoMark" => v = s.marked
  PROVE  VideoState'
<1>1. Replied(VideoOps, i, v, s)
  BY Replies DEF VideoState
<1>2. /\ Queue(VideoOps)' /\ Len(net') = Len(net) /\ Len(net) \in Nat /\ ui' = ui /\ srv' = s
      /\ \A k \in 1..Len(net) : net'[k].op = net[k].op /\ (k # i => net'[k] = net[k])
      /\ net'[i].ans # Pending /\ (mishap => mishap')
      /\ ~mishap' => net'[i].ans = Ok(v) /\ \A k \in i..Len(net) : net[k].ans = Pending
  BY <1>1 DEF Replied
<1>3. ui.known /\ ui.known \in BOOLEAN
  BY DEF VideoState
<1>4. \A k \in 1..Len(net') : net'[k].op # "video"
  BY <1>2, <1>3 DEF VideoState
<1>5. ASSUME ~mishap' PROVE VideoShows(net', ui, s)
  <2>1. VideoShows(net, ui, srv) /\ \A k \in i..Len(net) : net[k].ans = Pending
    BY <1>2, <1>3, <1>5 DEF VideoState
  <2>0. IsAnswered(net, net', i)
    BY <1>1, <1>5, AnswersOldest
  <2>2. srv.liked \in BOOLEAN /\ srv.notes \in Int
    BY DEF VideoState, VideoHeld
  <2>3. Leads(net', "videoLike", Flip, BOOLEAN, ui.liked, s.liked)
    <3>0. Flip \in [BOOLEAN -> BOOLEAN]
      BY FlipAndOneMore
    <3>1. Leads(net, "videoLike", Flip, BOOLEAN, ui.liked, srv.liked)
      BY <2>1 DEF VideoShows
    <3>2. /\ net[i].op = "videoLike" => Leads(net', "videoLike", Flip, BOOLEAN, ui.liked, Flip[srv.liked])
          /\ net[i].op # "videoLike" => Leads(net', "videoLike", Flip, BOOLEAN, ui.liked, srv.liked)
      BY <3>0, <3>1, <2>0, LeadsAnswered
    <3>3. Flip[srv.liked] = ~srv.liked
      BY <2>2, FlipAndOneMore
    <3>4. CASE net[i].op = "videoLike"
      BY <3>2, <3>3, <3>4
    <3>5. CASE net[i].op # "videoLike"
      BY <3>2, <3>5
    <3>. QED BY <3>4, <3>5
  <2>4. ShowsLast(net', "videoMark", ui.marked, s.marked)
    <3>1. CASE net[i].op = "videoMark"
      BY <3>1, <1>2, <1>5, ShowsAnswered
    <3>2. CASE net[i].op # "videoMark"
      <4>1. ShowsLast(net, "videoMark", ui.marked, srv.marked)
        BY <2>1 DEF VideoShows
      <4>. QED BY <4>1, <3>2, <1>2, ShowsOther
    <3>. QED BY <3>1, <3>2
  <2>5. Leads(net', "videoNote", OneMore, Int, ui.notes, s.notes)
    <3>0. OneMore \in [Int -> Int]
      BY FlipAndOneMore
    <3>1. Leads(net, "videoNote", OneMore, Int, ui.notes, srv.notes)
      BY <2>1 DEF VideoShows
    <3>2. /\ net[i].op = "videoNote" => Leads(net', "videoNote", OneMore, Int, ui.notes, OneMore[srv.notes])
          /\ net[i].op # "videoNote" => Leads(net', "videoNote", OneMore, Int, ui.notes, srv.notes)
      BY <3>0, <3>1, <2>0, LeadsAnswered
    <3>3. OneMore[srv.notes] = srv.notes + 1
      BY <2>2, FlipAndOneMore
    <3>4. CASE net[i].op = "videoNote"
      BY <3>2, <3>3, <3>4
    <3>5. CASE net[i].op # "videoNote"
      BY <3>2, <3>5
    <3>. QED BY <3>4, <3>5
  <2>. QED BY <2>3, <2>4, <2>5 DEF VideoShows
<1>6. DOMAIN ui = VideoFields
  BY DEF VideoState
<1>. QED BY <1>2, <1>3, <1>4, <1>5, <1>6 DEF VideoState

\* The page does what was answered.
LEMMA VideoFollows ==
  ASSUME VideoState, NEW i \in 1..Len(net), net[i].op # "video", net[i].ans # Pending, NEW s,
         Settle(i, s, << >>), DOMAIN s = VideoFields, s.known = ui.known,
         IsOk(i) =>
           /\ s.liked = IF net[i].op = "videoLike" THEN ~ui.liked ELSE ui.liked
           /\ s.marked = IF net[i].op = "videoMark" THEN Data(i) ELSE ui.marked
           /\ s.notes = IF net[i].op = "videoNote" THEN ui.notes + 1 ELSE ui.notes
  PROVE  VideoState'
<1>1. Settled(VideoOps, i, s)
  BY SettlesNone DEF VideoState
<1>2. /\ Queue(VideoOps)' /\ Len(net') = Len(net) - 1 /\ Len(net) \in Nat /\ ui' = s /\ srv' = srv
      /\ \A k \in 1..Len(net') : net'[k] = net[IF k < i THEN k ELSE k + 1]
      /\ (mishap => mishap') /\ (~mishap' => i = 1 /\ IsOk(1))
  BY <1>1 DEF Settled
<1>3. ui.known /\ ui.known \in BOOLEAN /\ srv \in VideoHeld
  BY DEF VideoState
<1>4. \A k \in 1..Len(net') : net'[k].op # "video"
  <2>1. \A k \in 1..Len(net') : (IF k < i THEN k ELSE k + 1) \in 1..Len(net)
    BY <1>2
  <2>. QED BY <1>2, <1>3, <2>1 DEF VideoState
<1>5. ASSUME ~mishap' PROVE VideoShows(net', s, srv)
  <2>1. VideoShows(net, ui, srv) /\ i = 1 /\ IsOk(i) /\ Len(net) > 0 /\ net[1].ans # Pending
    BY <1>2, <1>3, <1>5 DEF VideoState
  <2>2. \A k \in 1..Len(net') : net'[k] = net[k + 1]
    BY <1>2, <2>1
  <2>3. Leads(net', "videoLike", Flip, BOOLEAN, s.liked, srv.liked)
    <3>1. Leads(net, "videoLike", Flip, BOOLEAN, ui.liked, srv.liked)
      BY <2>1 DEF VideoShows
    <3>2. /\ net[1].op = "videoLike" => Leads(net', "videoLike", Flip, BOOLEAN, Flip[ui.liked], srv.liked)
          /\ net[1].op # "videoLike" => Leads(net', "videoLike", Flip, BOOLEAN, ui.liked, srv.liked)
      BY <3>1, <2>1, <2>2, <1>2, LeadsLeft
    <3>3. ui.liked \in BOOLEAN
      BY <3>1 DEF Leads
    <3>4. Flip[ui.liked] = ~ui.liked
      BY <3>3, FlipAndOneMore
    <3>5. CASE net[i].op = "videoLike"
      BY <3>2, <3>4, <3>5, <2>1
    <3>6. CASE net[i].op # "videoLike"
      BY <3>2, <3>6, <2>1
    <3>. QED BY <3>5, <3>6
  <2>4. ShowsLast(net', "videoMark", s.marked, srv.marked)
    <3>1. ShowsLast(net, "videoMark", ui.marked, srv.marked)
      BY <2>1 DEF VideoShows
    <3>2. /\ net[1].op # "videoMark" => s.marked = ui.marked
          /\ net[1].op = "videoMark" => s.marked = net[1].ans.data
      BY <2>1 DEF Data
    <3>. QED BY <3>1, <3>2, <2>1, <2>2, <1>2, ShowsLeft
  <2>5. Leads(net', "videoNote", OneMore, Int, s.notes, srv.notes)
    <3>1. Leads(net, "videoNote", OneMore, Int, ui.notes, srv.notes)
      BY <2>1 DEF VideoShows
    <3>2. /\ net[1].op = "videoNote" => Leads(net', "videoNote", OneMore, Int, OneMore[ui.notes], srv.notes)
          /\ net[1].op # "videoNote" => Leads(net', "videoNote", OneMore, Int, ui.notes, srv.notes)
      BY <3>1, <2>1, <2>2, <1>2, LeadsLeft
    <3>3. ui.notes \in Int
      BY <3>1 DEF Leads
    <3>4. OneMore[ui.notes] = ui.notes + 1
      BY <3>3, FlipAndOneMore
    <3>5. CASE net[i].op = "videoNote"
      BY <3>2, <3>4, <3>5, <2>1
    <3>6. CASE net[i].op # "videoNote"
      BY <3>2, <3>6, <2>1
    <3>. QED BY <3>5, <3>6
  <2>. QED BY <2>3, <2>4, <2>5 DEF VideoShows
<1>. QED BY <1>2, <1>3, <1>4, <1>5 DEF VideoState

\* Every step of the page keeps it.
LEMMA VideoSteps ==
  ASSUME page = "video", VideoState, Next PROVE VideoState'
<1>. Queue(VideoOps) /\ Len(net) \in Nat
  BY DEF VideoState, Queue, Calls
<1>0. DOMAIN ui = VideoFields /\ ui.known \in BOOLEAN /\ srv \in VideoHeld
  BY DEF VideoState
<1>1. CASE HandleVideoLike
  <2>. DEFINE s == [ui EXCEPT !.liking = TRUE]
              c == Request("videoLike", 0)
  <2>1. Handle(s, <<c>>) /\ ui.known
    BY <1>1 DEF HandleVideoLike
  <2>2. /\ DOMAIN s = VideoFields /\ s.known = ui.known /\ s.liked = ui.liked /\ s.marked = ui.marked
        /\ s.notes = ui.notes
    BY <1>0 DEF VideoFields
  <2>3. IsCall(c) /\ c.op \in VideoOps \ {"video"} /\ c.ans = Pending
    BY NewCalls DEF VideoOps
  <2>. HIDE DEF s, c
  <2>. QED BY <2>1, <2>2, <2>3, VideoClicked
<1>2. CASE HandleVideoMark
  <2>. DEFINE s == [ui EXCEPT !.marking = TRUE]
              c == Request("videoMark", 0)
  <2>1. Handle(s, <<c>>) /\ ui.known
    BY <1>2 DEF HandleVideoMark
  <2>2. /\ DOMAIN s = VideoFields /\ s.known = ui.known /\ s.liked = ui.liked /\ s.marked = ui.marked
        /\ s.notes = ui.notes
    BY <1>0 DEF VideoFields
  <2>3. IsCall(c) /\ c.op \in VideoOps \ {"video"} /\ c.ans = Pending
    BY NewCalls DEF VideoOps
  <2>. HIDE DEF s, c
  <2>. QED BY <2>1, <2>2, <2>3, VideoClicked
<1>3. CASE HandleVideoNote
  <2>. DEFINE c == Request("videoNote", 0)
  <2>1. Handle(ui, <<c>>) /\ ui.known
    BY <1>3 DEF HandleVideoNote
  <2>2. IsCall(c) /\ c.op \in VideoOps \ {"video"} /\ c.ans = Pending
    BY NewCalls DEF VideoOps
  <2>. HIDE DEF c
  <2>. QED BY <1>0, <2>1, <2>2, VideoClicked
<1>4. CASE TypeVideoNote
  <2>. DEFINE s == [ui EXCEPT !.draft = TRUE]
  <2>1. Update(s) /\ ui.known
    BY <1>4 DEF TypeVideoNote
  <2>2. /\ DOMAIN s = VideoFields /\ s.known = ui.known /\ s.liked = ui.liked /\ s.marked = ui.marked
        /\ s.notes = ui.notes
    BY <1>0 DEF VideoFields
  <2>. HIDE DEF s
  <2>3. Updated(VideoOps, s)
    BY <2>1, HandlesNone
  <2>4. Queue(VideoOps)' /\ net' = net /\ ui' = s /\ srv' = srv /\ mishap' = mishap
    BY <2>3 DEF Updated
  <2>5. VideoShows(net, ui, srv) => VideoShows(net, s, srv)
    BY <2>2 DEF VideoShows
  <2>. QED BY <1>0, <2>1, <2>2, <2>4, <2>5 DEF VideoState
<1>5. ASSUME NEW i \in 1..Len(net), VideoServed(i) PROVE VideoState'
  <2>1. Reply(i, srv, srv) /\ net[i].op = "video"
    BY <1>5 DEF VideoServed, Asked
  <2>2. Replied(VideoOps, i, srv, srv)
    BY <2>1, Replies
  <2>3. ~ui.known /\ Len(net) <= 1 /\ \A k \in 1..Len(net) : net[k].op = "video" /\ k = i
    BY <2>1 DEF VideoState
  <2>4. /\ Queue(VideoOps)' /\ Len(net') = Len(net) /\ ui' = ui /\ srv' = srv
        /\ net'[i].op = "video" /\ (~mishap' => net'[i].ans = Ok(srv))
    BY <2>1, <2>2 DEF Replied
  <2>5. \A k \in 1..Len(net') : net'[k].op = "video" /\ (~mishap' => net'[k].ans = Ok(srv))
    BY <2>3, <2>4
  <2>. QED BY <1>0, <2>3, <2>4, <2>5 DEF VideoState
<1>6. ASSUME NEW i \in 1..Len(net), VideoActServed(i) PROVE VideoState'
  <2>0. srv.liked \in BOOLEAN /\ srv.marked \in BOOLEAN /\ srv.notes \in Int
    BY <1>0 DEF VideoHeld
  <2>1. CASE net[i].op = "videoLike"
    <3>. DEFINE s == [srv EXCEPT !.liked = ~@]
    <3>1. Reply(i, ~srv.liked, s)
      BY <1>6, <2>1 DEF VideoActServed, Asked
    <3>2. s \in VideoHeld /\ s.liked = ~srv.liked /\ s.marked = srv.marked /\ s.notes = srv.notes
      BY <1>0 DEF VideoHeld
    <3>. HIDE DEF s
    <3>. QED BY <2>1, <3>1, <3>2, VideoServes
  <2>2. CASE net[i].op = "videoMark"
    <3>. DEFINE s == [srv EXCEPT !.marked = ~@]
    <3>1. Reply(i, ~srv.marked, s)
      BY <1>6, <2>2 DEF VideoActServed, Asked
    <3>2. s \in VideoHeld /\ s.liked = srv.liked /\ s.marked = ~srv.marked /\ s.notes = srv.notes
      BY <1>0 DEF VideoHeld
    <3>. HIDE DEF s
    <3>. QED BY <2>2, <3>1, <3>2, VideoServes
  <2>3. CASE net[i].op = "videoNote"
    <3>. DEFINE s == [srv EXCEPT !.notes = @ + 1]
    <3>1. Reply(i, TRUE, s)
      BY <1>6, <2>3 DEF VideoActServed, Asked
    <3>2. s \in VideoHeld /\ s.liked = srv.liked /\ s.marked = srv.marked /\ s.notes = srv.notes + 1
      BY <1>0 DEF VideoHeld
    <3>. HIDE DEF s
    <3>. QED BY <2>3, <3>1, <3>2, VideoServes
  <2>. QED BY <1>6, <2>1, <2>2, <2>3 DEF VideoActServed, Asked
<1>7. ASSUME NEW i \in 1..Len(net), VideoLoaded(i) PROVE VideoState'
  <2>. DEFINE s == IF IsOk(i)
                   THEN [ui EXCEPT !.loading = FALSE, !.known = TRUE, !.liked = Data(i).liked,
                                   !.marked = Data(i).marked, !.notes = Data(i).notes]
                   ELSE [ui EXCEPT !.loading = FALSE]
  <2>1. Settle(i, s, << >>) /\ net[i].op = "video" /\ net[i].ans # Pending
    BY <1>7 DEF VideoLoaded, Answered
  <2>2. ~ui.known /\ Len(net) = 1 /\ i = 1
    <3>. HIDE DEF s
    <3>1. ~ui.known /\ Len(net) <= 1
      BY <2>1 DEF VideoState
    <3>2. Len(net) \in Nat
      BY DEF VideoState, Queue, Calls
    <3>3. i \in Nat /\ 1 <= i /\ i <= Len(net)
      BY <3>2
    <3>. QED BY <3>1, <3>2, <3>3
  <2>3. /\ DOMAIN s = VideoFields /\ s.known \in BOOLEAN /\ (s.known <=> IsOk(i))
        /\ IsOk(i) => s.liked = Data(i).liked /\ s.marked = Data(i).marked /\ s.notes = Data(i).notes
    <3>1. CASE IsOk(i)
      BY <3>1, <1>0 DEF VideoFields
    <3>2. CASE ~IsOk(i)
      <4>1. s.known = ui.known /\ DOMAIN s = VideoFields
        BY <3>2, <1>0 DEF VideoFields
      <4>. QED BY <4>1, <3>2, <2>2, <1>0
    <3>. QED BY <3>1, <3>2
  <2>. HIDE DEF s
  <2>4. Settled(VideoOps, i, s)
    BY <2>1, SettlesNone
  <2>5. /\ Queue(VideoOps)' /\ Len(net') = 0 /\ ui' = s /\ srv' = srv /\ (mishap => mishap')
        /\ ~mishap' => IsOk(i)
    BY <2>2, <2>4 DEF Settled
  <2>6. ASSUME ~mishap' PROVE VideoShows(net', s, srv)
    <3>1. net[i].ans = Ok(srv)
      BY <2>1, <2>2, <2>5, <2>6 DEF VideoState
    <3>2. s.liked = srv.liked /\ s.marked = srv.marked /\ s.notes = srv.notes
      BY <2>3, <2>5, <2>6, <3>1 DEF Data, Ok
    <3>3. srv.liked \in BOOLEAN /\ srv.notes \in Int
      BY <1>0 DEF VideoHeld
    <3>4. Leads(net', "videoLike", Flip, BOOLEAN, srv.liked, srv.liked)
      BY <2>5, <3>3, NothingDone
    <3>5. ShowsLast(net', "videoMark", srv.marked, srv.marked)
      BY <2>5, NothingAnswered
    <3>6. Leads(net', "videoNote", OneMore, Int, srv.notes, srv.notes)
      BY <2>5, <3>3, NothingDone
    <3>. QED BY <3>2, <3>4, <3>5, <3>6 DEF VideoShows
  <2>7. 1..Len(net') = {}
    BY <2>5
  <2>. QED BY <1>0, <2>3, <2>5, <2>6, <2>7 DEF VideoState
<1>8. ASSUME NEW i \in 1..Len(net), VideoActDone(i) PROVE VideoState'
  <2>. DEFINE like == [ui EXCEPT !.liking = FALSE, !.liked = IF IsOk(i) THEN ~@ ELSE @]
              mark == [ui EXCEPT !.marking = FALSE, !.marked = IF IsOk(i) THEN Data(i) ELSE @]
              note == IF IsOk(i) THEN [ui EXCEPT !.notes = @ + 1, !.draft = FALSE] ELSE ui
  <2>1. /\ net[i].ans # Pending
        /\ \/ net[i].op = "videoLike" /\ Settle(i, like, << >>)
           \/ net[i].op = "videoMark" /\ Settle(i, mark, << >>)
           \/ net[i].op = "videoNote" /\ Settle(i, note, << >>)
    BY <1>8 DEF VideoActDone, Answered
  <2>2. /\ DOMAIN like = VideoFields /\ like.known = ui.known
        /\ IsOk(i) => like.liked = ~ui.liked /\ like.marked = ui.marked /\ like.notes = ui.notes
    BY <1>0 DEF VideoFields
  <2>3. /\ DOMAIN mark = VideoFields /\ mark.known = ui.known
        /\ IsOk(i) => mark.liked = ui.liked /\ mark.marked = Data(i) /\ mark.notes = ui.notes
    BY <1>0 DEF VideoFields
  <2>4. /\ DOMAIN note = VideoFields /\ note.known = ui.known
        /\ IsOk(i) => note.liked = ui.liked /\ note.marked = ui.marked /\ note.notes = ui.notes + 1
    BY <1>0 DEF VideoFields
  <2>. HIDE DEF like, mark, note
  <2>5. CASE net[i].op = "videoLike"
    BY <2>1, <2>2, <2>5, VideoFollows
  <2>6. CASE net[i].op = "videoMark"
    BY <2>1, <2>3, <2>6, VideoFollows
  <2>7. CASE net[i].op = "videoNote"
    BY <2>1, <2>4, <2>7, VideoFollows
  <2>. QED BY <2>1, <2>5, <2>6, <2>7
<1>9. ASSUME NEW i \in 1..Len(net), Deny(i) PROVE VideoState'
  <2>1. Denied(VideoOps, i)
    BY <1>9, Denies
  <2>2. /\ Queue(VideoOps)' /\ Len(net') = Len(net) /\ ui' = ui /\ srv' = srv /\ mishap'
        /\ \A k \in 1..Len(net) : net'[k].op = net[k].op
    BY <2>1 DEF Denied
  <2>. QED BY <1>0, <2>2 DEF VideoState
<1>. QED BY <1>1, <1>2, <1>3, <1>4, <1>5, <1>6, <1>7, <1>8, <1>9, VideoActions DEF VideoState

\* The video page agrees with the service (WebReactions.VideoIsCurrent): the
\* likes and comments answered but not settled lead from what is shown to what
\* the service holds, and the last bookmark answered is the one held.
THEOREM VideoStaysCurrent == Spec => []VideoIsCurrent
<1>. DEFINE Inv == page = "video" => VideoState
<1>1. Init => Inv
  BY Mounts, VideoStarts
<1>2. Inv /\ [Next]_vars => Inv'
  <2>1. CASE Next
    BY <2>1, PageStays, VideoSteps
  <2>2. CASE UNCHANGED vars
    BY <2>2 DEF vars, VideoState, Queue, Calls, InOrder
  <2>. QED BY <2>1, <2>2
<1>3. Inv => VideoIsCurrent
  <2>. SUFFICES ASSUME VideoState, ui.known, Quiet, ~mishap
                PROVE  [liked |-> ui.liked, marked |-> ui.marked, notes |-> ui.notes] = srv
    BY DEF VideoIsCurrent
  <2>1. Len(net) = 0
    BY QuietIsEmpty DEF VideoState
  <2>2. /\ Leads(net, "videoLike", Flip, BOOLEAN, ui.liked, srv.liked)
        /\ ShowsLast(net, "videoMark", ui.marked, srv.marked)
        /\ Leads(net, "videoNote", OneMore, Int, ui.notes, srv.notes)
    BY DEF VideoState, VideoShows
  <2>3. ui.liked = srv.liked
    BY <2>1, <2>2, NothingDone
  <2>4. ui.marked = srv.marked
    BY <2>1, <2>2, NothingAnswered
  <2>5. ui.notes = srv.notes
    BY <2>1, <2>2, NothingDone
  <2>6. srv = [liked |-> srv.liked, marked |-> srv.marked, notes |-> srv.notes]
    BY DEF VideoState, VideoHeld
  <2>. QED BY <2>3, <2>4, <2>5, <2>6
<1>. QED BY <1>1, <1>2, <1>3, PTL DEF Spec
------------------------------------------------------------------------------
(***************************************************************************)
(* The tiers of a space.                                                   *)
(***************************************************************************)
TierOps    == {"getSub", "cancelSub", "subscribe"}
TierFields == {"loading", "sub", "subscribing"}

\* Call c has an answer that will be shown.
Brings(c) == c.op = "getSub" /\ c.ans # Pending /\ c.ans.data # None

\* When the service holds no tier, nothing is shown, v, and no answer of q
\* brings a tier, or a cancellation is answered and none does after it.
ShowsNoTier(q, v) ==
  \/ v = None /\ \A j \in 1..Len(q) : ~Brings(q[j])
  \/ \E k \in 1..Len(q) : /\ q[k].op = "cancelSub" /\ q[k].ans # Pending
                          /\ \A j \in (k + 1)..Len(q) : ~Brings(q[j])

\* Tier v is shown while the service holds the tiers s: with no call it is the
\* newest, and the youngest call, once answered, brings it.
ShowsTier(q, v, s) ==
  /\ Len(q) = 0 => v = Subscribed(s)
  /\ Len(q) > 0 /\ q[Len(q)].ans # Pending =>
       /\ q[Len(q)].op = "getSub" => q[Len(q)].ans = Ok(Subscribed(s))
       /\ q[Len(q)].op = "cancelSub" => s = << >>
  /\ s = << >> => ShowsNoTier(q, v)

TierState ==
  /\ Queue(TierOps)
  /\ DOMAIN ui = TierFields
  /\ srv \in Seq(TierIds)
  /\ \A k \in 1..Len(net) : net[k].op = "subscribe" => net[k].arg \in TierIds
  /\ ~mishap => ShowsTier(net, ui.sub, srv)

\* There is a tier shown exactly when the service holds one.
LEMMA NewestTier ==
  /\ Subscribed(<< >>) = None
  /\ \A s \in Seq(TierIds) : s # << >> => Subscribed(s) # None
<1>1. None \notin TierIds
  BY DEF None, TierIds
<1>2. ASSUME NEW s \in Seq(TierIds), s # << >> PROVE s[Len(s)] \in TierIds
  BY <1>2
<1>. QED BY <1>1, <1>2 DEF Subscribed, Last

\* A call is made behind the calls of q.
LEMMA TierGrows ==
  ASSUME NEW q, Len(q) \in Nat, NEW t, Len(t) = Len(q) + 1, \A k \in 1..Len(q) : t[k] = q[k],
         t[Len(q) + 1].ans = Pending, NEW v, NEW s, ShowsTier(q, v, s)
  PROVE  ShowsTier(t, v, s)
<1>. DEFINE n == Len(q) + 1
<1>1. \A k \in 1..Len(t) : k \in 1..Len(q) \/ k = n
  OBVIOUS
<1>2. \A k \in 1..Len(q) : k \in 1..Len(t) /\ t[k] = q[k]
  OBVIOUS
<1>3. ~Brings(t[n]) /\ t[Len(t)].ans = Pending /\ Len(t) # 0
  BY DEF Brings
<1>4. ASSUME s = << >> PROVE ShowsNoTier(t, v)
  <2>. HIDE DEF n
  <2>1. CASE v = None /\ \A j \in 1..Len(q) : ~Brings(q[j])
    BY <2>1, <1>1, <1>2, <1>3 DEF ShowsNoTier
  <2>2. ASSUME NEW k \in 1..Len(q), q[k].op = "cancelSub", q[k].ans # Pending,
               \A j \in (k + 1)..Len(q) : ~Brings(q[j])
        PROVE  ShowsNoTier(t, v)
    <3>1. \A j \in (k + 1)..Len(t) : j \in (k + 1)..Len(q) \/ j = n
      BY DEF n
    <3>2. \A j \in (k + 1)..Len(q) : t[j] = q[j]
      OBVIOUS
    <3>3. \A j \in (k + 1)..Len(t) : ~Brings(t[j])
      BY <2>2, <3>1, <3>2, <1>3
    <3>. QED BY <2>2, <3>3, <1>2 DEF ShowsNoTier
  <2>. QED BY <2>1, <2>2, <1>4 DEF ShowsTier, ShowsNoTier
<1>. QED BY <1>3, <1>4 DEF ShowsTier

\* The oldest pending call is answered and the service holds s of then on.
LEMMA TierAnswered ==
  ASSUME NEW q, NEW t, NEW i, IsAnswered(q, t, i), NEW v, NEW r, NEW s, ShowsTier(q, v, r),
         q[i].op = "getSub" => s = r /\ t[i].ans = Ok(Subscribed(s)),
         q[i].op = "cancelSub" => s = << >>,
         q[i].op \notin {"getSub", "cancelSub"} => s # << >>
  PROVE  ShowsTier(t, v, s)
<1>0. /\ Len(q) \in Nat /\ Len(t) = Len(q) /\ i \in 1..Len(q)
      /\ \A k \in 1..Len(q) : t[k].op = q[k].op /\ (k # i => t[k] = q[k])
      /\ (\A k \in i..Len(q) : q[k].ans = Pending) /\ t[i].ans # Pending
  BY DEF IsAnswered
<1>1. ASSUME t[Len(t)].ans # Pending
      PROVE  /\ t[Len(t)].op = "getSub" => t[Len(t)].ans = Ok(Subscribed(s))
             /\ t[Len(t)].op = "cancelSub" => s = << >>
  <2>1. Len(q) \in i..Len(q) /\ Len(q) \in 1..Len(q)
    BY <1>0
  <2>2. i = Len(q)
    BY <2>1, <1>0, <1>1
  <2>. QED BY <2>2, <1>0
<1>2. ASSUME s = << >> PROVE ShowsNoTier(t, v)
  <2>1. \A j \in (i + 1)..Len(t) : j \in i..Len(q) /\ j \in 1..Len(q) /\ j # i
    BY <1>0
  <2>2. \A j \in (i + 1)..Len(t) : ~Brings(t[j])
    BY <2>1, <1>0 DEF Brings
  <2>3. CASE q[i].op = "cancelSub"
    BY <2>2, <2>3, <1>0 DEF ShowsNoTier
  <2>4. CASE q[i].op # "cancelSub"
    <3>1. q[i].op = "getSub" /\ r = << >>
      BY <2>4, <1>2
    <3>2. ~Brings(t[i])
      BY <3>1, <1>2, NewestTier DEF Brings, Ok
    <3>3. \A j \in 1..Len(t) : ~Brings(q[j]) => ~Brings(t[j])
      BY <3>2, <1>0
    <3>4. CASE v = None /\ \A j \in 1..Len(q) : ~Brings(q[j])
      BY <3>4, <3>3, <1>0 DEF ShowsNoTier
    <3>5. ASSUME NEW k \in 1..Len(q), q[k].op = "cancelSub", q[k].ans # Pending,
                 \A j \in (k + 1)..Len(q) : ~Brings(q[j])
          PROVE  ShowsNoTier(t, v)
      <4>1. k # i /\ k \in 1..Len(t) /\ t[k] = q[k]
        BY <3>1, <3>5, <1>0
      <4>2. \A j \in (k + 1)..Len(t) : j \in (k + 1)..Len(q) /\ j \in 1..Len(t)
        BY <1>0
      <4>. QED BY <3>3, <3>5, <4>1, <4>2 DEF ShowsNoTier
    <3>. QED BY <3>1, <3>4, <3>5 DEF ShowsTier, ShowsNoTier
  <2>. QED BY <2>3, <2>4
<1>3. Len(t) # 0
  BY <1>0
<1>. QED BY <1>1, <1>2, <1>3 DEF ShowsTier

\* An empty queue has no place.
LEMMA NoPlace ==
  ASSUME NEW n, n = 0 PROVE 1..n = {}
OBVIOUS

\* The oldest call is answered and settled, and w is shown.
LEMMA TierLeft ==
  ASSUME NEW q, Len(q) \in Nat, Len(q) > 0, NEW t, Len(t) = Len(q) - 1,
         \A k \in 1..Len(t) : t[k] = q[k + 1], q[1].ans # Pending,
         NEW v, NEW s \in Seq(TierIds), ShowsTier(q, v, s), NEW w,
         \/ q[1].op = "getSub" /\ w = IF q[1].ans.data # None THEN q[1].ans.data ELSE v
         \/ q[1].op = "cancelSub" /\ w = None
  PROVE  ShowsTier(t, w, s)
<1>1. \A k \in 1..Len(t) : k + 1 \in 1..Len(q) /\ t[k] = q[k + 1]
  OBVIOUS
<1>2. ASSUME s = << >> PROVE ShowsNoTier(t, w)
  <2>1. CASE v = None /\ \A j \in 1..Len(q) : ~Brings(q[j])
    <3>1. ~Brings(q[1])
      BY <2>1
    <3>2. w = None
      BY <2>1, <3>1 DEF Brings
    <3>. QED BY <3>2, <2>1, <1>1 DEF ShowsNoTier
  <2>2. ASSUME NEW k \in 1..Len(q), q[k].op = "cancelSub", q[k].ans # Pending,
               \A j \in (k + 1)..Len(q) : ~Brings(q[j])
        PROVE  ShowsNoTier(t, w)
    <3>1. CASE k = 1
      <4>1. \A j \in 1..Len(t) : j + 1 \in (k + 1)..Len(q)
        BY <3>1
      <4>2. w = None
        BY <2>2, <3>1
      <4>. QED BY <4>1, <4>2, <2>2, <1>1 DEF ShowsNoTier
    <3>2. CASE k # 1
      <4>. DEFINE h == k - 1
      <4>1. h \in 1..Len(t) /\ t[h] = q[k]
        BY <3>2
      <4>2. \A j \in (h + 1)..Len(t) : j + 1 \in (k + 1)..Len(q) /\ t[j] = q[j + 1]
        BY <3>2
      <4>. HIDE DEF h
      <4>3. \A j \in (h + 1)..Len(t) : ~Brings(t[j])
        BY <4>2, <2>2
      <4>. QED BY <4>1, <4>3, <2>2 DEF ShowsNoTier
    <3>. QED BY <3>1, <3>2
  <2>. QED BY <2>1, <2>2, <1>2 DEF ShowsTier, ShowsNoTier
<1>3. ASSUME Len(t) = 0 PROVE w = Subscribed(s)
  <2>1. Len(q) = 1
    BY <1>3
  <2>2. CASE s = << >>
    <3>1. 1..Len(t) = {}
      BY <1>3, NoPlace
    <3>. QED BY <2>2, <3>1, <1>2, NewestTier DEF ShowsNoTier
  <2>3. CASE s # << >>
    <3>1. q[1].op = "getSub" /\ q[1].ans = Ok(Subscribed(s))
      BY <2>1, <2>3 DEF ShowsTier
    <3>. QED BY <3>1, <2>3, NewestTier DEF Ok
  <2>. QED BY <2>2, <2>3
<1>4. ASSUME Len(t) > 0 PROVE t[Len(t)] = q[Len(q)]
  BY <1>1, <1>4
<1>. QED BY <1>2, <1>3, <1>4 DEF ShowsTier

\* A subscription is settled, and the subscription is asked for behind the calls.
LEMMA TierMoved ==
  ASSUME NEW q, Len(q) \in Nat, Len(q) > 0, NEW t, Len(t) = Len(q),
         \A k \in 1..(Len(q) - 1) : t[k] = q[k + 1], t[Len(q)].ans = Pending,
         q[1].op = "subscribe", NEW v, NEW s, ShowsTier(q, v, s)
  PROVE  ShowsTier(t, v, s)
<1>1. ~Brings(t[Len(t)])
  BY DEF Brings
<1>2. ASSUME s = << >> PROVE ShowsNoTier(t, v)
  <2>1. \A j \in 1..Len(t) : j = Len(t) \/ (j + 1 \in 1..Len(q) /\ t[j] = q[j + 1])
    OBVIOUS
  <2>2. CASE v = None /\ \A j \in 1..Len(q) : ~Brings(q[j])
    BY <2>1, <2>2, <1>1 DEF ShowsNoTier
  <2>3. ASSUME NEW k \in 1..Len(q), q[k].op = "cancelSub", q[k].ans # Pending,
               \A j \in (k + 1)..Len(q) : ~Brings(q[j])
        PROVE  ShowsNoTier(t, v)
    <3>1. k # 1
      BY <2>3
    <3>. DEFINE h == k - 1
    <3>2. h \in 1..Len(t) /\ t[h] = q[k]
      BY <3>1
    <3>3. \A j \in (h + 1)..Len(t) : j = Len(t) \/ (j + 1 \in (k + 1)..Len(q) /\ t[j] = q[j + 1])
      BY <3>1
    <3>. HIDE DEF h
    <3>4. \A j \in (h + 1)..Len(t) : ~Brings(t[j])
      BY <3>3, <2>3, <1>1
    <3>. QED BY <3>2, <3>4, <2>3 DEF ShowsNoTier
  <2>. QED BY <2>2, <2>3, <1>2 DEF ShowsTier, ShowsNoTier
<1>. QED BY <1>2 DEF ShowsTier

\* The page is mounted in a state of it.
LEMMA TierStarts ==
  ASSUME TiersInit PROVE TierState
<1>. DEFINE c == GetSubscription("first")
<1>1. IsCall(c) /\ c.op = "getSub" /\ c.op \in TierOps /\ c.ans = Pending
  BY NewCalls DEF TierOps, GetSubscription
<1>2. net = <<c>> /\ mishap = FALSE
  BY DEF TiersInit
<1>. HIDE DEF c
<1>3. Queue(TierOps) /\ Len(net) = 1 /\ net[1] = c
  BY <1>1, <1>2, FirstCall
<1>4. DOMAIN ui = TierFields /\ ui.sub = None
  BY DEF TiersInit, TierFields
<1>5. srv \in Seq(TierIds)
  <2>1. 1 \in TierIds
    BY DEF TierIds
  <2>2. << >> \in Seq(TierIds) /\ <<1>> \in Seq(TierIds)
    BY <2>1
  <2>. QED BY <2>2 DEF TiersInit
<1>6. \A k \in 1..Len(net) : net[k].op = "getSub" /\ net[k].ans = Pending
  BY <1>1, <1>3
<1>7. ShowsTier(net, ui.sub, srv)
  BY <1>3, <1>4, <1>6 DEF ShowsTier, ShowsNoTier, Brings
<1>. QED BY <1>3, <1>4, <1>5, <1>6, <1>7 DEF TierState

\* What can happen on this page.
LEMMA TierActions ==
  ASSUME page = "subscribe", Queue(TierOps), Next
  PROVE  \/ \E t \in TierIds : HandleSubscribe(t)
         \/ \E i \in 1..Len(net) : \/ GetSubServed(i) \/ SubscribeServed(i) \/ Deny(i)
                                   \/ GetSubDone(i) \/ SubscribeDone(i)
<1>1. page \in SpacePages /\ Queue(SpaceOps)
  BY QueueOf DEF SpacePages, TierOps, SpaceOps
<1>2. CASE SpaceUser
  BY <1>2 DEF SpaceUser, SetPostKey, HandleToggle, SpaceShown, HandleJoinSpace, OpenEdit, EditField, CloseEdit,
    HandleSaveSpaceEdit, HandleUploadIcon
<1>3. ASSUME NEW i \in 1..Len(net), SpaceService(i) \/ SpaceThen(i)
      PROVE  GetSubServed(i) \/ SubscribeServed(i) \/ GetSubDone(i) \/ SubscribeDone(i)
  <2>1. net[i].op \in TierOps
    BY DEF Queue, Calls
  <2>. QED BY <1>3, <2>1 DEF TierOps, SpaceService, PostsServed, PostActServed, PostOps, SpaceServed,
         ToggleServed, JoinSpaceServed, UploadServed, SaveSpaceServed, Asked, SpaceThen, PostsFetched,
         PostActDone, SpaceFetched, ToggleDone, JoinSpaceDone, UploadDone, SaveSpaceDone, Answered
<1>. QED BY <1>1, <1>2, <1>3, SpaceNext

\* The service does what it is asked.
LEMMA TierServes ==
  ASSUME TierState, NEW i \in 1..Len(net), NEW v, NEW s \in Seq(TierIds), Reply(i, v, s),
         net[i].op = "getSub" => s = srv /\ v = Subscribed(s),
         net[i].op = "cancelSub" => s = << >>,
         net[i].op \notin {"getSub", "cancelSub"} => s # << >>
  PROVE  TierState'
<1>1. Replied(TierOps, i, v, s)
  BY Replies DEF TierState
<1>2. /\ Queue(TierOps)' /\ Len(net') = Len(net) /\ ui' = ui /\ srv' = s /\ (mishap => mishap')
      /\ \A k \in 1..Len(net) : net'[k].op = net[k].op /\ net'[k].arg = net[k].arg
      /\ ~mishap' => net'[i].ans = Ok(v)
  BY <1>1 DEF Replied
<1>3. ASSUME ~mishap' PROVE ShowsTier(net', ui.sub, s)
  <2>1. IsAnswered(net, net', i)
    BY <1>1, <1>3, AnswersOldest
  <2>2. ShowsTier(net, ui.sub, srv)
    BY <1>2, <1>3 DEF TierState
  <2>3. net[i].op = "getSub" => s = srv /\ net'[i].ans = Ok(Subscribed(s))
    BY <1>2, <1>3
  <2>. QED BY <2>1, <2>2, <2>3, TierAnswered
<1>. QED BY <1>2, <1>3 DEF TierState

\* A continuation ends with what was answered, or with an error.
LEMMA TierFollows ==
  ASSUME TierState, NEW i \in 1..Len(net), net[i].ans # Pending, NEW s, Settle(i, s, << >>),
         DOMAIN s = TierFields,
         IsOk(i) =>
           \/ net[i].op = "getSub" /\ s.sub = IF Data(i) # None THEN Data(i) ELSE ui.sub
           \/ net[i].op = "cancelSub" /\ s.sub = None
  PROVE  TierState'
<1>1. Settled(TierOps, i, s)
  BY SettlesNone DEF TierState
<1>2. /\ Queue(TierOps)' /\ Len(net') = Len(net) - 1 /\ Len(net) \in Nat /\ ui' = s /\ srv' = srv
      /\ \A k \in 1..(Len(net) - 1) : net'[k] = net[IF k < i THEN k ELSE k + 1]
      /\ (mishap => mishap') /\ (~mishap' => i = 1 /\ IsOk(1))
  BY <1>1 DEF Settled
<1>3. \A k \in 1..Len(net') : net'[k].op = "subscribe" => net'[k].arg \in TierIds
  BY <1>2 DEF TierState
<1>4. ASSUME ~mishap' PROVE ShowsTier(net', s.sub, srv)
  <2>1. i = 1 /\ IsOk(1) /\ ShowsTier(net, ui.sub, srv) /\ srv \in Seq(TierIds)
    BY <1>2, <1>4 DEF TierState
  <2>2. /\ Len(net) > 0 /\ net[1].ans # Pending
        /\ \A k \in 1..Len(net') : net'[k] = net[k + 1]
    BY <1>2, <2>1
  <2>3. \/ net[1].op = "getSub" /\ s.sub = IF net[1].ans.data # None THEN net[1].ans.data ELSE ui.sub
        \/ net[1].op = "cancelSub" /\ s.sub = None
    BY <2>1 DEF Data
  <2>. QED BY <1>2, <2>1, <2>2, <2>3, TierLeft
<1>5. srv \in Seq(TierIds)
  BY DEF TierState
<1>. QED BY <1>2, <1>3, <1>4, <1>5 DEF TierState

\* Every step of the page keeps it.
LEMMA TierSteps ==
  ASSUME page = "subscribe", TierState, Next PROVE TierState'
<1>. Queue(TierOps) /\ Len(net) \in Nat
  BY DEF TierState, Queue, Calls
<1>0. DOMAIN ui = TierFields /\ srv \in Seq(TierIds)
  BY DEF TierState
<1>1. ASSUME NEW t \in TierIds, HandleSubscribe(t) PROVE TierState'
  <2>. DEFINE s == [ui EXCEPT !.subscribing = t]
              c == IF ui.sub = t THEN Request("cancelSub", None) ELSE Request("subscribe", t)
  <2>1. Handle(s, <<c>>)
    BY <1>1 DEF HandleSubscribe
  <2>2. DOMAIN s = TierFields /\ s.sub = ui.sub
    BY <1>0 DEF TierFields
  <2>3. IsCall(c) /\ c.op \in TierOps /\ c.ans = Pending /\ (c.op = "subscribe" => c.arg \in TierIds)
    BY NewCalls DEF TierOps, Request
  <2>. HIDE DEF s, c
  <2>4. Started(TierOps, s, c)
    BY <2>1, <2>3, HandlesOne
  <2>5. /\ Queue(TierOps)' /\ Len(net') = Len(net) + 1 /\ ui' = s /\ srv' = srv /\ mishap' = mishap
        /\ (\A k \in 1..Len(net) : net'[k] = net[k]) /\ net'[Len(net) + 1] = c
    BY <2>4 DEF Started
  <2>6. \A k \in 1..Len(net') : net'[k].op = "subscribe" => net'[k].arg \in TierIds
    <3>1. \A k \in 1..Len(net') : k \in 1..Len(net) \/ k = Len(net) + 1
      BY <2>5
    <3>. QED BY <3>1, <2>3, <2>5 DEF TierState
  <2>7. ASSUME ~mishap PROVE ShowsTier(net', s.sub, srv)
    <3>1. ShowsTier(net, ui.sub, srv) /\ net'[Len(net) + 1].ans = Pending
      BY <2>7, <2>3, <2>5 DEF TierState
    <3>2. ShowsTier(net', ui.sub, srv)
      BY <3>1, <2>5, TierGrows
    <3>. QED BY <3>2, <2>2
  <2>. QED BY <1>0, <2>2, <2>5, <2>6, <2>7 DEF TierState
<1>2. ASSUME NEW i \in 1..Len(net), GetSubServed(i) PROVE TierState'
  <2>1. Reply(i, Subscribed(srv), srv) /\ net[i].op = "getSub"
    BY <1>2 DEF GetSubServed, Asked
  <2>. QED BY <2>1, <1>0, TierServes
<1>3. ASSUME NEW i \in 1..Len(net), SubscribeServed(i) PROVE TierState'
  <2>1. CASE Asked(i, {"cancelSub"}) /\ Reply(i, TRUE, << >>)
    <3>1. << >> \in Seq(TierIds) /\ net[i].op = "cancelSub"
      BY <2>1 DEF Asked
    <3>. QED BY <2>1, <3>1, TierServes
  <2>2. CASE net[i].op # "cancelSub"
    <3>. DEFINE t == net[i].arg
                s == IF t \in ToSet(srv) THEN srv ELSE Append(srv, t)
    <3>1. Reply(i, TRUE, s) /\ net[i].op = "subscribe"
      BY <1>3, <2>2 DEF SubscribeServed, Asked
    <3>2. t \in TierIds
      BY <3>1 DEF TierState
    <3>3. s \in Seq(TierIds) /\ s # << >>
      <4>1. CASE t \in ToSet(srv)
        <5>1. srv # << >>
          BY <4>1, <1>0 DEF ToSet
        <5>. QED BY <4>1, <5>1, <1>0
      <4>2. CASE t \notin ToSet(srv)
        BY <4>2, <3>2, <1>0
      <4>. QED BY <4>1, <4>2
    <3>. HIDE DEF s
    <3>. QED BY <3>1, <3>3, TierServes
  <2>. QED BY <1>3, <2>1, <2>2 DEF SubscribeServed, Asked
<1>4. ASSUME NEW i \in 1..Len(net), GetSubDone(i) PROVE TierState'
  <2>. DEFINE s == [ui EXCEPT !.sub = IF IsOk(i) /\ Data(i) # None THEN Data(i) ELSE @,
                              !.loading = FALSE,
                              !.subscribing = IF net[i].arg = "first" THEN @ ELSE None]
  <2>1. Settle(i, s, << >>) /\ net[i].op = "getSub" /\ net[i].ans # Pending
    BY <1>4 DEF GetSubDone, Answered
  <2>2. DOMAIN s = TierFields /\ (IsOk(i) => s.sub = IF Data(i) # None THEN Data(i) ELSE ui.sub)
    BY <1>0 DEF TierFields
  <2>. HIDE DEF s
  <2>. QED BY <2>1, <2>2, TierFollows
<1>5. ASSUME NEW i \in 1..Len(net), SubscribeDone(i) PROVE TierState'
  <2>1. CASE net[i].op = "cancelSub"
    <3>. DEFINE s == [ui EXCEPT !.subscribing = None, !.sub = IF IsOk(i) THEN None ELSE @]
    <3>1. Settle(i, s, << >>) /\ net[i].ans # Pending
      BY <1>5, <2>1 DEF SubscribeDone, Answered
    <3>2. DOMAIN s = TierFields /\ (IsOk(i) => s.sub = None)
      BY <1>0 DEF TierFields
    <3>. HIDE DEF s
    <3>. QED BY <2>1, <3>1, <3>2, TierFollows
  <2>2. CASE net[i].op # "cancelSub" /\ ~IsOk(i)
    <3>. DEFINE s == [ui EXCEPT !.subscribing = None]
    <3>1. Settle(i, s, << >>) /\ net[i].ans # Pending
      BY <1>5, <2>2 DEF SubscribeDone, Answered
    <3>2. DOMAIN s = TierFields
      BY <1>0 DEF TierFields
    <3>. HIDE DEF s
    <3>. QED BY <2>2, <3>1, <3>2, TierFollows
  <2>3. CASE net[i].op # "cancelSub" /\ IsOk(i)
    <3>. DEFINE c == GetSubscription("again")
    <3>1. Settle(i, ui, <<c>>) /\ net[i].op = "subscribe" /\ net[i].ans # Pending
      BY <1>5, <2>3 DEF SubscribeDone, Answered
    <3>2. IsCall(c) /\ c.op = "getSub" /\ c.op \in TierOps /\ c.ans = Pending
      BY NewCalls DEF TierOps, GetSubscription
    <3>. HIDE DEF c
    <3>3. SettledWith(TierOps, i, ui, c)
      BY <3>1, <3>2, SettlesOne
    <3>4. /\ Queue(TierOps)' /\ Len(net') = Len(net) /\ ui' = ui /\ srv' = srv /\ net'[Len(net)] = c
          /\ \A k \in 1..(Len(net) - 1) : net'[k] = net[IF k < i THEN k ELSE k + 1]
          /\ (mishap => mishap') /\ (~mishap' => i = 1)
      BY <3>3 DEF SettledWith
    <3>5. \A k \in 1..Len(net') : net'[k].op = "subscribe" => net'[k].arg \in TierIds
      <4>1. \A k \in 1..Len(net') : k \in 1..(Len(net) - 1) \/ k = Len(net)
        BY <3>4
      <4>2. \A k \in 1..(Len(net) - 1) : (IF k < i THEN k ELSE k + 1) \in 1..Len(net)
        OBVIOUS
      <4>. QED BY <4>1, <4>2, <3>2, <3>4 DEF TierState
    <3>6. ASSUME ~mishap' PROVE ShowsTier(net', ui.sub, srv)
      <4>1. i = 1 /\ ShowsTier(net, ui.sub, srv) /\ net[1].op = "subscribe" /\ Len(net) > 0
        BY <3>1, <3>4, <3>6 DEF TierState
      <4>2. (\A k \in 1..(Len(net) - 1) : net'[k] = net[k + 1]) /\ net'[Len(net)].ans = Pending
        BY <4>1, <3>2, <3>4
      <4>. QED BY <3>4, <4>1, <4>2, TierMoved
    <3>. QED BY <1>0, <3>4, <3>5, <3>6 DEF TierState
  <2>. QED BY <2>1, <2>2, <2>3
<1>6. ASSUME NEW i \in 1..Len(net), Deny(i) PROVE TierState'
  <2>1. Denied(TierOps, i)
    BY <1>6, Denies
  <2>2. /\ Queue(TierOps)' /\ Len(net') = Len(net) /\ ui' = ui /\ srv' = srv /\ mishap'
        /\ \A k \in 1..Len(net) : net'[k].op = net[k].op /\ net'[k].arg = net[k].arg
    BY <2>1 DEF Denied
  <2>. QED BY <1>0, <2>2 DEF TierState
<1>. QED BY <1>1, <1>2, <1>3, <1>4, <1>5, <1>6, TierActions DEF TierState

\* The tier shown as subscribed is the newest the service holds
\* (WebSpace.SubscriptionIsCurrent): only a subscription is taken over from an
\* answer, so that showing none relies on a cancellation that no older answer
\* follows.
THEOREM TiersStayCurrent == Spec => []SubscriptionIsCurrent
<1>. DEFINE Inv == page = "subscribe" => TierState
<1>1. Init => Inv
  BY Mounts, TierStarts
<1>2. Inv /\ [Next]_vars => Inv'
  <2>1. CASE Next
    BY <2>1, PageStays, TierSteps
  <2>2. CASE UNCHANGED vars
    BY <2>2 DEF vars, TierState, Queue, Calls, InOrder
  <2>. QED BY <2>1, <2>2
<1>3. Inv => SubscriptionIsCurrent
  <2>. SUFFICES ASSUME TierState, Quiet, ~mishap PROVE ui.sub = Subscribed(srv)
    BY DEF SubscriptionIsCurrent
  <2>1. Len(net) = 0
    BY QuietIsEmpty DEF TierState
  <2>. QED BY <2>1 DEF TierState, ShowsTier
<1>. QED BY <1>1, <1>2, <1>3, PTL DEF Spec
==============================================================================
