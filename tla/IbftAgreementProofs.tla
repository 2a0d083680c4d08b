------------------------ MODULE IbftAgreementProofs ------------------------
(***************************************************************************)
(* Three validators agree at every height, if none restarts, no write      *)
(* fails and no RoundChange of a later height interferes.                  *)
(*                                                                         *)
(* The argument: a node of three finalizes in a round only when all three  *)
(* voted in that round, and it never votes in a later round of the height. *)
(* So two nodes that finalized a height did so in the same round, and the  *)
(* Commit messages of a round name one block.                              *)
(***************************************************************************)
EXTENDS IbftProofs, FiniteSetTheorems

IsVote(m) == m.type \in {"PrePrepare", "Prepare", "Commit"}

VotedIn(v, h, r, M) ==
    \E m \in M : IsVote(m) /\ m.from = v /\ m.height = h /\ m.round = r

HasCommit(n, h, r, b, M) ==
    \E m \in M : /\ m.type = "Commit" /\ m.from = n
                 /\ m.height = h /\ m.round = r /\ m.block = b

(* The proposer sends no Prepare, and a Commit follows the Prepare of      *)
(* another node.                                                           *)
Sound(m, M) ==
    /\ m.type = "Prepare" => m.from # Proposer(m.height, m.round)
    /\ m.type = "Commit" =>
          \E p \in M : /\ p.type = "Prepare" /\ p.from # m.from
                       /\ p.height = m.height /\ p.round = m.round

(* A node that counts Prepares counts its own.                             *)
Counts(n, e) ==
    /\ e.prepares = {} \/ n \in e.prepares
    /\ e.phase = "PrePrepared" => n \in e.prepares /\ e.proposed # NoBlock

(* A node that is Prepared has broadcast its Commit.                       *)
Committing(n, e, M) ==
    e.phase \in {"Prepared", "Committed"} =>
        e.proposed = NoBlock \/ HasCommit(n, e.height, e.round, e.proposed, M)

(* A node has voted only in rounds it has reached.                         *)
Reached(n, e, M) ==
    \A m \in M : IsVote(m) /\ m.from = n =>
        \/ AheadIn(M, m.height)
        \/ m.height < e.height
        \/ m.height = e.height /\ m.round <= e.round

(* Why n may store b at height h: all voted in the last round n voted in,  *)
(* and n committed b there.                                                *)
Certificate(n, h, b, M) ==
    \/ AheadIn(M, h)
    \/ \E r \in Nat :
          /\ \A v \in Validators : VotedIn(v, h, r, M)
          /\ HasCommit(n, h, r, b, M)
          /\ \A m \in M : IsVote(m) /\ m.from = n /\ m.height = h => m.round <= r

(* The invariant on a node record: low is the height below which n sends   *)
(* nothing in this step.                                                   *)
AgreeInv(n, s, M, low) ==
    /\ s \in Nodes
    /\ \A m \in s.out : m.from = n /\ (IsVote(m) => m.height >= low)
    /\ \A m \in M \cup s.out : Sound(m, M \cup s.out)
    /\ Counts(n, s.engine)
    /\ Committing(n, s.engine, M \cup s.out)
    /\ Reached(n, s.engine, M \cup s.out)
    /\ low <= s.engine.height

-----------------------------------------------------------------------------
(* With three validators the quorum is three.                              *)
LEMMA QuorumOfThree == N = 3 => Quorum = 3
BY DEF Quorum

(* With three validators a node's own Prepare never completes the quorum   *)
(* (add_prepare after propose_block or verify_proposal).                   *)
LEMMA OwnPrepare ==
    ASSUME N = 3, NEW n \in Validators, NEW e \in Engines, NEW b \in Blocks,
           Counts(n, e)
    PROVE  LET f == AddPrepare(Adopt(e, b), n, b)
           IN  /\ f \in Engines
               /\ f.height = e.height /\ f.round = e.round
               /\ f.proposed = b /\ f.phase = "PrePrepared"
               /\ Counts(n, f)
<1> DEFINE a == Adopt(e, b)
           f == AddPrepare(a, n, b)
<1>1. /\ a \in Engines
      /\ a.height = e.height /\ a.round = e.round /\ a.proposed = b
      /\ a.phase = "PrePrepared" /\ a.prepares = e.prepares
  <2>1. a \in Engines
    BY AdoptType
  <2>2. QED
    BY <2>1 DEF Adopt, Engines
<1> HIDE DEF a
<1>2. /\ f \in Engines
      /\ f.height = e.height /\ f.round = e.round /\ f.proposed = b
  BY <1>1, AddPrepareType
<1>3. b # NoBlock
  BY NoBlockAssumption
<1>4. CASE n \in a.prepares
  BY <1>1, <1>2, <1>3, <1>4 DEF AddPrepare, Counts, a
<1>5. CASE n \notin a.prepares
  <2>1. a.prepares = {}
    BY <1>1, <1>5 DEF Counts
  <2>2. Cardinality(a.prepares \cup {n}) = 1
    BY <2>1, FS_Singleton
  <2>3. ~PrepareQuorum(a, n)
    BY <2>2, QuorumOfThree DEF PrepareQuorum
  <2>4. PrepareTaken(a, b)
    BY <1>1 DEF PrepareTaken, Matches
  <2>5. f = [a EXCEPT !.prepares = @ \cup {n}]
    BY <1>5, <2>3, <2>4 DEF AddPrepare
  <2>6. n \in f.prepares /\ f.phase = "PrePrepared"
    <3>1. a.prepares \cup {n} \in SUBSET Validators
      BY <1>1 DEF Engines
    <3>2. QED
      BY <1>1, <2>5, <3>1 DEF Engines
  <2>7. QED
    BY <1>2, <1>3, <2>6 DEF Counts, a
<1>6. QED
  BY <1>4, <1>5

(* Counting the Prepare of another node keeps one's own (add_prepare).     *)
LEMMA OtherPrepare ==
    ASSUME NEW n \in Validators, NEW e \in Engines, NEW v \in Validators,
           NEW b \in Blocks \cup {NoBlock},
           Counts(n, e)
    PROVE  Counts(n, AddPrepare(e, v, b))
<1> DEFINE f == AddPrepare(e, v, b)
<1>1. f \in Engines /\ f.proposed = e.proposed
  BY AddPrepareType
<1>2. CASE f = e
  BY <1>2
<1>3. CASE f # e
  <2>1. PrepareTaken(e, b)
    BY <1>3 DEF AddPrepare
  <2>2. n \in e.prepares /\ e.proposed # NoBlock
    BY <2>1 DEF PrepareTaken, Counts
  <2>3. f.prepares = e.prepares \cup {v}
    BY <1>3 DEF AddPrepare, Engines
  <2>4. QED
    BY <1>1, <2>2, <2>3 DEF Counts
<1>4. QED
  BY <1>2, <1>3

(* More messages keep what was said of fewer.                              *)
LEMMA Grows ==
    ASSUME NEW A, NEW B, A \subseteq B
    PROVE  /\ \A h : AheadIn(A, h) => AheadIn(B, h)
           /\ \A m : Sound(m, A) => Sound(m, B)
           /\ \A n, e : Committing(n, e, A) => Committing(n, e, B)
           /\ \A v, h, r : VotedIn(v, h, r, A) => VotedIn(v, h, r, B)
           /\ \A n, h, r, b : HasCommit(n, h, r, b, A) => HasCommit(n, h, r, b, B)
<1>1. /\ \A h : AheadIn(A, h) => AheadIn(B, h)
      /\ \A m : Sound(m, A) => Sound(m, B)
      /\ \A v, h, r : VotedIn(v, h, r, A) => VotedIn(v, h, r, B)
      /\ \A n, h, r, b : HasCommit(n, h, r, b, A) => HasCommit(n, h, r, b, B)
  BY DEF AheadIn, Sound, VotedIn, HasCommit
<1>2. \A n, e : Committing(n, e, A) => Committing(n, e, B)
  BY <1>1 DEF Committing
<1>3. QED
  BY <1>1, <1>2

(* A certificate survives messages that are not n's votes at its height.   *)
LEMMA CertificateStays ==
    ASSUME NEW n, NEW h, NEW b, NEW A, NEW B, A \subseteq B,
           \A m \in B \ A : ~(IsVote(m) /\ m.from = n /\ m.height = h),
           Certificate(n, h, b, A)
    PROVE  Certificate(n, h, b, B)
BY Grows DEF Certificate

(* Sending a sound message keeps the invariant.                            *)
LEMMA SendAgrees ==
    ASSUME NEW n, NEW s, NEW M \in SUBSET Messages, NEW low,
           NEW m \in Messages,
           AgreeInv(n, s, M, low),
           m.from = n,
           Sound(m, M \cup s.out \cup {m}),
           IsVote(m) => m.height >= low /\ m.height = s.engine.height
                                        /\ m.round = s.engine.round
    PROVE  AgreeInv(n, Send(s, m), M, low)
<1> DEFINE A == M \cup s.out
           B == M \cup Send(s, m).out
<1>1. s \in Nodes /\ s.engine.round \in Nat
  BY DEF AgreeInv, Nodes, Engines
<1>2. /\ Send(s, m) \in Nodes
      /\ Send(s, m).engine = s.engine
      /\ Send(s, m).out = s.out \cup {m}
      /\ B = A \cup {m}
  BY <1>1, SendType
<1>3. /\ \A x \in A : Sound(x, A)
      /\ Committing(n, s.engine, A)
      /\ Reached(n, s.engine, A)
  BY DEF AgreeInv
<1> HIDE DEF A, B
<1>4. \A x \in B : Sound(x, B)
  BY <1>2, <1>3, Grows DEF A
<1>5. Committing(n, s.engine, B)
  BY <1>2, <1>3, Grows
<1>6. Reached(n, s.engine, B)
  <2>1. \A h : AheadIn(A, h) => AheadIn(B, h)
    BY <1>2, Grows
  <2>2. QED
    BY <1>1, <1>2, <1>3, <2>1 DEF Reached
<1>7. QED
  BY <1>2, <1>4, <1>5, <1>6 DEF AgreeInv, B

(* A new engine that keeps its part of the invariant.                      *)
LEMMA EngineAgrees ==
    ASSUME NEW n, NEW s, NEW M \in SUBSET Messages, NEW low, NEW e \in Engines,
           AgreeInv(n, s, M, low),
           Counts(n, e),
           Committing(n, e, M \cup s.out),
           Reached(n, e, M \cup s.out),
           low <= e.height
    PROVE  AgreeInv(n, [s EXCEPT !.engine = e], M, low)
BY EngineType DEF AgreeInv

-----------------------------------------------------------------------------
(* The handlers.                                                           *)

(* Finalizing keeps the invariant (finalize_block).                        *)
LEMMA FinalizeAgrees ==
    ASSUME NEW n, NEW s, NEW M \in SUBSET Messages, NEW low,
           NEW w \in 0 .. 3, low \in Nat,
           AgreeInv(n, s, M, low)
    PROVE  AgreeInv(n, Finalize(s, w), M, low)
<1> DEFINE t == Finalize(s, w)
           A == M \cup s.out
           e == s.engine
<1>1. s \in Nodes /\ e \in Engines /\ e.height \in Nat
  BY DEF AgreeInv, Nodes, Engines
<1>2. /\ t \in Nodes
      /\ t.out = s.out
      /\ \/ t = s
         \/ CanFinalize(e) /\ t.engine = NewEngine(e.height + 1)
         \/ CanFinalize(e) /\ t.engine = [e EXCEPT !.proposed = NoBlock]
  BY <1>1, FinalizeType
<1>3. Counts(n, e) /\ Reached(n, e, A) /\ low <= e.height
  BY DEF AgreeInv
<1>4. \A m \in A : m.height \in Nat /\ m.round \in Nat
  <2>1. A \subseteq Messages
    BY <1>1 DEF Nodes
  <2>2. QED
    BY <2>1 DEF Messages
<1> HIDE DEF t, A, e
<1>5. CASE t = s
  BY <1>5 DEF t
<1>6. CASE CanFinalize(e) /\ t.engine = NewEngine(e.height + 1)
  <2>1. /\ t.engine.height = e.height + 1 /\ t.engine.phase = "Idle"
        /\ t.engine.prepares = {}
    BY <1>6 DEF NewEngine
  <2>2. Counts(n, t.engine) /\ Committing(n, t.engine, A)
    BY <2>1 DEF Counts, Committing
  <2>3. Reached(n, t.engine, A)
    BY <1>1, <1>3, <1>4, <2>1 DEF Reached
  <2>4. low <= t.engine.height
    BY <1>1, <1>3, <2>1
  <2>5. QED
    BY <1>2, <2>2, <2>3, <2>4 DEF AgreeInv, t, A
<1>7. CASE CanFinalize(e) /\ t.engine = [e EXCEPT !.proposed = NoBlock]
  <2>1. /\ t.engine.height = e.height /\ t.engine.round = e.round
        /\ t.engine.prepares = e.prepares
        /\ t.engine.proposed = NoBlock /\ t.engine.phase = "Committed"
    BY <1>1, <1>7 DEF CanFinalize, Engines
  <2>2. Counts(n, t.engine) /\ Committing(n, t.engine, A)
    BY <1>3, <2>1 DEF Counts, Committing
  <2>3. Reached(n, t.engine, A)
    BY <1>3, <2>1 DEF Reached
  <2>4. QED
    BY <1>2, <1>3, <2>1, <2>2, <2>3 DEF AgreeInv, t, A
<1>8. QED
  BY <1>2, <1>5, <1>6, <1>7

(* Node n keeps the invariant, stores nothing and sends only messages of   *)
(* its height when s becomes t.                                            *)
Proposed(n, s, t, M, low) ==
    /\ AgreeInv(n, t, M, low)
    /\ t.store = s.store
    /\ s.out \subseteq t.out
    /\ t.out \subseteq s.out \cup {m \in Messages : m.height = s.engine.height}

(* A proposer of three does not finalize by proposing; it only broadcasts  *)
(* a proposal of its height (propose_new_block).                           *)
LEMMA ProposeNewBlockAgrees ==
    ASSUME N = 3, NEW n \in Validators, NEW s, NEW M \in SUBSET Messages,
           NEW low, NEW c \in Contents, NEW w \in 0 .. 3,
           AgreeInv(n, s, M, low),
           s.engine.height \in Heights
    PROVE  Proposed(n, s, ProposeNewBlock(s, n, c, w), M, low)
<1> DEFINE e == s.engine
           b == [number |-> e.height, validator |-> n, content |-> c]
           m == Message("PrePrepare", e, b, n)
           f == AddPrepare(Adopt(e, b), n, b)
           t == [Send(s, m) EXCEPT !.engine = f]
<1>1. CASE e.phase # "Idle"
  BY <1>1 DEF ProposeNewBlock, Proposed
<1>2. CASE e.phase = "Idle"
  <2>1. s \in Nodes /\ e \in Engines /\ e.height \in Nat /\ e.round \in Nat
    BY DEF AgreeInv, Nodes, Engines
  <2>2. b \in Blocks
    BY DEF Blocks
  <2>3. /\ m \in Messages
        /\ m.type = "PrePrepare" /\ m.height = e.height /\ m.round = e.round
        /\ m.from = n
    BY <2>1, <2>2 DEF Message, Messages
  <2>4. /\ f \in Engines
        /\ f.height = e.height /\ f.round = e.round
        /\ f.phase = "PrePrepared" /\ Counts(n, f)
    BY <2>1, <2>2, OwnPrepare DEF AgreeInv
  <2>5. AddCommit(f, n, b) = f
    BY <2>4 DEF AddCommit, CommitTaken
  <2>6. ProposeNewBlock(s, n, c, w) = Finalize(t, w)
    BY <1>2, <2>5 DEF ProposeNewBlock
  <2> HIDE DEF e, b, m, f
  <2>7. AgreeInv(n, Send(s, m), M, low)
    <3>1. Sound(m, M \cup s.out \cup {m})
      BY <2>3 DEF Sound
    <3>2. low <= e.height
      BY DEF AgreeInv, e
    <3>3. QED
      BY <2>3, <3>1, <3>2, SendAgrees DEF e
  <2>8. /\ Send(s, m) \in Nodes /\ Send(s, m).engine = e
        /\ Send(s, m).store = s.store /\ Send(s, m).out = s.out \cup {m}
    BY <2>1, <2>3, SendType DEF e
  <2>9. AgreeInv(n, t, M, low)
    <3> DEFINE B == M \cup Send(s, m).out
    <3>1. Reached(n, e, B) /\ low <= e.height
      BY <2>7, <2>8 DEF AgreeInv
    <3>2. Reached(n, f, B)
      BY <2>4, <3>1 DEF Reached
    <3>3. Committing(n, f, B)
      BY <2>4 DEF Committing
    <3>4. QED
      BY <2>4, <2>7, <3>1, <3>2, <3>3, EngineAgrees
  <2>10. /\ t.engine = f /\ t.store = s.store /\ t.out = s.out \cup {m}
    BY <2>4, <2>8, EngineType
  <2>11. Finalize(t, w) = t
    BY <2>4, <2>10 DEF Finalize, CanFinalize
  <2> HIDE DEF t
  <2>12. QED
    BY <2>3, <2>6, <2>9, <2>10, <2>11 DEF e, Proposed
<1>3. QED
  BY <1>1, <1>2

(* The same when only a proposer may propose.                              *)
LEMMA ProposeIfProposerAgrees ==
    ASSUME N = 3, NEW n \in Validators, NEW s, NEW M \in SUBSET Messages,
           NEW low, NEW c \in Contents, NEW w \in 0 .. 3,
           AgreeInv(n, s, M, low)
    PROVE  Proposed(n, s, ProposeIfProposer(s, n, c, w), M, low)
<1>1. CASE IsProposer(s.engine, n) /\ s.engine.height \in Heights
  BY <1>1, ProposeNewBlockAgrees DEF ProposeIfProposer
<1>2. CASE ~(IsProposer(s.engine, n) /\ s.engine.height \in Heights)
  BY <1>2 DEF ProposeIfProposer, Proposed
<1>3. QED
  BY <1>1, <1>2

(* Arm PrePrepare: a node that is not the proposer sends its Prepare, and  *)
(* its own Prepare does not complete the quorum of three.                  *)
LEMMA TakePrePrepareAgrees ==
    ASSUME N = 3, NEW n \in Validators, NEW s, NEW M \in SUBSET Messages,
           NEW low, NEW m \in M, NEW w \in 0 .. 3,
           NodeInv(n, s, M),
           AgreeInv(n, s, M, low),
           m.type = "PrePrepare", m.from # n,
           m.height = s.engine.height, m.round = s.engine.round
    PROVE  /\ AgreeInv(n, TakePrePrepare(s, n, m, w), M, low)
           /\ TakePrePrepare(s, n, m, w).store = s.store
<1> DEFINE A == M \cup s.out
           e == s.engine
           f == AddPrepare(Adopt(e, m.block), n, m.block)
           x == Message("Prepare", m, m.block, n)
           t == [Send(s, x) EXCEPT !.engine = f]
<1>1. /\ s \in Nodes /\ e \in Engines
      /\ m \in Messages /\ m.block \in Blocks
      /\ m.from = Proposer(m.height, m.round)
  BY DEF NodeInv, Nodes, Good
<1>2. /\ f \in Engines
      /\ f.height = e.height /\ f.round = e.round
      /\ f.phase = "PrePrepared" /\ Counts(n, f)
  BY <1>1, OwnPrepare DEF AgreeInv
<1>3. /\ x \in Messages /\ x.type = "Prepare" /\ x.from = n
      /\ x.height = m.height /\ x.round = m.round
  BY <1>1 DEF Message, Messages
<1>4. TakePrePrepare(s, n, m, w) = t
  BY <1>2 DEF TakePrePrepare
<1> HIDE DEF f, x, e
<1>5. AgreeInv(n, Send(s, x), M, low)
  <2>1. Sound(x, M \cup s.out \cup {x})
    BY <1>1, <1>3 DEF Sound
  <2>2. low <= e.height
    BY DEF AgreeInv, e
  <2>3. QED
    BY <1>3, <2>1, <2>2, SendAgrees DEF e
<1>6. Send(s, x) \in Nodes /\ Send(s, x).engine = e /\ Send(s, x).store = s.store
  BY <1>1, <1>3, SendType DEF e
<1>7. AgreeInv(n, t, M, low)
  <2> DEFINE B == M \cup Send(s, x).out
  <2>1. Reached(n, e, B) /\ low <= e.height
    BY <1>5, <1>6 DEF AgreeInv
  <2>2. Reached(n, f, B)
    BY <1>2, <2>1 DEF Reached
  <2>3. Committing(n, f, B)
    BY <1>2 DEF Committing
  <2>4. QED
    BY <1>2, <1>5, <2>1, <2>2, <2>3, EngineAgrees
<1>8. t.store = s.store
  BY <1>2, <1>6, EngineType
<1>9. QED
  BY <1>4, <1>7, <1>8

(* Arm Prepare: a node that becomes Prepared, or hears a Prepare again,    *)
(* sends its Commit, and the Prepare it heard is another node's.           *)
LEMMA TakePrepareAgrees ==
    ASSUME NEW n \in Validators, NEW s, NEW M \in SUBSET Messages,
           NEW low, NEW m \in M,
           AgreeInv(n, s, M, low),
           m.type = "Prepare", m.from # n,
           m.height = s.engine.height, m.round = s.engine.round
    PROVE  /\ AgreeInv(n, TakePrepare(s, n, m), M, low)
           /\ TakePrepare(s, n, m).store = s.store
<1> DEFINE A == M \cup s.out
           o == s.engine
           e == AddPrepare(o, m.from, m.block)
           x == Message("Commit", m, o.proposed, n)
           s1 == [s EXCEPT !.engine = e]
           t == [Send(s, x) EXCEPT !.engine = e]
<1>1. /\ s \in Nodes /\ o \in Engines
      /\ m \in Messages /\ m.from \in Validators
      /\ m.block \in Blocks \cup {NoBlock}
      /\ o.proposed \in Blocks \cup {NoBlock}
      /\ low <= o.height
      /\ Reached(n, o, A)
  BY DEF AgreeInv, Nodes, Messages, Engines
<1>2. /\ e \in Engines
      /\ e.height = o.height /\ e.round = o.round /\ e.proposed = o.proposed
      /\ e.phase \in {o.phase, "Prepared"}
  BY <1>1, AddPrepareType
<1>3. Counts(n, e)
  BY <1>1, OtherPrepare DEF AgreeInv
<1>4. CASE ~PrepareResult(o, m.from, m.block)
  <2>1. e.phase = o.phase
    BY <1>1, <1>4 DEF AddPrepare, PrepareResult, Engines
  <2>2. TakePrepare(s, n, m) = s1
    BY <1>4 DEF TakePrepare
  <2> HIDE DEF e, o
  <2>3. Committing(n, e, A) /\ Reached(n, e, A)
    BY <1>1, <1>2, <2>1 DEF AgreeInv, Committing, Reached, o
  <2>4. s1.store = s.store
    BY <1>1, <1>2, EngineType
  <2>5. QED
    BY <1>1, <1>2, <1>3, <2>2, <2>3, <2>4, EngineAgrees
<1>5. CASE PrepareResult(o, m.from, m.block)
  <2>1. o.proposed # NoBlock
    BY <1>5 DEF PrepareResult, PrepareTaken, AgreeInv, Counts
  <2>2. /\ x \in Messages /\ x.type = "Commit" /\ x.from = n
        /\ x.height = m.height /\ x.round = m.round /\ x.block = o.proposed
    BY <1>1 DEF Message, Messages
  <2>3. TakePrepare(s, n, m) = t
    <3>1. s1.engine.proposed = o.proposed
      BY <1>1, <1>2, EngineType
    <3>2. TakePrepare(s, n, m) = BroadcastCommit(s1, m, n)
      BY <1>5 DEF TakePrepare
    <3>3. BroadcastCommit(s1, m, n) = Send(s1, x)
      BY <2>1, <3>1 DEF BroadcastCommit
    <3> HIDE DEF e, x
    <3>4. Send(s1, x) = t
      BY <1>1 DEF Send, Nodes
    <3>5. QED
      BY <3>2, <3>3, <3>4
  <2> HIDE DEF e, x, o
  <2>4. AgreeInv(n, Send(s, x), M, low)
    <3>1. Sound(x, M \cup s.out \cup {x})
      BY <2>2 DEF Sound
    <3>2. QED
      BY <1>1, <2>2, <3>1, SendAgrees DEF o
  <2>5. /\ Send(s, x) \in Nodes /\ Send(s, x).engine = o
        /\ Send(s, x).store = s.store /\ Send(s, x).out = s.out \cup {x}
    BY <1>1, <2>2, SendType DEF o
  <2>6. AgreeInv(n, t, M, low)
    <3> DEFINE B == M \cup Send(s, x).out
    <3>1. Reached(n, e, B)
      BY <1>2, <2>4, <2>5 DEF AgreeInv, Reached
    <3>2. HasCommit(n, e.height, e.round, e.proposed, B)
      BY <1>2, <2>2, <2>5 DEF HasCommit, o
    <3>3. Committing(n, e, B)
      BY <3>2 DEF Committing
    <3>4. QED
      BY <1>1, <1>2, <1>3, <2>4, <3>1, <3>3, EngineAgrees
  <2>7. t.store = s.store
    BY <1>2, <2>5, EngineType
  <2>8. QED
    BY <2>3, <2>6, <2>7
<1>6. QED
  BY <1>4, <1>5

(* When a Commit of another node finds a node of three Prepared, all three *)
(* have voted in that round, whatever votes of earlier rounds the engine   *)
(* still holds.                                                            *)
LEMMA AllHaveVoted ==
    ASSUME N = 3, NEW n \in Validators, NEW e \in Engines,
           NEW A \in SUBSET Messages, NEW m \in A,
           \A x \in A : Good(x, A) /\ Sound(x, A),
           Committing(n, e, A), Reached(n, e, A),
           e.phase \in {"Prepared", "Committed"}, e.proposed # NoBlock,
           m.type = "Commit", m.from # n,
           m.height = e.height, m.round = e.round
    PROVE  Certificate(n, e.height, e.proposed, A)
<1> DEFINE h == e.height
           r == e.round
           P == Proposer(h, r)
           In(v) == VotedIn(v, h, r, A)
<1>1. HasCommit(n, h, r, e.proposed, A)
  BY DEF Committing
<1>2. PICK c \in A : /\ c.type = "Commit" /\ c.from = n
                     /\ c.height = h /\ c.round = r
  BY <1>1 DEF HasCommit
<1>3. PICK p \in A : /\ p.type = "Prepare" /\ p.from # n
                     /\ p.height = h /\ p.round = r
  BY <1>2 DEF Sound
<1>4. p.from # P
  BY <1>3 DEF Sound
<1>5. PICK q \in A : IsProposal(q, h, r, c.block)
  BY <1>2 DEF Good
<1>6. q.from = P /\ q.type = "PrePrepare" /\ q.height = h /\ q.round = r
  BY <1>5 DEF IsProposal, Good
<1>7. PICK u \in A : /\ u.type = "Prepare" /\ u.from # m.from
                     /\ u.height = h /\ u.round = r
  BY DEF Sound
<1>8. u.from # P
  BY <1>7 DEF Sound
<1>9. In(n) /\ In(P) /\ In(p.from) /\ In(u.from) /\ In(m.from)
  BY <1>2, <1>3, <1>6, <1>7 DEF VotedIn, IsVote
<1>10. /\ n \in 0 .. 2 /\ P \in 0 .. 2 /\ p.from \in 0 .. 2
       /\ u.from \in 0 .. 2 /\ m.from \in 0 .. 2
  BY <1>6 DEF Messages, Validators
<1> HIDE DEF In, P
<1>11. \A v \in Validators : In(v)
  <2>1. CASE P # n
    <3>1. \A v \in 0 .. 2 : v \in {n, P, p.from}
      BY <1>3, <1>4, <1>10, <2>1
    <3>2. QED
      BY <1>9, <3>1 DEF Validators
  <2>2. CASE P = n
    <3>1. \A v \in 0 .. 2 : v \in {n, p.from, u.from, m.from}
      BY <1>3, <1>7, <1>8, <1>10, <2>2
    <3>2. QED
      BY <1>9, <3>1 DEF Validators
  <2>3. QED
    BY <2>1, <2>2
<1>12. CASE AheadIn(A, h)
  BY <1>12 DEF Certificate
<1>13. CASE ~AheadIn(A, h)
  <2>1. r \in Nat /\ h \in Nat
    BY DEF Engines
  <2>2. \A x \in A : IsVote(x) /\ x.from = n /\ x.height = h => x.round <= r
    BY <1>13, <2>1 DEF Reached
  <2>3. QED
    BY <1>1, <1>11, <2>1, <2>2 DEF Certificate, In
<1>14. QED
  BY <1>12, <1>13

(* Arm Commit: what is stored has a certificate.                           *)
LEMMA TakeCommitAgrees ==
    ASSUME N = 3, NEW n \in Validators, NEW s, NEW M \in SUBSET Messages,
           NEW low \in Nat, NEW m \in M, NEW c \in Contents, NEW w \in 0 .. 3,
           NodeInv(n, s, M),
           AgreeInv(n, s, M, low),
           InOrder(s.engine, s.store),
           m.type = "Commit", m.from # n,
           m.height = s.engine.height, m.round = s.engine.round
    PROVE  LET t == TakeCommit(s, n, m, c, w)
           IN  /\ AgreeInv(n, t, M, low)
               /\ \A h \in Heights : t.store.blocks[h] # s.store.blocks[h] =>
                     Certificate(n, h, t.store.blocks[h].block, M \cup t.out)
<1> DEFINE A == M \cup s.out
           o == s.engine
           e == AddCommit(o, m.from, m.block)
           s1 == [s EXCEPT !.engine = e]
           s2 == Finalize(s1, w)
           s3 == ProposeIfProposer(s2, n, c, w)
           t == TakeCommit(s, n, m, c, w)
<1>1. /\ s \in Nodes /\ o \in Engines /\ A \in SUBSET Messages
      /\ m.from \in Validators /\ m.block \in Blocks
      /\ o.height \in Nat /\ low <= o.height
      /\ \A x \in A : Good(x, A) /\ Sound(x, A)
      /\ Counts(n, o) /\ Committing(n, o, A) /\ Reached(n, o, A)
  BY DEF NodeInv, AgreeInv, Nodes, Engines, Messages, Good
<1>2. /\ e \in Engines
      /\ e.height = o.height /\ e.round = o.round
      /\ e.proposed = o.proposed /\ e.prepares = o.prepares
      /\ e.phase \in {o.phase, "Committed"}
      /\ e.phase # o.phase => o.phase = "Prepared"
  BY <1>1, AddCommitType
<1>3. t \in {s1, s2} \/ (t = s3 /\ s2.engine.height # o.height)
  BY DEF TakeCommit
<1> HIDE DEF e, o, A
<1>4. Counts(n, e) /\ Committing(n, e, A) /\ Reached(n, e, A)
  BY <1>1, <1>2 DEF Counts, Committing, Reached
<1>5. AgreeInv(n, s1, M, low)
  BY <1>1, <1>2, <1>4, EngineAgrees DEF A
<1>6. s1 \in Nodes /\ s1.engine = e /\ s1.store = s.store /\ s1.out = s.out
  BY <1>1, <1>2, EngineType
<1> HIDE DEF s1, t
<1>7. AgreeInv(n, s2, M, low)
  BY <1>5, FinalizeAgrees
<1>8. s2 \in Nodes /\ s2.out = s.out
  BY <1>6, FinalizeType
<1>9. CASE ~CanFinalize(e)
  <2>1. s2 = s1
    BY <1>6, <1>9 DEF Finalize
  <2>2. t = s1
    BY <1>2, <1>3, <1>6, <2>1
  <2>3. QED
    BY <1>5, <1>6, <2>2 DEF t
<1>10. CASE CanFinalize(e)
  <2> DEFINE rec == [block |-> e.proposed, commits |-> e.commits]
  <2>1. /\ e.phase = "Committed" /\ e.proposed # NoBlock
        /\ e.proposed \in Blocks
        /\ e.proposed.number = e.height /\ e.height \in Heights
    BY <1>1, <1>2, <1>10 DEF CanFinalize, InOrder, Engines, Blocks, o
  <2>2. Certificate(n, e.height, e.proposed, A)
    <3>1. m \in A
      BY DEF A
    <3>2. m.height = e.height /\ m.round = e.round
      BY <1>2 DEF o
    <3>3. QED
      BY <1>1, <1>2, <1>4, <2>1, <3>1, <3>2, AllHaveVoted
  <2>3. s2.store = Written(s.store, e.proposed, e.commits, w)
    <3>1. s1.store = s.store /\ s1.engine = e
      BY <1>6
    <3>2. QED
      BY <1>6, <1>10, <3>1 DEF Finalize, Nodes
  <2>4. \A h \in Heights : s2.store.blocks[h] # s.store.blocks[h] =>
           h = e.height /\ s2.store.blocks[h] = rec
    <3>1. s.store.blocks \in [Heights -> StoredBlocks \cup {NoBlock}]
      BY <1>1 DEF Nodes, Stores
    <3>2. s2.store.blocks \in {s.store.blocks, [s.store.blocks EXCEPT ![e.height] = rec]}
      BY <2>1, <2>3 DEF Written
    <3>3. QED
      BY <2>1, <3>1, <3>2
  <2>5. rec.block = e.proposed
    OBVIOUS
  <2> HIDE DEF rec
  <2>6. \A h \in Heights : s2.store.blocks[h] # s.store.blocks[h] =>
           h = e.height /\ s2.store.blocks[h].block = e.proposed
    BY <2>4, <2>5
  <2>7. \A h \in Heights : s2.store.blocks[h] # s.store.blocks[h] =>
           Certificate(n, h, s2.store.blocks[h].block, A)
    BY <2>2, <2>6
  <2>8. CASE t \in {s1, s2}
    BY <1>5, <1>6, <1>7, <1>8, <2>7, <2>8 DEF t, A
  <2>9. CASE t = s3 /\ s2.engine.height # e.height
    <3> DEFINE B == M \cup s3.out
    <3>1. /\ AgreeInv(n, s3, M, low)
          /\ s3.store = s2.store
          /\ s2.out \subseteq s3.out
          /\ s3.out \subseteq s2.out \cup {x \in Messages : x.height = s2.engine.height}
      <4>1. Proposed(n, s2, s3, M, low)
        BY <1>7, ProposeIfProposerAgrees
      <4> HIDE DEF s2, s3
      <4>2. QED
        BY <4>1 DEF Proposed
    <3>2. A \subseteq B /\ \A x \in B \ A : x.height # e.height
      BY <1>8, <2>9, <3>1 DEF A
    <3> HIDE DEF B, s3
    <3>3. \A h \in Heights : s3.store.blocks[h] # s.store.blocks[h] =>
             Certificate(n, h, s3.store.blocks[h].block, B)
      <4>1. SUFFICES ASSUME NEW h \in Heights,
                            s3.store.blocks[h] # s.store.blocks[h]
                     PROVE  Certificate(n, h, s3.store.blocks[h].block, B)
        OBVIOUS
      <4>2. h = e.height /\ Certificate(n, h, s3.store.blocks[h].block, A)
        BY <2>6, <2>7, <3>1, <4>1
      <4>3. QED
        BY <3>2, <4>2, CertificateStays
    <3>4. QED
      BY <2>9, <3>1, <3>3 DEF t, B
  <2>10. QED
    BY <1>2, <1>3, <2>8, <2>9
<1>11. QED
  BY <1>9, <1>10

(* Arm RoundChange: the round rises, or a later height's RoundChange is    *)
(* under way.                                                              *)
LEMMA TakeRoundChangeAgrees ==
    ASSUME N = 3, NEW n \in Validators, NEW s, NEW M \in SUBSET Messages,
           NEW low, NEW m \in M, NEW c \in Contents, NEW w \in 0 .. 3,
           AgreeInv(n, s, M, low),
           m.type = "RoundChange",
           m.height >= s.engine.height,
           m.height = s.engine.height => m.round > s.engine.round
    PROVE  /\ AgreeInv(n, TakeRoundChange(s, n, m, c, w), M, low)
           /\ TakeRoundChange(s, n, m, c, w).store = s.store
<1> DEFINE o == s.engine
           e == [o EXCEPT !.round = m.round, !.phase = "Idle"]
           x == [m EXCEPT !.from = n]
           t == [Send(s, x) EXCEPT !.engine = e]
           B == M \cup Send(s, x).out
<1>1. /\ s \in Nodes /\ o \in Engines
      /\ o.height \in Nat /\ o.round \in Nat
      /\ m \in Messages /\ m.height \in Nat /\ m.round \in Nat
      /\ low <= o.height /\ Counts(n, o)
  BY DEF AgreeInv, Nodes, Messages, Engines
<1>2. /\ e \in Engines
      /\ e.height = o.height /\ e.round = m.round /\ e.phase = "Idle"
      /\ e.prepares = o.prepares
  BY <1>1 DEF Engines, Phases
<1>3. x \in Messages /\ x.type = "RoundChange" /\ x.from = n
  BY <1>1 DEF Messages
<1>4. TakeRoundChange(s, n, m, c, w) = ProposeIfProposer(t, n, c, w)
  BY DEF TakeRoundChange
<1> HIDE DEF e, x
<1>5. AgreeInv(n, Send(s, x), M, low)
  BY <1>3, SendAgrees DEF Sound, IsVote
<1>6. /\ Send(s, x) \in Nodes /\ Send(s, x).engine = o
      /\ Send(s, x).store = s.store
  BY <1>1, <1>3, SendType
<1>7. Reached(n, e, B)
  <2>1. Reached(n, o, B) /\ m \in B /\ B \subseteq Messages
    BY <1>5, <1>6 DEF AgreeInv, Nodes
  <2> HIDE DEF B, o
  <2>2. \A y \in B : y.height \in Nat /\ y.round \in Nat
    BY <2>1 DEF Messages
  <2>3. CASE m.height = o.height
    BY <1>1, <1>2, <2>1, <2>2, <2>3 DEF Reached, o
  <2>4. CASE m.height > o.height
    <3>1. \A h \in Nat : h <= o.height => AheadIn(B, h)
      BY <1>1, <2>1, <2>4 DEF AheadIn
    <3>2. QED
      BY <1>1, <1>2, <2>1, <2>2, <3>1 DEF Reached
  <2>5. QED
    BY <1>1, <2>3, <2>4 DEF o
<1>8. AgreeInv(n, t, M, low)
  <2>1. Counts(n, e) /\ Committing(n, e, B)
    BY <1>1, <1>2 DEF Counts, Committing
  <2> HIDE DEF o
  <2>2. QED
    BY <1>1, <1>2, <1>5, <1>7, <2>1, EngineAgrees
<1>9. t.store = s.store
  BY <1>2, <1>6, EngineType
<1> HIDE DEF t
<1>10. /\ AgreeInv(n, ProposeIfProposer(t, n, c, w), M, low)
       /\ ProposeIfProposer(t, n, c, w).store = t.store
  <2>1. Proposed(n, t, ProposeIfProposer(t, n, c, w), M, low)
    BY <1>8, ProposeIfProposerAgrees
  <2>2. QED
    BY <2>1 DEF Proposed
<1>11. QED
  BY <1>4, <1>9, <1>10

(* The timeout: the round rises (on_timeout).                              *)
LEMMA TakeTimeoutAgrees ==
    ASSUME N = 3, NEW n \in Validators, NEW s, NEW M \in SUBSET Messages,
           NEW low, NEW c \in Contents, NEW w \in 0 .. 3,
           AgreeInv(n, s, M, low)
    PROVE  /\ AgreeInv(n, TakeTimeout(s, n, c, w), M, low)
           /\ TakeTimeout(s, n, c, w).store = s.store
<1> DEFINE o == s.engine
           e == OnTimeout(o)
           x == Message("RoundChange", e, NoBlock, n)
           t == [Send(s, x) EXCEPT !.engine = e]
           B == M \cup Send(s, x).out
<1>1. /\ s \in Nodes /\ o \in Engines
      /\ o.height \in Nat /\ o.round \in Nat /\ low <= o.height
  BY DEF AgreeInv, Nodes, Engines
<1>2. e \in Engines
  BY <1>1, OnTimeoutType
<1>3. /\ e.height = o.height /\ e.round = o.round + 1 /\ e.phase = "Idle"
      /\ e.prepares = {}
  BY <1>1 DEF OnTimeout, Engines
<1>4. TakeTimeout(s, n, c, w) = ProposeIfProposer(t, n, c, w)
  BY DEF TakeTimeout
<1> HIDE DEF e
<1>5. x \in Messages /\ x.type = "RoundChange" /\ x.from = n
  BY <1>1, <1>3 DEF Message, Messages
<1> HIDE DEF x
<1>6. AgreeInv(n, Send(s, x), M, low)
  BY <1>5, SendAgrees DEF Sound, IsVote
<1>7. /\ Send(s, x) \in Nodes /\ Send(s, x).engine = o
      /\ Send(s, x).store = s.store
  BY <1>1, <1>5, SendType
<1>8. Reached(n, e, B)
  <2>1. Reached(n, o, B) /\ B \subseteq Messages
    BY <1>6, <1>7 DEF AgreeInv, Nodes
  <2> HIDE DEF B, o
  <2>2. \A y \in B : y.height \in Nat /\ y.round \in Nat
    BY <2>1 DEF Messages
  <2>3. QED
    BY <1>1, <1>3, <2>1, <2>2 DEF Reached
<1>9. AgreeInv(n, t, M, low)
  <2>1. Counts(n, e) /\ Committing(n, e, B)
    BY <1>3 DEF Counts, Committing
  <2> HIDE DEF o
  <2>2. QED
    BY <1>1, <1>2, <1>3, <1>6, <1>8, <2>1, EngineAgrees
<1>10. t.store = s.store
  BY <1>2, <1>7, EngineType
<1> HIDE DEF t
<1>11. /\ AgreeInv(n, ProposeIfProposer(t, n, c, w), M, low)
       /\ ProposeIfProposer(t, n, c, w).store = t.store
  <2>1. Proposed(n, t, ProposeIfProposer(t, n, c, w), M, low)
    BY <1>9, ProposeIfProposerAgrees
  <2>2. QED
    BY <2>1 DEF Proposed
<1>12. QED
  BY <1>4, <1>10, <1>11

-----------------------------------------------------------------------------
(* The inductive invariant of agreement.                                   *)

ThreeStay == N = 3 /\ Restartable = {}

AInv ==
    /\ \A m \in msgs : Sound(m, msgs)
    /\ \A n \in Validators :
          /\ Counts(n, engine[n])
          /\ Committing(n, engine[n], msgs)
          /\ Reached(n, engine[n], msgs)
    /\ failures = 0 =>
          \A n \in Validators, h \in Heights :
             store[n].blocks[h] # NoBlock =>
                Certificate(n, h, store[n].blocks[h].block, msgs)

(* The node record a handler starts from satisfies the invariant.          *)
LEMMA AgreeStart ==
    ASSUME TypeOK, AInv, NEW n \in Validators
    PROVE  AgreeInv(n, Node(n), msgs, engine[n].height)
<1>1. /\ Node(n) \in Nodes
      /\ Node(n).engine = engine[n]
      /\ Node(n).out = {}
      /\ engine[n].height \in Nat
  BY DEF TypeOK, Node, Nodes, Engines
<1>2. msgs \cup Node(n).out = msgs
  BY <1>1
<1>3. QED
  BY <1>1, <1>2 DEF AgreeInv, AInv

(* The state a handler leaves satisfies it: what the node stored has its   *)
(* certificate, and it sends nothing more at a height it has stored.       *)
LEMMA BecomeAgrees ==
    ASSUME TypeOK, SInv, AInv, NEW n \in Validators, NEW s,
           AgreeInv(n, s, msgs, engine[n].height),
           \A h \in Heights : s.store.blocks[h] # store[n].blocks[h] =>
               Certificate(n, h, s.store.blocks[h].block, msgs \cup s.out),
           Become(n, s)
    PROVE  AInv'
<1> DEFINE B == msgs \cup s.out
<1>1. /\ engine' = [engine EXCEPT ![n] = s.engine]
      /\ store' = [store EXCEPT ![n] = s.store]
      /\ msgs' = B
      /\ failures' = failures + (IF s.failed THEN 1 ELSE 0)
  BY DEF Become
<1>2. failures \in Nat /\ s.failed \in BOOLEAN
  BY DEF TypeOK, AgreeInv, Nodes
<1>3. failures' = 0 => failures = 0
  BY <1>1, <1>2
<1>4. /\ msgs \subseteq B
      /\ \A m \in B \ msgs : m.from = n /\ (IsVote(m) => m.height >= engine[n].height)
      /\ \A m \in B : Sound(m, B)
      /\ Counts(n, s.engine) /\ Committing(n, s.engine, B) /\ Reached(n, s.engine, B)
  BY DEF AgreeInv
<1>5. /\ engine'[n] = s.engine /\ store'[n] = s.store
      /\ \A k \in Validators : k # n => engine'[k] = engine[k] /\ store'[k] = store[k]
  BY <1>1 DEF TypeOK
<1>6. \A h \in Heights : s.store.blocks[h] # store[n].blocks[h] =>
               Certificate(n, h, s.store.blocks[h].block, B)
  OBVIOUS
<1> HIDE DEF B
<1>7. ASSUME NEW k \in Validators
      PROVE  /\ Counts(k, engine'[k])
             /\ Committing(k, engine'[k], B)
             /\ Reached(k, engine'[k], B)
  <2>1. CASE k = n
    BY <1>4, <1>5, <2>1
  <2>2. CASE k # n
    <3>1. Counts(k, engine[k]) /\ Committing(k, engine[k], msgs) /\ Reached(k, engine[k], msgs)
      BY DEF AInv
    <3>2. Committing(k, engine[k], B)
      BY <1>4, <3>1, Grows
    <3>3. \A h : AheadIn(msgs, h) => AheadIn(B, h)
      BY <1>4, Grows
    <3>4. Reached(k, engine[k], B)
      BY <1>4, <2>2, <3>1, <3>3 DEF Reached
    <3>5. QED
      BY <1>5, <2>2, <3>1, <3>2, <3>4
  <2>3. QED
    BY <2>1, <2>2
<1>8. ASSUME failures' = 0, NEW k \in Validators, NEW h \in Heights,
             store'[k].blocks[h] # NoBlock
      PROVE  Certificate(k, h, store'[k].blocks[h].block, B)
  <2>1. failures = 0 /\ h \in Nat
    BY <1>3, <1>8 DEF Heights
  <2>2. CASE store'[k].blocks[h] # store[k].blocks[h]
    <3>1. k = n
      BY <1>5, <2>2
    <3>2. QED
      BY <1>5, <1>6, <2>2, <3>1
  <2>3. CASE store'[k].blocks[h] = store[k].blocks[h]
    <3>1. Certificate(k, h, store'[k].blocks[h].block, msgs)
      BY <1>8, <2>1, <2>3 DEF AInv
    <3>2. \A m \in B \ msgs : ~(IsVote(m) /\ m.from = k /\ m.height = h)
      <4>1. CASE k = n
        <5>1. ~(h >= engine[n].height)
          BY <1>8, <2>1, <2>3, <4>1 DEF SInv, Clean
        <5>2. QED
          BY <1>4, <5>1
      <4>2. CASE k # n
        BY <1>4, <4>2
      <4>3. QED
        BY <4>1, <4>2
    <3>3. QED
      BY <1>4, <3>1, <3>2, CertificateStays
  <2>4. QED
    BY <2>2, <2>3
<1>9. QED
  BY <1>1, <1>4, <1>7, <1>8 DEF AInv

(* Every step of three validators that do not restart keeps it.            *)
LEMMA NextAgrees ==
    IInv /\ SInv /\ (ThreeStay => AInv) /\ [Next]_vars => (ThreeStay => AInv)'
<1> SUFFICES ASSUME IInv, SInv, AInv, [Next]_vars, N = 3, Restartable = {}
             PROVE  AInv'
  BY DEF ThreeStay
<1> USE AgreeStart, BecomeAgrees
<1>1. Outcomes \subseteq 0 .. 3
  BY DEF Outcomes
<1>2. TypeOK /\ msgs \in SUBSET Messages
  BY DEF IInv, TypeOK
<1>3. ASSUME NEW n \in Validators
      PROVE  /\ Node(n).engine = engine[n]
             /\ Node(n).store = store[n]
             /\ engine[n].height \in Nat
             /\ NodeInv(n, Node(n), msgs)
             /\ InOrder(Node(n).engine, Node(n).store)
  BY <1>2, NodeStart DEF Node, TypeOK, Engines, SInv
<1>4. ASSUME NEW n \in Validators, OnPrePrepare(n) PROVE AInv'
  <2>1. PICK m \in msgs, w \in Outcomes :
          /\ m.type = "PrePrepare" /\ m.from # n
          /\ m.height = engine[n].height /\ m.round = engine[n].round
          /\ Become(n, TakePrePrepare(Node(n), n, m, w))
    BY <1>4 DEF OnPrePrepare, Deliverable, InStep
  <2>2. /\ AgreeInv(n, TakePrePrepare(Node(n), n, m, w), msgs, engine[n].height)
        /\ TakePrePrepare(Node(n), n, m, w).store = store[n]
    BY <1>1, <1>2, <1>3, <2>1, TakePrePrepareAgrees
  <2>3. QED
    BY <1>2, <2>1, <2>2
<1>5. ASSUME NEW n \in Validators, OnPrepare(n) PROVE AInv'
  <2>1. PICK m \in msgs :
          /\ m.type = "Prepare" /\ m.from # n
          /\ m.height = engine[n].height /\ m.round = engine[n].round
          /\ Become(n, TakePrepare(Node(n), n, m))
    BY <1>5 DEF OnPrepare, Deliverable, InStep
  <2>2. /\ AgreeInv(n, TakePrepare(Node(n), n, m), msgs, engine[n].height)
        /\ TakePrepare(Node(n), n, m).store = store[n]
    BY <1>2, <1>3, <2>1, TakePrepareAgrees
  <2>3. QED
    BY <1>2, <2>1, <2>2
<1>6. ASSUME NEW n \in Validators, OnCommit(n) PROVE AInv'
  <2>1. PICK m \in msgs, c \in Contents, w \in Outcomes :
          /\ m.type = "Commit" /\ m.from # n
          /\ m.height = engine[n].height /\ m.round = engine[n].round
          /\ Become(n, TakeCommit(Node(n), n, m, c, w))
    BY <1>6 DEF OnCommit, Deliverable, InStep
  <2> DEFINE t == TakeCommit(Node(n), n, m, c, w)
  <2>2. /\ AgreeInv(n, t, msgs, engine[n].height)
        /\ \A h \in Heights : t.store.blocks[h] # store[n].blocks[h] =>
              Certificate(n, h, t.store.blocks[h].block, msgs \cup t.out)
    BY <1>1, <1>2, <1>3, <2>1, TakeCommitAgrees
  <2> HIDE DEF t
  <2>3. QED
    BY <1>2, <2>1, <2>2 DEF t
<1>7. ASSUME NEW n \in Validators, OnRoundChange(n) PROVE AInv'
  <2>1. PICK m \in msgs, c \in Contents, w \in Outcomes :
          /\ m.type = "RoundChange"
          /\ m.height >= engine[n].height
          /\ m.height = engine[n].height => m.round > engine[n].round
          /\ Become(n, TakeRoundChange(Node(n), n, m, c, w))
    BY <1>7 DEF OnRoundChange, Deliverable
  <2>2. /\ AgreeInv(n, TakeRoundChange(Node(n), n, m, c, w), msgs, engine[n].height)
        /\ TakeRoundChange(Node(n), n, m, c, w).store = store[n]
    BY <1>1, <1>2, <1>3, <2>1, TakeRoundChangeAgrees
  <2>3. QED
    BY <1>2, <2>1, <2>2
<1>8. ASSUME NEW n \in Validators, TimerPropose(n) PROVE AInv'
  <2>1. PICK c \in Contents, w \in Outcomes :
          /\ engine[n].height \in Heights
          /\ Become(n, ProposeNewBlock(Node(n), n, c, w))
    BY <1>8 DEF TimerPropose
  <2>2. /\ AgreeInv(n, ProposeNewBlock(Node(n), n, c, w), msgs, engine[n].height)
        /\ ProposeNewBlock(Node(n), n, c, w).store = store[n]
    <3>1. Node(n).engine = engine[n] /\ Node(n).store = store[n]
      BY DEF Node
    <3>2. Proposed(n, Node(n), ProposeNewBlock(Node(n), n, c, w), msgs,
                   engine[n].height)
      BY <1>1, <1>2, <1>3, <2>1, <3>1, ProposeNewBlockAgrees
    <3>3. QED
      BY <3>1, <3>2 DEF Proposed
  <2>3. QED
    BY <1>2, <2>1, <2>2
<1>9. ASSUME NEW n \in Validators, TimerTimeout(n) PROVE AInv'
  <2>1. PICK c \in Contents, w \in Outcomes :
          Become(n, TakeTimeout(Node(n), n, c, w))
    BY <1>9 DEF TimerTimeout
  <2>2. /\ AgreeInv(n, TakeTimeout(Node(n), n, c, w), msgs, engine[n].height)
        /\ TakeTimeout(Node(n), n, c, w).store = store[n]
    BY <1>1, <1>2, <1>3, <2>1, TakeTimeoutAgrees
  <2>3. QED
    BY <1>2, <2>1, <2>2
<1>10. ASSUME NEW n \in Validators, Restart(n) PROVE AInv'
  BY <1>10 DEF Restart
<1>11. CASE UNCHANGED vars
  BY <1>11 DEF vars, AInv
<1>12. QED
  BY <1>4, <1>5, <1>6, <1>7, <1>8, <1>9, <1>10, <1>11 DEF Next, Handle

(* The initial state satisfies it.                                         *)
LEMMA InitAgrees == Init => AInv
<1> SUFFICES ASSUME Init PROVE AInv
  OBVIOUS
<1>1. msgs = {}
  BY DEF Init
<1>2. ASSUME NEW n \in Validators
      PROVE  /\ engine[n].prepares = {} /\ engine[n].phase = "Idle"
             /\ \A h \in Heights : store[n].blocks[h] = NoBlock
  <2>1. engine[n] = NewEngine(1)
    BY DEF Init
  <2>2. store[n] = [blocks |-> [h \in Heights |-> NoBlock], latest |-> 0]
    BY DEF Init
  <2>3. QED
    BY <2>1, <2>2 DEF NewEngine
<1>3. QED
  BY <1>1, <1>2 DEF AInv, Counts, Committing, Reached

(* Two certificates of a height are of one round: each node has voted in   *)
(* the round of the other, and neither after its own.                      *)
LEMMA CertificatesAgree ==
    ASSUME IInv, AInv, ThreeStay, failures = 0,
           NEW n \in Validators, NEW k \in Validators, NEW h \in Heights,
           store[n].blocks[h] # NoBlock, store[k].blocks[h] # NoBlock,
           ~Ahead(h)
    PROVE  store[n].blocks[h].block = store[k].blocks[h].block
<1> DEFINE b == store[n].blocks[h].block
           d == store[k].blocks[h].block
<1>1. Certificate(n, h, b, msgs) /\ Certificate(k, h, d, msgs)
  BY DEF AInv
<1>2. ~AheadIn(msgs, h)
  BY DEF Ahead, AheadIn
<1> HIDE DEF b, d
<1>3. PICK r \in Nat :
        /\ VotedIn(k, h, r, msgs) /\ HasCommit(n, h, r, b, msgs)
        /\ \A m \in msgs : IsVote(m) /\ m.from = n /\ m.height = h => m.round <= r
  BY <1>1, <1>2 DEF Certificate
<1>4. PICK q \in Nat :
        /\ VotedIn(n, h, q, msgs) /\ HasCommit(k, h, q, d, msgs)
        /\ \A m \in msgs : IsVote(m) /\ m.from = k /\ m.height = h => m.round <= q
  BY <1>1, <1>2 DEF Certificate
<1>5. r <= q /\ q <= r
  BY <1>3, <1>4 DEF VotedIn
<1>6. r = q
  BY <1>5
<1>7. b = d
  <2>1. PICK x \in msgs : /\ x.type = "Commit" /\ x.height = h
                          /\ x.round = r /\ x.block = b
    BY <1>3 DEF HasCommit
  <2>2. PICK y \in msgs : /\ y.type = "Commit" /\ y.height = h
                          /\ y.round = r /\ y.block = d
    BY <1>4, <1>6 DEF HasCommit
  <2>3. QED
    BY <2>1, <2>2, CommitsAgree DEF CommitAgreement, ThreeStay
<1>8. QED
  BY <1>7 DEF b, d

-----------------------------------------------------------------------------
(* For all bounds, contents and orders of messages and timeouts: three     *)
(* validators of which none restarts and no write fails store one block    *)
(* per height, unless the RoundChange of a later height interferes.        *)
THEOREM ThreeAgree == Spec => []AgreementOfThree
<1> DEFINE J == ThreeStay => AInv
<1>1. Init => IInv /\ SInv /\ J
  BY InitInv, InitStores, InitAgrees
<1>2. IInv /\ SInv /\ J /\ [Next]_vars => (IInv /\ SInv /\ J)'
  BY NextInv, NextStores, NextAgrees
<1>3. IInv /\ J => AgreementOfThree
  BY CertificatesAgree DEF AgreementOfThree, ThreeStay
<1> HIDE DEF J
<1>4. QED
  BY <1>1, <1>2, <1>3, PTL DEF Spec
-----------------------------------------------------------------------------
(***************************************************************************)
(* A validator that has broadcast a Commit stays locked, for every number  *)
(* of validators up to four and every number of rounds.                    *)
(*                                                                         *)
(* The argument: a node that counts Prepares counts its own, so the first  *)
(* Prepare of another node completes a quorum of at most three and sets    *)
(* the lock; what a round change leaves behind of the Prepares of another  *)
(* node is left behind together with the lock.                             *)
(***************************************************************************)

(* What n counts, what it has broadcast and what it is locked on.          *)
Holds(n, e, A) ==
    /\ Counts(n, e)
    /\ N <= 4 /\ ~(e.prepares \subseteq {n}) => e.locked # NoLock
    /\ \A m \in A : m.type = "Commit" /\ m.from = n =>
          \/ n \in Restartable
          \/ m.height < e.height
          \/ m.height = e.height /\ (N <= 4 => e.locked # NoLock)
    /\ e.locked # NoLock /\ N >= 3 =>
          HasCommit(n, e.height, e.locked.round, e.locked.block, A)

LockInv(n, s, M) ==
    /\ s \in Nodes
    /\ \A m \in s.out : m.from = n
    /\ Holds(n, s.engine, M \cup s.out)

-----------------------------------------------------------------------------
(* The operators of the engine.                                            *)

(* Up to four validators need a quorum of at most three.                   *)
LEMMA QuorumOfFour ==
    /\ Quorum \in Nat
    /\ N <= 4 => Quorum <= 3
    /\ N >= 3 => Quorum >= 3
BY NAssumption DEF Quorum

(* One's own Prepare and that of another are two.                          *)
LEMMA TwoPrepares ==
    ASSUME NEW P \in SUBSET Validators, NEW n \in P, NEW v, v # n,
           v \in Validators
    PROVE  /\ Cardinality(P \cup {v}) \in Nat
           /\ Cardinality(P \cup {v}) >= 2
<1>1. IsFiniteSet(Validators)
  BY FS_Interval, NAssumption DEF Validators
<1>2. P \cup {v} \in SUBSET Validators /\ {n, v} \in SUBSET (P \cup {v})
  OBVIOUS
<1>3. IsFiniteSet(P \cup {v})
  BY <1>1, <1>2, FS_Subset
<1>4. Cardinality({n, v}) = 2
  <2>1. IsFiniteSet({n}) /\ Cardinality({n}) = 1
    BY FS_Singleton
  <2>2. {n, v} = {n} \cup {v} /\ v \notin {n}
    OBVIOUS
  <2>3. QED
    BY <2>1, <2>2, FS_AddElement
<1>5. QED
  BY <1>2, <1>3, <1>4, FS_Subset, FS_CardinalityType

(* An engine that differs in round, phase or commits only; Prepares may be *)
(* dropped, as a new round does.                                           *)
LEMMA SameHolds ==
    ASSUME NEW n, NEW e, NEW f, NEW A, Holds(n, e, A),
           f.height = e.height, f.locked = e.locked,
           f.prepares = e.prepares \/ f.prepares = {},
           f.phase = "PrePrepared" =>
              /\ e.phase = "PrePrepared" /\ f.proposed = e.proposed
              /\ f.prepares = e.prepares
    PROVE  Holds(n, f, A)
BY DEF Holds, Counts

(* One more message: a Commit of n is of n's height and finds it locked.   *)
LEMMA SendHolds ==
    ASSUME NEW n, NEW e, NEW A, NEW m, Holds(n, e, A),
           m.type = "Commit" /\ m.from = n =>
              m.height = e.height /\ (N <= 4 => e.locked # NoLock)
    PROVE  Holds(n, e, A \cup {m})
BY DEF Holds, HasCommit

(* Counting a Commit touches neither Prepares nor lock (add_commit).       *)
LEMMA AddCommitHolds ==
    ASSUME NEW n, NEW e \in Engines, NEW A, NEW v \in Validators,
           NEW b \in Blocks, Holds(n, e, A)
    PROVE  /\ Holds(n, AddCommit(e, v, b), A)
           /\ AddCommit(e, v, b).locked = e.locked
<1> DEFINE f == AddCommit(e, v, b)
<1>1. /\ f.height = e.height /\ f.proposed = e.proposed
      /\ f.prepares = e.prepares /\ f.phase \in {e.phase, "Committed"}
  BY AddCommitType
<1>2. f.locked = e.locked
  BY DEF AddCommit, Engines
<1> HIDE DEF f
<1>3. Holds(n, f, A)
  BY <1>1, <1>2, SameHolds
<1>4. QED
  BY <1>2, <1>3 DEF f

(* Taking a proposal and counting one's own Prepare: with three validators *)
(* or more that is no quorum, with fewer it sets the lock (propose_block,  *)
(* verify_proposal, add_prepare).                                          *)
LEMMA FirstPrepare ==
    ASSUME NEW n \in Validators, NEW e \in Engines, NEW b \in Blocks,
           Counts(n, e)
    PROVE  LET f == AddPrepare(Adopt(e, b), n, b)
           IN  /\ f \in Engines /\ f.height = e.height /\ f.proposed = b
               /\ f.commits = e.commits /\ Counts(n, f)
               /\ f.prepares \in {e.prepares, {n}}
               /\ \/ f.phase = "PrePrepared" /\ f.locked = e.locked
                  \/ f.phase = "Prepared" /\ f.locked # NoLock /\ N <= 2
<1> DEFINE a == Adopt(e, b)
           f == AddPrepare(a, n, b)
<1>1. /\ a \in Engines
      /\ a.height = e.height /\ a.round = e.round /\ a.proposed = b
      /\ a.phase = "PrePrepared" /\ a.prepares = e.prepares
      /\ a.commits = e.commits /\ a.locked = e.locked
  <2>1. a \in Engines
    BY AdoptType
  <2>2. QED
    BY <2>1 DEF Adopt, Engines
<1> HIDE DEF a
<1>2. /\ f \in Engines
      /\ f.height = e.height /\ f.proposed = b /\ f.commits = e.commits
  BY <1>1, AddPrepareType
<1>3. b # NoBlock
  BY NoBlockAssumption
<1>4. PrepareTaken(a, b)
  BY <1>1 DEF PrepareTaken, Matches
<1>5. CASE n \in a.prepares
  <2>1. f = a
    BY <1>5 DEF AddPrepare
  <2>2. QED
    BY <1>1, <1>3, <1>5, <2>1 DEF Counts, a
<1>6. CASE n \notin a.prepares
  <2>1. a.prepares = {} /\ a.prepares \cup {n} = {n}
    BY <1>1, <1>6 DEF Counts
  <2>2. Cardinality(a.prepares \cup {n}) = 1
    BY <2>1, FS_Singleton
  <2>3. CASE PrepareQuorum(a, n)
    <3>1. N <= 2
      BY <2>2, <2>3, QuorumOfFour, NAssumption DEF PrepareQuorum
    <3>2. /\ f.prepares = {n} /\ f.phase = "Prepared"
          /\ f.locked = [round |-> a.round, block |-> b]
      BY <1>1, <1>4, <1>6, <2>1, <2>3 DEF AddPrepare, Engines
    <3>3. f.locked # NoLock
      BY <1>3, <3>2 DEF NoLock
    <3> HIDE DEF f
    <3>4. QED
      BY <1>2, <3>1, <3>2, <3>3 DEF Counts, f, a
  <2>4. CASE ~PrepareQuorum(a, n)
    <3>1. /\ f.prepares = {n} /\ f.phase = "PrePrepared"
          /\ f.locked = e.locked
      BY <1>1, <1>4, <1>6, <2>1, <2>4 DEF AddPrepare, Engines
    <3> HIDE DEF f
    <3>2. QED
      BY <1>2, <1>3, <3>1 DEF Counts, f, a
  <2>5. QED
    BY <2>3, <2>4
<1>7. QED
  BY <1>5, <1>6

(* So it keeps what n holds.                                               *)
LEMMA OwnPrepareHolds ==
    ASSUME NEW n \in Validators, NEW e \in Engines, NEW A, NEW b \in Blocks,
           Holds(n, e, A)
    PROVE  LET f == AddPrepare(Adopt(e, b), n, b)
           IN  /\ f \in Engines /\ f.height = e.height
               /\ f.phase \in {"PrePrepared", "Prepared"}
               /\ f.phase = "Prepared" => f.locked # NoLock
               /\ Holds(n, f, A)
<1> DEFINE f == AddPrepare(Adopt(e, b), n, b)
<1>1. /\ f \in Engines /\ f.height = e.height /\ Counts(n, f)
      /\ f.prepares \in {e.prepares, {n}}
      /\ \/ f.phase = "PrePrepared" /\ f.locked = e.locked
         \/ f.phase = "Prepared" /\ f.locked # NoLock /\ N <= 2
  BY FirstPrepare DEF Holds
<1> HIDE DEF f
<1>2. Holds(n, f, A)
  BY <1>1, NAssumption DEF Holds
<1>3. QED
  BY <1>1, <1>2 DEF f

-----------------------------------------------------------------------------
(* The handlers.                                                           *)

(* Finalizing frees the lock only by going to the next height, where n has *)
(* not committed to anything yet (finalize_block).                         *)
LEMMA FinalizeHolds ==
    ASSUME NEW n \in Validators, NEW s, NEW M \in SUBSET Messages,
           NEW w \in 0 .. 3, LockInv(n, s, M)
    PROVE  LockInv(n, Finalize(s, w), M)
<1> DEFINE t == Finalize(s, w)
           A == M \cup s.out
           e == s.engine
<1>1. s \in Nodes /\ e \in Engines /\ e.height \in Nat /\ Holds(n, e, A)
  BY DEF LockInv, Nodes, Engines
<1>2. /\ t \in Nodes
      /\ t.out = s.out
      /\ \/ t = s
         \/ CanFinalize(e) /\ t.engine = NewEngine(e.height + 1)
         \/ CanFinalize(e) /\ t.engine = [e EXCEPT !.proposed = NoBlock]
  BY <1>1, FinalizeType
<1>3. \A m \in A : m.height \in Nat
  <2>1. A \subseteq Messages
    BY <1>1 DEF Nodes
  <2>2. QED
    BY <2>1 DEF Messages
<1> HIDE DEF t, A, e
<1>4. CASE t = s
  BY <1>4 DEF t
<1>5. CASE CanFinalize(e) /\ t.engine = NewEngine(e.height + 1)
  <2>1. /\ t.engine.height = e.height + 1 /\ t.engine.phase = "Idle"
        /\ t.engine.prepares = {} /\ t.engine.locked = NoLock
    BY <1>5 DEF NewEngine
  <2>2. \A m \in A : m.type = "Commit" /\ m.from = n =>
           n \in Restartable \/ m.height < e.height + 1
    BY <1>1, <1>3 DEF Holds
  <2>3. Holds(n, t.engine, A)
    BY <2>1, <2>2 DEF Holds, Counts
  <2>4. QED
    BY <1>2, <2>3 DEF LockInv, t, A
<1>6. CASE CanFinalize(e) /\ t.engine = [e EXCEPT !.proposed = NoBlock]
  <2>1. /\ t.engine.height = e.height /\ t.engine.locked = e.locked
        /\ t.engine.prepares = e.prepares /\ t.engine.phase = "Committed"
    BY <1>1, <1>6 DEF CanFinalize, Engines
  <2>2. Holds(n, t.engine, A)
    BY <1>1, <2>1, SameHolds
  <2>3. QED
    BY <1>2, <2>2 DEF LockInv, t, A
<1>7. QED
  BY <1>2, <1>4, <1>5, <1>6

(* A message that is no Commit, together with a new engine.                *)
LEMMA SilentHolds ==
    ASSUME NEW n \in Validators, NEW s, NEW M \in SUBSET Messages,
           NEW m \in Messages, NEW e \in Engines,
           LockInv(n, s, M), m.from = n, m.type # "Commit",
           Holds(n, e, M \cup s.out)
    PROVE  LockInv(n, [Send(s, m) EXCEPT !.engine = e], M)
<1> DEFINE t == [Send(s, m) EXCEPT !.engine = e]
<1>1. t \in Nodes /\ t.engine = e /\ t.out = s.out \cup {m}
  BY SendType, EngineType DEF LockInv
<1> HIDE DEF t
<1>2. M \cup t.out = (M \cup s.out) \cup {m}
  BY <1>1
<1>3. Holds(n, e, M \cup t.out)
  BY <1>2, SendHolds
<1>4. \A x \in t.out : x.from = n
  BY <1>1 DEF LockInv
<1>5. QED
  BY <1>1, <1>3, <1>4 DEF LockInv, t

(* Proposing (propose_new_block).                                          *)
LEMMA ProposeNewBlockHolds ==
    ASSUME NEW n \in Validators, NEW s, NEW M \in SUBSET Messages,
           NEW c \in Contents, NEW w \in 0 .. 3,
           LockInv(n, s, M), s.engine.height \in Heights
    PROVE  LockInv(n, ProposeNewBlock(s, n, c, w), M)
<1> DEFINE e == s.engine
           b == [number |-> e.height, validator |-> n, content |-> c]
           m == Message("PrePrepare", e, b, n)
           e1 == AddPrepare(Adopt(e, b), n, b)
           e2 == AddCommit(e1, n, b)
           t == [Send(s, m) EXCEPT !.engine = e2]
<1>1. CASE e.phase # "Idle"
  BY <1>1 DEF ProposeNewBlock
<1>2. CASE e.phase = "Idle"
  <2>1. /\ e \in Engines /\ e.height \in Nat /\ e.round \in Nat
        /\ Holds(n, e, M \cup s.out)
    BY DEF LockInv, Nodes, Engines
  <2>2. b \in Blocks
    BY DEF Blocks
  <2>3. m \in Messages /\ m.type = "PrePrepare" /\ m.from = n
    BY <2>1, <2>2 DEF Message, Messages
  <2> HIDE DEF b, m
  <2>4. e1 \in Engines /\ Holds(n, e1, M \cup s.out)
    BY <2>1, <2>2, OwnPrepareHolds
  <2> HIDE DEF e1
  <2>5. e2 \in Engines /\ Holds(n, e2, M \cup s.out)
    BY <2>2, <2>4, AddCommitHolds, AddCommitType
  <2> HIDE DEF e2
  <2>6. LockInv(n, t, M)
    BY <2>3, <2>5, SilentHolds
  <2> HIDE DEF t
  <2>7. ProposeNewBlock(s, n, c, w) = Finalize(t, w)
    BY <1>2 DEF ProposeNewBlock, t, m, b, e1, e2
  <2>8. QED
    BY <2>6, <2>7, FinalizeHolds
<1>3. QED
  BY <1>1, <1>2

(* The same when only a proposer may propose.                              *)
LEMMA ProposeIfProposerHolds ==
    ASSUME NEW n \in Validators, NEW s, NEW M \in SUBSET Messages,
           NEW c \in Contents, NEW w \in 0 .. 3,
           LockInv(n, s, M)
    PROVE  LockInv(n, ProposeIfProposer(s, n, c, w), M)
BY ProposeNewBlockHolds DEF ProposeIfProposer

(* Broadcasting a Commit from a locked engine.                             *)
LEMMA BroadcastCommitHolds ==
    ASSUME NEW n \in Validators, NEW s, NEW M \in SUBSET Messages,
           NEW m \in Messages, LockInv(n, s, M),
           m.height = s.engine.height,
           N <= 4 => s.engine.locked # NoLock
    PROVE  /\ LockInv(n, BroadcastCommit(s, m, n), M)
           /\ BroadcastCommit(s, m, n).engine = s.engine
<1> DEFINE b == s.engine.proposed
           x == Message("Commit", m, b, n)
<1>1. s \in Nodes /\ s.engine \in Engines /\ b \in Blocks \cup {NoBlock}
  BY DEF LockInv, Nodes, Engines
<1>2. CASE b = NoBlock
  BY <1>2 DEF BroadcastCommit
<1>3. CASE b # NoBlock
  <2>1. x \in Messages /\ x.type = "Commit" /\ x.height = m.height /\ x.from = n
    BY <1>1 DEF Message, Messages
  <2>2. BroadcastCommit(s, m, n) = Send(s, x)
    BY <1>3 DEF BroadcastCommit
  <2> HIDE DEF x
  <2>3. /\ Send(s, x) \in Nodes /\ Send(s, x).engine = s.engine
        /\ Send(s, x).out = s.out \cup {x}
    BY <1>1, <2>1, SendType
  <2>4. Holds(n, s.engine, (M \cup s.out) \cup {x})
    BY <2>1, SendHolds DEF LockInv
  <2>5. M \cup Send(s, x).out = (M \cup s.out) \cup {x}
    BY <2>3
  <2>6. LockInv(n, Send(s, x), M)
    BY <2>1, <2>3, <2>4, <2>5 DEF LockInv
  <2>7. QED
    BY <2>2, <2>3, <2>6
<1>4. QED
  BY <1>2, <1>3

(* Arm PrePrepare.                                                         *)
LEMMA TakePrePrepareHolds ==
    ASSUME NEW n \in Validators, NEW s, NEW M \in SUBSET Messages,
           NEW m \in Messages, NEW w \in 0 .. 3,
           LockInv(n, s, M), m.block \in Blocks,
           m.height = s.engine.height
    PROVE  LockInv(n, TakePrePrepare(s, n, m, w), M)
<1> DEFINE e == AddPrepare(Adopt(s.engine, m.block), n, m.block)
           x == Message("Prepare", m, m.block, n)
           s1 == [Send(s, x) EXCEPT !.engine = e]
           f == AddCommit(e, n, m.block)
           s2 == [BroadcastCommit(s1, m, n) EXCEPT !.engine = f]
<1>1. s \in Nodes /\ s.engine \in Engines /\ Holds(n, s.engine, M \cup s.out)
  BY DEF LockInv, Nodes
<1>2. /\ e \in Engines /\ e.height = m.height
      /\ e.phase = "Prepared" => e.locked # NoLock
      /\ Holds(n, e, M \cup s.out)
  BY <1>1, OwnPrepareHolds
<1>3. x \in Messages /\ x.from = n /\ x.type # "Commit"
  BY DEF Message, Messages
<1> HIDE DEF e, x
<1>4. LockInv(n, s1, M) /\ s1.engine = e
  BY <1>1, <1>2, <1>3, SilentHolds, SendType, EngineType
<1> HIDE DEF s1
<1>5. CASE e.phase = "Prepared"
  <2> DEFINE t == BroadcastCommit(s1, m, n)
  <2>1. LockInv(n, t, M) /\ t.engine = e
    BY <1>2, <1>4, <1>5, BroadcastCommitHolds
  <2> HIDE DEF t
  <2>2. f \in Engines /\ Holds(n, f, M \cup t.out)
    BY <1>2, <2>1, AddCommitType, AddCommitHolds DEF LockInv
  <2> HIDE DEF f
  <2>3. LockInv(n, [t EXCEPT !.engine = f], M)
    BY <2>1, <2>2, EngineType DEF LockInv
  <2>4. TakePrePrepare(s, n, m, w) = Finalize([t EXCEPT !.engine = f], w)
    BY <1>5 DEF TakePrePrepare, t, s1, e, f, x
  <2>5. QED
    BY <2>3, <2>4, FinalizeHolds
<1>6. CASE e.phase # "Prepared"
  <2>1. TakePrePrepare(s, n, m, w) = s1
    BY <1>6 DEF TakePrePrepare, s1, e, x
  <2>2. QED
    BY <1>4, <2>1
<1>7. QED
  BY <1>5, <1>6

(* Counting the Prepare of another node: it is new and completes a quorum  *)
(* that locks the node on what it commits to, or the node was locked       *)
(* before (add_prepare).                                                   *)
LEMMA OtherPrepareHolds ==
    ASSUME NEW n \in Validators, NEW e \in Engines, NEW A,
           NEW v \in Validators \ {n}, NEW b \in Blocks \cup {NoBlock},
           Holds(n, e, A)
    PROVE  LET f == AddPrepare(e, v, b)
           IN  \/ Holds(n, f, A) /\ (PrepareResult(e, v, b) /\ N <= 4
                                        => f.locked # NoLock)
              \/ /\ PrepareResult(e, v, b)
                 /\ f.locked = [round |-> e.round, block |-> b]
                 /\ b # NoBlock /\ e.proposed = b
                 /\ Counts(n, f)
<1> DEFINE f == AddPrepare(e, v, b)
<1>1. /\ f \in Engines /\ f.height = e.height /\ f.proposed = e.proposed
      /\ Counts(n, f)
  BY AddPrepareType, OtherPrepare DEF Holds
<1>2. CASE ~PrepareTaken(e, b)
  BY <1>2 DEF AddPrepare, PrepareResult
<1>3. CASE PrepareTaken(e, b) /\ v \in e.prepares
  <2>1. f = e
    BY <1>3 DEF AddPrepare
  <2>2. N <= 4 => e.locked # NoLock
    BY <1>3 DEF Holds
  <2>3. QED
    BY <2>1, <2>2
<1>4. CASE PrepareTaken(e, b) /\ v \notin e.prepares
  <2>1. /\ n \in e.prepares /\ e.prepares \in SUBSET Validators
        /\ e.proposed # NoBlock /\ e.proposed = b
    BY <1>4 DEF PrepareTaken, Matches, Holds, Counts, Engines
  <2>2. CASE PrepareQuorum(e, v)
    <3>1. f.locked = [round |-> e.round, block |-> b]
      BY <1>4, <2>2 DEF AddPrepare, Engines
    <3>2. PrepareResult(e, v, b)
      BY <1>4, <2>2 DEF PrepareResult
    <3>3. QED
      BY <1>1, <2>1, <3>1, <3>2
  <2>3. CASE ~PrepareQuorum(e, v)
    <3>1. N > 4
      <4>1. /\ Cardinality(e.prepares \cup {v}) \in Nat
            /\ Cardinality(e.prepares \cup {v}) >= 2
        BY <2>1, TwoPrepares
      <4>2. QED
        BY <2>3, <4>1, QuorumOfFour, NAssumption DEF PrepareQuorum
    <3>2. f.locked = e.locked
      BY <1>4, <2>3 DEF AddPrepare, Engines
    <3>3. ~(N <= 4)
      BY <3>1, NAssumption
    <3> HIDE DEF f
    <3>4. Holds(n, f, A)
      BY <1>1, <3>2, <3>3 DEF Holds
    <3>5. QED
      BY <3>3, <3>4 DEF f
  <2>4. QED
    BY <2>2, <2>3
<1>5. QED
  BY <1>2, <1>3, <1>4

(* Arm Prepare: the Commit goes out in the step that sets the lock.        *)
LEMMA TakePrepareHolds ==
    ASSUME NEW n \in Validators, NEW s, NEW M \in SUBSET Messages,
           NEW m \in Messages, LockInv(n, s, M), m.from # n,
           m.height = s.engine.height, m.round = s.engine.round
    PROVE  LockInv(n, TakePrepare(s, n, m), M)
<1> DEFINE e == s.engine
           f == AddPrepare(e, m.from, m.block)
           s1 == [s EXCEPT !.engine = f]
           A == M \cup s.out
<1>1. /\ s \in Nodes /\ e \in Engines /\ Holds(n, e, A)
      /\ m.from \in Validators \ {n} /\ m.block \in Blocks \cup {NoBlock}
  BY DEF LockInv, Nodes, Messages
<1>2. f \in Engines /\ f.height = e.height /\ f.proposed = e.proposed
  BY <1>1, AddPrepareType
<1>3. \/ Holds(n, f, A) /\ (PrepareResult(e, m.from, m.block) /\ N <= 4
                               => f.locked # NoLock)
      \/ /\ PrepareResult(e, m.from, m.block)
         /\ f.locked = [round |-> e.round, block |-> m.block]
         /\ m.block # NoBlock /\ e.proposed = m.block
         /\ Counts(n, f)
  BY <1>1, OtherPrepareHolds
<1> HIDE DEF f
<1>4. s1 \in Nodes /\ s1.engine = f /\ s1.out = s.out
  BY <1>1, <1>2, EngineType
<1> HIDE DEF s1
<1>5. TakePrepare(s, n, m) =
        IF PrepareResult(e, m.from, m.block)
        THEN BroadcastCommit(s1, m, n) ELSE s1
  BY DEF TakePrepare, s1, f
<1>6. CASE Holds(n, f, A) /\ (PrepareResult(e, m.from, m.block) /\ N <= 4
                                => f.locked # NoLock)
  <2>1. LockInv(n, s1, M)
    BY <1>4, <1>6 DEF LockInv
  <2>2. QED
    BY <1>2, <1>4, <1>5, <1>6, <2>1, BroadcastCommitHolds
<1>7. CASE /\ PrepareResult(e, m.from, m.block)
           /\ f.locked = [round |-> e.round, block |-> m.block]
           /\ m.block # NoBlock /\ e.proposed = m.block
           /\ Counts(n, f)
  <2> DEFINE x == Message("Commit", m, m.block, n)
             t == Send(s1, x)
  <2>1. /\ x \in Messages /\ x.type = "Commit" /\ x.from = n
        /\ x.height = e.height /\ x.round = e.round /\ x.block = m.block
    BY <1>1 DEF Message, Messages
  <2>2. TakePrepare(s, n, m) = t
    BY <1>2, <1>4, <1>5, <1>7 DEF BroadcastCommit
  <2> HIDE DEF x
  <2>3. t \in Nodes /\ t.engine = f /\ t.out = s.out \cup {x}
    BY <1>4, <2>1, SendType
  <2> HIDE DEF t
  <2>4. f.locked # NoLock /\ f.locked.round = e.round /\ f.locked.block = m.block
    BY <1>7 DEF NoLock
  <2>5. HasCommit(n, f.height, f.locked.round, f.locked.block, M \cup t.out)
    BY <1>2, <2>1, <2>3, <2>4 DEF HasCommit
  <2>6. \A y \in M \cup t.out : y.type = "Commit" /\ y.from = n =>
           n \in Restartable \/ y.height < f.height \/ y.height = f.height
    BY <1>1, <1>2, <2>1, <2>3 DEF Holds
  <2>7. Holds(n, f, M \cup t.out)
    BY <1>7, <2>4, <2>5, <2>6 DEF Holds
  <2>8. \A y \in t.out : y.from = n
    BY <2>1, <2>3 DEF LockInv
  <2>9. QED
    BY <2>2, <2>3, <2>7, <2>8 DEF LockInv
<1>8. QED
  BY <1>3, <1>6, <1>7

(* A new engine after an arm that keeps Prepares, lock and height.         *)
LEMMA EngineHolds ==
    ASSUME NEW n, NEW s, NEW M \in SUBSET Messages, NEW e \in Engines,
           LockInv(n, s, M), Holds(n, e, M \cup s.out)
    PROVE  LockInv(n, [s EXCEPT !.engine = e], M)
BY EngineType DEF LockInv

(* Arm Commit.                                                             *)
LEMMA TakeCommitHolds ==
    ASSUME NEW n \in Validators, NEW s, NEW M \in SUBSET Messages,
           NEW m \in Messages, NEW c \in Contents, NEW w \in 0 .. 3,
           LockInv(n, s, M), m.block \in Blocks
    PROVE  LockInv(n, TakeCommit(s, n, m, c, w), M)
<1> DEFINE e == AddCommit(s.engine, m.from, m.block)
           s1 == [s EXCEPT !.engine = e]
           s2 == Finalize(s1, w)
<1>1. s \in Nodes /\ s.engine \in Engines /\ m.from \in Validators
  BY DEF LockInv, Nodes, Messages
<1>2. e \in Engines /\ Holds(n, e, M \cup s.out)
  BY <1>1, AddCommitType, AddCommitHolds DEF LockInv
<1> HIDE DEF e
<1>3. LockInv(n, s1, M)
  BY <1>2, EngineHolds
<1> HIDE DEF s1
<1>4. LockInv(n, s2, M)
  BY <1>3, FinalizeHolds
<1> HIDE DEF s2
<1>5. TakeCommit(s, n, m, c, w) \in {s1, s2, ProposeIfProposer(s2, n, c, w)}
  BY DEF TakeCommit, s1, s2, e
<1>6. QED
  BY <1>3, <1>4, <1>5, ProposeIfProposerHolds

(* Arm RoundChange keeps Prepares and lock (start_new_round).              *)
LEMMA TakeRoundChangeHolds ==
    ASSUME NEW n \in Validators, NEW s, NEW M \in SUBSET Messages,
           NEW m \in Messages, NEW c \in Contents, NEW w \in 0 .. 3,
           LockInv(n, s, M), m.type = "RoundChange"
    PROVE  LockInv(n, TakeRoundChange(s, n, m, c, w), M)
<1> DEFINE o == s.engine
           e == [o EXCEPT !.round = m.round, !.phase = "Idle"]
           x == [m EXCEPT !.from = n]
           t == [Send(s, x) EXCEPT !.engine = e]
<1>1. o \in Engines /\ m.round \in Nat /\ Holds(n, o, M \cup s.out)
  BY DEF LockInv, Nodes, Messages
<1>2. /\ e \in Engines
      /\ e.height = o.height /\ e.phase = "Idle"
      /\ e.prepares = o.prepares /\ e.locked = o.locked
  BY <1>1 DEF Engines, Phases
<1>3. x \in Messages /\ x.type = "RoundChange" /\ x.from = n
  BY DEF Messages
<1>4. Holds(n, e, M \cup s.out)
  BY <1>1, <1>2, SameHolds
<1> HIDE DEF e, x
<1>5. LockInv(n, t, M)
  BY <1>2, <1>3, <1>4, SilentHolds
<1>6. TakeRoundChange(s, n, m, c, w) = ProposeIfProposer(t, n, c, w)
  BY DEF TakeRoundChange, e, x
<1>7. QED
  BY <1>5, <1>6, ProposeIfProposerHolds

(* The timeout drops the Prepares and keeps the lock (on_timeout).         *)
LEMMA TakeTimeoutHolds ==
    ASSUME NEW n \in Validators, NEW s, NEW M \in SUBSET Messages,
           NEW c \in Contents, NEW w \in 0 .. 3, LockInv(n, s, M)
    PROVE  LockInv(n, TakeTimeout(s, n, c, w), M)
<1> DEFINE o == s.engine
           e == OnTimeout(o)
           x == Message("RoundChange", e, NoBlock, n)
           t == [Send(s, x) EXCEPT !.engine = e]
<1>1. o \in Engines /\ Holds(n, o, M \cup s.out)
  BY DEF LockInv, Nodes
<1>2. e \in Engines
  BY <1>1, OnTimeoutType
<1>3. /\ e.height = o.height /\ e.phase = "Idle" /\ e.prepares = {}
      /\ e.locked = o.locked /\ e.height \in Nat /\ e.round \in Nat
  BY <1>1, <1>2 DEF OnTimeout, Engines
<1> HIDE DEF e
<1>4. x \in Messages /\ x.type = "RoundChange" /\ x.from = n
  BY <1>3 DEF Message, Messages
<1>5. Holds(n, e, M \cup s.out)
  BY <1>1, <1>3, SameHolds
<1> HIDE DEF x
<1>6. LockInv(n, t, M)
  BY <1>2, <1>4, <1>5, SilentHolds
<1>7. TakeTimeout(s, n, c, w) = ProposeIfProposer(t, n, c, w)
  BY DEF TakeTimeout, e, x
<1>8. QED
  BY <1>6, <1>7, ProposeIfProposerHolds

-----------------------------------------------------------------------------
(* The inductive invariant of the specification.                           *)

LInv == \A n \in Validators : Holds(n, engine[n], msgs)

(* The node record a handler starts from.                                  *)
LEMMA LockStart ==
    ASSUME IInv, LInv, NEW n \in Validators
    PROVE  LockInv(n, Node(n), msgs)
<1>1. /\ Node(n) \in Nodes
      /\ Node(n).engine = engine[n]
      /\ Node(n).out = {}
  BY DEF IInv, TypeOK, Node, Nodes
<1>2. msgs \cup Node(n).out = msgs
  BY <1>1
<1>3. QED
  BY <1>1, <1>2 DEF LockInv, LInv

(* What n sends says nothing of the locks of the others.                   *)
LEMMA BecomeHolds ==
    ASSUME IInv, LInv, NEW n \in Validators, NEW s,
           LockInv(n, s, msgs), Become(n, s)
    PROVE  LInv'
<1> DEFINE B == msgs \cup s.out
<1>1. engine' = [engine EXCEPT ![n] = s.engine] /\ msgs' = B
  BY DEF Become
<1>2. engine \in [Validators -> Engines]
  BY DEF IInv, TypeOK
<1>3. (\A m \in s.out : m.from = n) /\ Holds(n, s.engine, B)
  BY DEF LockInv
<1> SUFFICES ASSUME NEW k \in Validators PROVE Holds(k, engine'[k], B)
  BY <1>1 DEF LInv
<1>4. CASE k = n
  BY <1>1, <1>2, <1>3, <1>4
<1>5. CASE k # n
  <2>1. engine'[k] = engine[k]
    BY <1>1, <1>2, <1>5
  <2>2. \A m \in B : m.from = k => m \in msgs
    BY <1>3, <1>5
  <2>3. Holds(k, engine[k], msgs)
    BY DEF LInv
  <2>4. msgs \subseteq B
    OBVIOUS
  <2> HIDE DEF B
  <2>5. Holds(k, engine[k], B)
    BY <2>2, <2>3, <2>4 DEF Holds, HasCommit
  <2>6. QED
    BY <2>1, <2>5
<1>6. QED
  BY <1>4, <1>5

(* Every message received, every timer and every restart keeps it.         *)
LEMMA NextHolds ==
    IInv /\ LInv /\ [Next]_vars => LInv'
<1> SUFFICES ASSUME IInv, LInv, [Next]_vars PROVE LInv'
  OBVIOUS
<1> USE LockStart, BecomeHolds
<1>1. Outcomes \subseteq 0 .. 3
  BY DEF Outcomes
<1>2. msgs \in SUBSET Messages /\ \A m \in msgs : m \in Messages /\ Good(m, msgs)
  BY DEF IInv, TypeOK
<1>3. ASSUME NEW n \in Validators PROVE Node(n).engine = engine[n]
  BY DEF Node
<1>4. ASSUME NEW n \in Validators, OnPrePrepare(n) PROVE LInv'
  <2>1. PICK m \in msgs, w \in Outcomes :
          /\ m.type = "PrePrepare" /\ m.height = engine[n].height
          /\ Become(n, TakePrePrepare(Node(n), n, m, w))
    BY <1>4 DEF OnPrePrepare, Deliverable, InStep
  <2>2. m.block \in Blocks
    BY <1>2, <2>1 DEF Good
  <2>3. QED
    BY <1>1, <1>2, <1>3, <2>1, <2>2, TakePrePrepareHolds
<1>5. ASSUME NEW n \in Validators, OnPrepare(n) PROVE LInv'
  <2>1. PICK m \in msgs :
          /\ m.from # n
          /\ m.height = engine[n].height /\ m.round = engine[n].round
          /\ Become(n, TakePrepare(Node(n), n, m))
    BY <1>5 DEF OnPrepare, InStep, Deliverable
  <2>2. QED
    BY <1>2, <1>3, <2>1, TakePrepareHolds
<1>6. ASSUME NEW n \in Validators, OnCommit(n) PROVE LInv'
  <2>1. PICK m \in msgs, c \in Contents, w \in Outcomes :
          /\ m.type = "Commit"
          /\ Become(n, TakeCommit(Node(n), n, m, c, w))
    BY <1>6 DEF OnCommit, Deliverable
  <2>2. m.block \in Blocks
    BY <1>2, <2>1 DEF Good
  <2>3. QED
    BY <1>1, <1>2, <2>1, <2>2, TakeCommitHolds
<1>7. ASSUME NEW n \in Validators, OnRoundChange(n) PROVE LInv'
  <2>1. PICK m \in msgs, c \in Contents, w \in Outcomes :
          /\ m.type = "RoundChange"
          /\ Become(n, TakeRoundChange(Node(n), n, m, c, w))
    BY <1>7 DEF OnRoundChange, Deliverable
  <2>2. QED
    BY <1>1, <1>2, <2>1, TakeRoundChangeHolds
<1>8. ASSUME NEW n \in Validators, TimerPropose(n) PROVE LInv'
  <2>1. PICK c \in Contents, w \in Outcomes :
          /\ engine[n].height \in Heights
          /\ Become(n, ProposeNewBlock(Node(n), n, c, w))
    BY <1>8 DEF TimerPropose
  <2>2. QED
    BY <1>1, <1>2, <1>3, <2>1, ProposeNewBlockHolds
<1>9. ASSUME NEW n \in Validators, TimerTimeout(n) PROVE LInv'
  <2>1. PICK c \in Contents, w \in Outcomes :
          Become(n, TakeTimeout(Node(n), n, c, w))
    BY <1>9 DEF TimerTimeout
  <2>2. QED
    BY <1>1, <1>2, <2>1, TakeTimeoutHolds
<1>10. ASSUME NEW n \in Validators, Restart(n) PROVE LInv'
  <2> DEFINE e == NewEngine(store[n].latest + 1)
  <2>1. e.phase = "Idle" /\ e.prepares = {} /\ e.locked = NoLock
    BY DEF NewEngine
  <2>2. /\ engine' = [engine EXCEPT ![n] = e] /\ msgs' = msgs
        /\ n \in Restartable
    BY <1>10 DEF Restart
  <2> HIDE DEF e
  <2>3. Holds(n, e, msgs)
    BY <2>1, <2>2 DEF Holds, Counts
  <2>4. \A k \in Validators : Holds(k, engine'[k], msgs)
    BY <2>2, <2>3 DEF IInv, TypeOK, LInv
  <2>5. QED
    BY <2>2, <2>4 DEF LInv
<1>11. CASE UNCHANGED vars
  BY <1>11 DEF vars, LInv
<1>12. QED
  BY <1>4, <1>5, <1>6, <1>7, <1>8, <1>9, <1>10, <1>11 DEF Next, Handle

(* Nobody has counted or sent anything in the initial state.               *)
LEMMA InitHolds == Init => LInv
<1> SUFFICES ASSUME Init, NEW n \in Validators
             PROVE  Holds(n, engine[n], msgs)
  BY DEF LInv
<1>1. engine[n] = NewEngine(1) /\ msgs = {}
  BY DEF Init
<1>2. QED
  BY <1>1 DEF Holds, Counts, NewEngine

(* However many rounds time out and in whatever order messages arrive, a   *)
(* validator that broadcast a Commit for its height stays locked, on a     *)
(* block it broadcast a Commit for: for any number of heights, rounds and  *)
(* failures (add_prepare, on_timeout, finalize_block).                     *)
THEOREM CommitsAreRemembered == Spec => []CommitIsRemembered
<1>1. IInv /\ LInv => CommitIsRemembered
  <2> SUFFICES ASSUME IInv, LInv, NEW n \in Validators
               PROVE  LET mine == {m \in Sent("Commit", engine[n].height) :
                                      m.from = n}
                          lock == engine[n].locked
                      IN  /\ mine # {} /\ n \notin Restartable /\ N <= 4
                                => lock # NoLock
                          /\ lock # NoLock /\ N >= 3 =>
                                \E m \in mine : m.round = lock.round
                                                /\ m.block = lock.block
    BY DEF CommitIsRemembered
  <2>1. Holds(n, engine[n], msgs) /\ engine[n].height \in Nat
    BY DEF LInv, IInv, TypeOK, Engines
  <2>2. ASSUME NEW m \in Sent("Commit", engine[n].height), m.from = n,
               n \notin Restartable, N <= 4
        PROVE  engine[n].locked # NoLock
    BY <2>1, <2>2 DEF Sent, Holds
  <2>3. ASSUME engine[n].locked # NoLock, N >= 3
        PROVE  \E m \in Sent("Commit", engine[n].height) :
                  /\ m.from = n
                  /\ m.round = engine[n].locked.round
                  /\ m.block = engine[n].locked.block
    BY <2>1, <2>3 DEF Sent, Holds, HasCommit
  <2>4. QED
    BY <2>2, <2>3
<1>2. QED
  BY <1>1, InitHolds, NextHolds, InitInv, NextInv, PTL DEF Spec

(***************************************************************************)
(* Every stored block carries a quorum of seals, each of which its         *)
(* validator did broadcast, for every number of validators, any restarts   *)
(* and any failed writes.                                                  *)
(*                                                                         *)
(* The seals an engine collects at a height may be of different rounds and *)
(* blocks, as a round change keeps them; they are still seals of that      *)
(* height from distinct validators.                                        *)
(***************************************************************************)

CommittedTo(v, h, b, A) ==
    \E m \in A : m.type = "Commit" /\ m.from = v /\ m.height = h /\ m.block = b

(* No two seals of one validator.                                          *)
Distinct(S) == \A s, t \in S : s.validator = t.validator => s = t

(* Each seal in S but n's own was broadcast for height h.                  *)
Genuine(S, n, h, A) ==
    \A s \in S : s.validator = n \/ CommittedTo(s.validator, h, s.block, A)

Voters(S) == {s.validator : s \in S}

(* What an engine has collected.                                           *)
Sealed(n, e, A) ==
    /\ Counts(n, e)
    /\ e.proposed # NoBlock => e.proposed.number = e.height
    /\ Distinct(e.commits) /\ Genuine(e.commits, n, e.height, A)
    /\ e.phase = "Committed" => Cardinality(Voters(e.commits)) + 1 >= Quorum
    /\ N >= 3 /\ e.phase \in {"Prepared", "Committed"} /\ e.proposed # NoBlock =>
          CommittedTo(n, e.height, e.proposed, A)

(* What is stored of a height.                                             *)
CertifiedAt(n, h, r, A) ==
    /\ r.block.number = h
    /\ Cardinality(Voters(r.commits)) + 1 >= Quorum
    /\ Distinct(r.commits) /\ Genuine(r.commits, n, h, A)
    /\ N >= 3 => CommittedTo(n, h, r.block, A)

Certified(n, st, A) ==
    \A h \in Heights :
        st.blocks[h] # NoBlock => CertifiedAt(n, h, st.blocks[h], A)

SealInv(n, s, M) ==
    /\ s \in Nodes
    /\ \A m \in s.out : m.from = n
    /\ Sealed(n, s.engine, M \cup s.out)
    /\ Certified(n, s.store, M \cup s.out)

-----------------------------------------------------------------------------
(* Operators.                                                              *)

(* Seals of distinct validators are as many as their validators.           *)
LEMMA DistinctSeals ==
    ASSUME NEW S \in SUBSET Seals, Distinct(S)
    PROVE  /\ IsFiniteSet(Voters(S)) /\ Cardinality(Voters(S)) \in Nat
           /\ Cardinality(Voters(S)) = Cardinality(S)
<1> DEFINE f == [s \in S |-> s.validator]
<1>1. IsFiniteSet(Validators)
  BY FS_Interval, NAssumption DEF Validators
<1>2. Voters(S) \in SUBSET Validators
  BY DEF Voters, Seals
<1>3. IsFiniteSet(Voters(S)) /\ Cardinality(Voters(S)) \in Nat
  BY <1>1, <1>2, FS_Subset, FS_CardinalityType
<1>4. f \in [S -> Voters(S)] /\ \A s \in S : f[s] = s.validator
  BY DEF Voters
<1>5. \A v \in Voters(S) : \E s \in S : f[s] = v
  BY DEF Voters
<1> HIDE DEF f
<1>6. f \in Bijection(S, Voters(S))
  BY <1>4, <1>5 DEF Distinct, Bijection, Injection, Surjection, IsInjective
<1>7. IsFiniteSet(S)
  BY <1>3, <1>6, FS_Injection DEF Bijection
<1>8. Cardinality(Voters(S)) = Cardinality(S)
  BY <1>6, <1>7, FS_Bijection DEF ExistsBijection
<1>9. QED
  BY <1>3, <1>8

(* What was broadcast stays so.                                            *)
LEMMA SealsStay ==
    ASSUME NEW A, NEW B, A \subseteq B
    PROVE  /\ \A n, e : Sealed(n, e, A) => Sealed(n, e, B)
           /\ \A n, st : Certified(n, st, A) => Certified(n, st, B)
<1>1. \A v, h, b : CommittedTo(v, h, b, A) => CommittedTo(v, h, b, B)
  BY DEF CommittedTo
<1>2. \A S, n, h : Genuine(S, n, h, A) => Genuine(S, n, h, B)
  BY <1>1 DEF Genuine
<1>3. \A n, e : Sealed(n, e, A) => Sealed(n, e, B)
  BY <1>1, <1>2 DEF Sealed
<1>4. \A n, h, r : CertifiedAt(n, h, r, A) => CertifiedAt(n, h, r, B)
  BY <1>1, <1>2 DEF CertifiedAt
<1>5. \A n, st : Certified(n, st, A) => Certified(n, st, B)
  BY <1>4 DEF Certified
<1>6. QED
  BY <1>3, <1>5

(* Counting a Commit that was broadcast, or one's own (add_commit).        *)
LEMMA AddCommitSealed ==
    ASSUME NEW n, NEW e \in Engines, NEW A, NEW v \in Validators,
           NEW b \in Blocks, Sealed(n, e, A),
           v = n \/ CommittedTo(v, e.height, b, A)
    PROVE  Sealed(n, AddCommit(e, v, b), A)
<1> DEFINE f == AddCommit(e, v, b)
           c == [validator |-> v, block |-> b]
           S == e.commits \cup {c}
<1>1. CASE ~CommitTaken(e, b) \/ v \in Committers(e)
  BY <1>1 DEF AddCommit
<1>2. CASE CommitTaken(e, b) /\ v \notin Committers(e)
  <2>1. /\ f.height = e.height /\ f.proposed = e.proposed
        /\ f.prepares = e.prepares
        /\ f.phase \in {e.phase, "Committed"}
        /\ f.phase # e.phase => e.phase = "Prepared"
    BY AddCommitType
  <2>2. c.validator = v /\ c.block = b /\ c \in Seals /\ S \in SUBSET Seals
    BY DEF Seals, Engines
  <2>3. /\ f.commits = S
        /\ f.phase = IF CommitQuorum(e, v) THEN "Committed" ELSE e.phase
    <3> HIDE DEF c, S
    <3>1. f = [e EXCEPT !.commits = S,
                        !.phase = IF CommitQuorum(e, v) THEN "Committed" ELSE e.phase]
      BY <1>2 DEF AddCommit, c, S
    <3>2. QED
      BY <3>1 DEF Engines
  <2>4. \A s \in e.commits : s.validator # v
    BY <1>2 DEF Committers
  <2> HIDE DEF c
  <2>5. Distinct(S) /\ Genuine(S, n, e.height, A)
    BY <2>2, <2>4 DEF Sealed, Distinct, Genuine
  <2>6. Voters(S) = Committers(e) \cup {v} /\ Voters(e.commits) = Committers(e)
    BY <2>2 DEF Voters, Committers
  <2>7. f.phase = "Committed" => Cardinality(Voters(S)) + 1 >= Quorum
    <3>1. CASE CommitQuorum(e, v)
      BY <2>6, <3>1 DEF CommitQuorum
    <3>2. CASE ~CommitQuorum(e, v)
      <4>1. /\ IsFiniteSet(Voters(S)) /\ Cardinality(Voters(S)) \in Nat
            /\ IsFiniteSet(Voters(e.commits))
            /\ Cardinality(Voters(e.commits)) \in Nat
        BY <2>2, <2>5, DistinctSeals DEF Sealed, Engines
      <4>2. Cardinality(Voters(e.commits)) <= Cardinality(Voters(S))
        BY <2>6, <4>1, FS_Subset
      <4>3. f.phase = "Committed" =>
                Cardinality(Voters(e.commits)) + 1 >= Quorum
        BY <2>3, <3>2 DEF Sealed
      <4>4. QED
        BY <4>1, <4>2, <4>3, QuorumOfFour
    <3>3. QED
      BY <3>1, <3>2
  <2> HIDE DEF f, S
  <2>8. Sealed(n, f, A)
    BY <2>1, <2>3, <2>5, <2>7 DEF Sealed, Counts
  <2>9. QED
    BY <2>8 DEF f
<1>3. QED
  BY <1>1, <1>2

(* Taking a proposal of one's height (propose_block, verify_proposal).     *)
LEMMA FirstPrepareSealed ==
    ASSUME NEW n \in Validators, NEW e \in Engines, NEW A, NEW b \in Blocks,
           Sealed(n, e, A), b.number = e.height
    PROVE  Sealed(n, AddPrepare(Adopt(e, b), n, b), A)
<1> DEFINE f == AddPrepare(Adopt(e, b), n, b)
<1>1. /\ f \in Engines /\ f.height = e.height /\ f.proposed = b
      /\ f.commits = e.commits /\ Counts(n, f)
      /\ f.phase = "PrePrepared" \/ (f.phase = "Prepared" /\ N <= 2)
  BY FirstPrepare DEF Sealed
<1> HIDE DEF f
<1>2. Sealed(n, f, A)
  BY <1>1, NAssumption DEF Sealed
<1>3. QED
  BY <1>2 DEF f

-----------------------------------------------------------------------------
(* The handlers.                                                           *)

(* A new engine, with a message or none.                                   *)
LEMMA EngineSealed ==
    ASSUME NEW n, NEW s, NEW M \in SUBSET Messages, NEW e \in Engines,
           SealInv(n, s, M), Sealed(n, e, M \cup s.out)
    PROVE  /\ SealInv(n, [s EXCEPT !.engine = e], M)
           /\ [s EXCEPT !.engine = e].engine = e
BY EngineType DEF SealInv

(* Broadcasting a message takes no seal away. *)
LEMMA SendSealed ==
    ASSUME NEW n, NEW s, NEW M \in SUBSET Messages, NEW m \in Messages,
           SealInv(n, s, M), m.from = n
    PROVE  /\ SealInv(n, Send(s, m), M)
           /\ Send(s, m).engine = s.engine
           /\ m \in Send(s, m).out
<1>1. /\ Send(s, m) \in Nodes
      /\ Send(s, m).engine = s.engine /\ Send(s, m).store = s.store
      /\ Send(s, m).out = s.out \cup {m}
  BY SendType DEF SealInv
<1>2. M \cup s.out \subseteq M \cup Send(s, m).out
  BY <1>1
<1>3. /\ Sealed(n, s.engine, M \cup Send(s, m).out)
      /\ Certified(n, s.store, M \cup Send(s, m).out)
  BY <1>2, SealsStay DEF SealInv
<1>4. \A x \in Send(s, m).out : x.from = n
  BY <1>1 DEF SealInv
<1>5. QED
  BY <1>1, <1>3, <1>4 DEF SealInv

(* What is stored is the proposal with the seals collected, in phase       *)
(* Committed only (finalize_block).                                        *)
LEMMA FinalizeSealed ==
    ASSUME NEW n \in Validators, NEW s, NEW M \in SUBSET Messages,
           NEW w \in 0 .. 3, SealInv(n, s, M)
    PROVE  SealInv(n, Finalize(s, w), M)
<1> DEFINE t == Finalize(s, w)
           e == s.engine
           st == Written(s.store, e.proposed, e.commits, w)
           rec == [block |-> e.proposed, commits |-> e.commits]
           f == IF w = 3 THEN NewEngine(e.height + 1)
                ELSE [e EXCEPT !.proposed = NoBlock]
           A == M \cup s.out
<1>1. CASE ~CanFinalize(e)
  BY <1>1 DEF Finalize
<1>2. CASE CanFinalize(e)
  <2>1. /\ s \in Nodes /\ e \in Engines /\ e.height \in Nat
        /\ s.store \in Stores
        /\ t \in Nodes /\ t.out = s.out
    BY FinalizeType DEF SealInv, Nodes, Engines
  <2>2. /\ e.proposed \in Blocks /\ e.proposed.number = e.height
        /\ e.height \in Heights /\ e.proposed # NoBlock
        /\ e.phase = "Committed"
    BY <1>2, <2>1 DEF SealInv, Sealed, CanFinalize, Engines, Blocks
  <2>3. t = [s EXCEPT !.store = st, !.engine = f, !.failed = (w < 3)]
    BY <1>2 DEF Finalize
  <2>4. t.store = st /\ t.engine = f
    <3> HIDE DEF st, f, t
    <3>1. QED
      BY <2>1, <2>3 DEF Nodes
  <2>5. st.blocks = IF w >= 1 THEN [s.store.blocks EXCEPT ![e.height] = rec]
                    ELSE s.store.blocks
    BY <2>2 DEF Written
  <2>6. rec.block = e.proposed /\ rec.commits = e.commits
    OBVIOUS
  <2> HIDE DEF st, t, rec
  <2>7. \A h \in Heights :
          \/ st.blocks[h] = s.store.blocks[h]
          \/ h = e.height /\ st.blocks[h] = rec
    <3>1. s.store.blocks \in [Heights -> StoredBlocks \cup {NoBlock}]
      BY <2>1 DEF Stores
    <3>2. QED
      BY <2>2, <2>5, <3>1
  <2>8. Sealed(n, e, A) /\ Certified(n, s.store, A)
    BY DEF SealInv
  <2> HIDE DEF A, e
  <2>9. CertifiedAt(n, e.height, rec, A)
    BY <2>2, <2>6, <2>8 DEF Sealed, CertifiedAt
  <2>10. Certified(n, st, A)
    BY <2>7, <2>8, <2>9 DEF Certified
  <2>11. Sealed(n, f, A)
    <3>1. CASE w = 3
      <4>1. /\ f.prepares = {} /\ f.phase = "Idle" /\ f.commits = {}
            /\ f.proposed = NoBlock
        BY <3>1 DEF NewEngine
      <4> HIDE DEF f
      <4>2. QED
        BY <4>1 DEF Sealed, Counts, Distinct, Genuine
    <3>2. CASE w # 3
      <4>1. /\ f.prepares = e.prepares /\ f.phase = "Committed"
            /\ f.commits = e.commits /\ f.proposed = NoBlock
            /\ f.height = e.height
        BY <2>1, <2>2, <3>2 DEF Engines
      <4> HIDE DEF f
      <4>2. QED
        BY <2>2, <2>8, <4>1 DEF Sealed, Counts
    <3>3. QED
      BY <3>1, <3>2
  <2> HIDE DEF f
  <2>12. QED
    BY <2>1, <2>4, <2>10, <2>11 DEF SealInv, t, A
<1>3. QED
  BY <1>1, <1>2

(* Proposing (propose_new_block).                                          *)
LEMMA ProposeNewBlockSealed ==
    ASSUME NEW n \in Validators, NEW s, NEW M \in SUBSET Messages,
           NEW c \in Contents, NEW w \in 0 .. 3,
           SealInv(n, s, M), s.engine.height \in Heights
    PROVE  SealInv(n, ProposeNewBlock(s, n, c, w), M)
<1> DEFINE e == s.engine
           b == [number |-> e.height, validator |-> n, content |-> c]
           m == Message("PrePrepare", e, b, n)
           e1 == AddPrepare(Adopt(e, b), n, b)
           e2 == AddCommit(e1, n, b)
           t == Send(s, m)
           t1 == [t EXCEPT !.engine = e2]
<1>1. CASE e.phase # "Idle"
  BY <1>1 DEF ProposeNewBlock
<1>2. CASE e.phase = "Idle"
  <2>1. e \in Engines /\ e.height \in Nat /\ e.round \in Nat
    BY DEF SealInv, Nodes, Engines
  <2>2. b \in Blocks /\ b.number = e.height
    BY DEF Blocks
  <2>3. m \in Messages /\ m.from = n
    BY <2>1, <2>2 DEF Message, Messages
  <2> HIDE DEF b, m
  <2>4. SealInv(n, t, M) /\ t.engine = e
    BY <2>3, SendSealed
  <2> HIDE DEF t
  <2>5. e1 \in Engines /\ Sealed(n, e1, M \cup t.out)
    BY <2>1, <2>2, <2>4, FirstPrepareSealed, FirstPrepare DEF SealInv, Sealed
  <2> HIDE DEF e1
  <2>6. e2 \in Engines /\ Sealed(n, e2, M \cup t.out)
    BY <2>2, <2>5, AddCommitSealed, AddCommitType
  <2> HIDE DEF e2
  <2>7. SealInv(n, t1, M)
    BY <2>4, <2>6, EngineSealed
  <2>8. ProposeNewBlock(s, n, c, w) = Finalize(t1, w)
    BY <1>2 DEF ProposeNewBlock, t, m, b, e1, e2
  <2>9. QED
    BY <2>7, <2>8, FinalizeSealed
<1>3. QED
  BY <1>1, <1>2

(* The same when only a proposer may propose.                              *)
LEMMA ProposeIfProposerSealed ==
    ASSUME NEW n \in Validators, NEW s, NEW M \in SUBSET Messages,
           NEW c \in Contents, NEW w \in 0 .. 3,
           SealInv(n, s, M)
    PROVE  SealInv(n, ProposeIfProposer(s, n, c, w), M)
BY ProposeNewBlockSealed DEF ProposeIfProposer

(* Broadcasting a Commit for the proposal, when there is one.              *)
LEMMA BroadcastCommitSealed ==
    ASSUME NEW n \in Validators, NEW s, NEW M \in SUBSET Messages,
           NEW m \in Messages, SealInv(n, s, M)
    PROVE  LET t == BroadcastCommit(s, m, n)
           IN  /\ SealInv(n, t, M) /\ t.engine = s.engine
               /\ s.engine.proposed # NoBlock =>
                     CommittedTo(n, m.height, s.engine.proposed, M \cup t.out)
<1> DEFINE b == s.engine.proposed
           x == Message("Commit", m, b, n)
<1>1. CASE b = NoBlock
  BY <1>1 DEF BroadcastCommit
<1>2. CASE b # NoBlock
  <2>1. /\ x \in Messages /\ x.type = "Commit" /\ x.height = m.height
        /\ x.from = n /\ x.block = b
    BY DEF Message, Messages, SealInv, Nodes, Engines
  <2>2. BroadcastCommit(s, m, n) = Send(s, x)
    BY <1>2 DEF BroadcastCommit
  <2> HIDE DEF x
  <2>3. /\ SealInv(n, Send(s, x), M) /\ Send(s, x).engine = s.engine
        /\ x \in M \cup Send(s, x).out
    BY <2>1, SendSealed
  <2>4. CommittedTo(n, m.height, b, M \cup Send(s, x).out)
    BY <2>1, <2>3 DEF CommittedTo
  <2>5. QED
    BY <2>2, <2>3, <2>4
<1>3. QED
  BY <1>1, <1>2

(* Arm PrePrepare.                                                         *)
LEMMA TakePrePrepareSealed ==
    ASSUME NEW n \in Validators, NEW s, NEW M \in SUBSET Messages,
           NEW m \in Messages, NEW w \in 0 .. 3,
           SealInv(n, s, M), m.block \in Blocks,
           m.block.number = s.engine.height
    PROVE  SealInv(n, TakePrePrepare(s, n, m, w), M)
<1> DEFINE e == AddPrepare(Adopt(s.engine, m.block), n, m.block)
           x == Message("Prepare", m, m.block, n)
           t == Send(s, x)
           s1 == [t EXCEPT !.engine = e]
           f == AddCommit(e, n, m.block)
           u == BroadcastCommit(s1, m, n)
           s2 == [u EXCEPT !.engine = f]
<1>1. x \in Messages /\ x.from = n
  BY DEF Message, Messages
<1> HIDE DEF x
<1>2. SealInv(n, t, M) /\ t.engine = s.engine /\ s.engine \in Engines
  <2>1. s.engine \in Engines
    BY DEF SealInv, Nodes
  <2>2. QED
    BY <1>1, <2>1, SendSealed
<1> HIDE DEF t
<1>3. e \in Engines /\ Sealed(n, e, M \cup t.out)
  BY <1>2, FirstPrepareSealed, FirstPrepare DEF SealInv, Sealed
<1> HIDE DEF e
<1>4. SealInv(n, s1, M) /\ s1.engine = e
  BY <1>2, <1>3, EngineSealed
<1> HIDE DEF s1
<1>5. SealInv(n, u, M) /\ u.engine = e
  BY <1>4, BroadcastCommitSealed
<1> HIDE DEF u
<1>6. f \in Engines /\ Sealed(n, f, M \cup u.out)
  BY <1>3, <1>5, AddCommitSealed, AddCommitType DEF SealInv
<1> HIDE DEF f
<1>7. SealInv(n, s2, M)
  BY <1>5, <1>6, EngineSealed
<1>8. TakePrePrepare(s, n, m, w) = IF e.phase = "Prepared" THEN Finalize(s2, w) ELSE s1
  BY DEF TakePrePrepare, u, s1, t, e, f, x
<1>9. QED
  BY <1>4, <1>7, <1>8, FinalizeSealed

(* Arm Prepare: who becomes Prepared broadcasts its Commit at once.        *)
LEMMA TakePrepareSealed ==
    ASSUME NEW n \in Validators, NEW s, NEW M \in SUBSET Messages,
           NEW m \in Messages, SealInv(n, s, M),
           m.height = s.engine.height
    PROVE  SealInv(n, TakePrepare(s, n, m), M)
<1> DEFINE e == s.engine
           f == AddPrepare(e, m.from, m.block)
           s1 == [s EXCEPT !.engine = f]
           t == BroadcastCommit(s1, m, n)
           A == M \cup s.out
<1>1. /\ s \in Nodes /\ e \in Engines /\ Sealed(n, e, A)
      /\ m.from \in Validators /\ m.block \in Blocks \cup {NoBlock}
  BY DEF SealInv, Nodes, Messages
<1>2. /\ f \in Engines /\ f.height = e.height /\ f.proposed = e.proposed
      /\ f.commits = e.commits /\ f.phase \in {e.phase, "Prepared"}
      /\ Counts(n, f)
  BY <1>1, AddPrepareType, OtherPrepare DEF Sealed
<1>3. f.phase # e.phase => PrepareResult(e, m.from, m.block)
  BY DEF AddPrepare, PrepareResult
<1>4. TakePrepare(s, n, m) = IF PrepareResult(e, m.from, m.block) THEN t ELSE s1
  BY DEF TakePrepare
<1> HIDE DEF f, A
<1>5. \A B : A \subseteq B /\ (f.proposed # NoBlock => CommittedTo(n, e.height, f.proposed, B))
             => Sealed(n, f, B)
  <2> TAKE B
  <2> HAVE A \subseteq B /\ (f.proposed # NoBlock => CommittedTo(n, e.height, f.proposed, B))
  <2>1. Sealed(n, e, B)
    BY <1>1, SealsStay
  <2>2. QED
    BY <1>2, <2>1 DEF Sealed
<1>6. s1 \in Nodes /\ s1.engine = f /\ s1.out = s.out /\ s1.store = s.store
  BY <1>1, <1>2, EngineType
<1> HIDE DEF s1
<1>7. CASE ~PrepareResult(e, m.from, m.block)
  <2>1. f.phase = e.phase
    BY <1>3, <1>7
  <2>2. Sealed(n, f, A)
    BY <1>1, <1>2, <2>1 DEF Sealed
  <2>3. SealInv(n, s1, M)
    BY <1>6, <2>2 DEF SealInv, A
  <2>4. QED
    BY <1>4, <1>7, <2>3
<1>8. CASE PrepareResult(e, m.from, m.block)
  <2> DEFINE x == Message("Commit", m, f.proposed, n)
  <2>1. e.phase = "PrePrepared" /\ f.proposed # NoBlock /\ f.proposed \in Blocks
    BY <1>1, <1>2, <1>8 DEF PrepareResult, PrepareTaken, Sealed, Counts, Engines
  <2>2. /\ x \in Messages /\ x.type = "Commit" /\ x.height = e.height
        /\ x.from = n /\ x.block = f.proposed
    BY <2>1 DEF Message, Messages
  <2>3. t = Send(s1, x)
    BY <1>6, <2>1 DEF BroadcastCommit
  <2> HIDE DEF x, t
  <2>4. /\ t \in Nodes /\ t.engine = f /\ t.out = s.out \cup {x}
        /\ t.store = s.store
    BY <1>6, <2>2, <2>3, SendType
  <2> DEFINE B == M \cup t.out
  <2>5. A \subseteq B /\ x \in B
    BY <2>4 DEF A
  <2> HIDE DEF B
  <2>6. CommittedTo(n, e.height, f.proposed, B)
    BY <2>2, <2>5 DEF CommittedTo
  <2>7. Sealed(n, f, B)
    BY <1>5, <2>5, <2>6
  <2>8. Certified(n, t.store, B)
    BY <2>4, <2>5, SealsStay DEF SealInv, A
  <2>9. SealInv(n, t, M)
    BY <2>2, <2>4, <2>7, <2>8 DEF SealInv, B
  <2>10. QED
    BY <1>4, <1>8, <2>9
<1>9. QED
  BY <1>7, <1>8

(* Arm Commit counts a Commit of the engine's height (add_commit).         *)
LEMMA TakeCommitSealed ==
    ASSUME NEW n \in Validators, NEW s, NEW M \in SUBSET Messages,
           NEW m \in M, NEW c \in Contents, NEW w \in 0 .. 3,
           SealInv(n, s, M), m.type = "Commit", m.block \in Blocks,
           m.height = s.engine.height
    PROVE  SealInv(n, TakeCommit(s, n, m, c, w), M)
<1> DEFINE e == AddCommit(s.engine, m.from, m.block)
           s1 == [s EXCEPT !.engine = e]
           s2 == Finalize(s1, w)
<1>1. /\ s.engine \in Engines /\ m.from \in Validators
      /\ Sealed(n, s.engine, M \cup s.out)
  BY DEF SealInv, Nodes, Messages
<1>2. CommittedTo(m.from, s.engine.height, m.block, M \cup s.out)
  BY DEF CommittedTo
<1>3. e \in Engines /\ Sealed(n, e, M \cup s.out)
  BY <1>1, <1>2, AddCommitType, AddCommitSealed
<1> HIDE DEF e
<1>4. SealInv(n, s1, M)
  BY <1>3, EngineSealed
<1> HIDE DEF s1
<1>5. SealInv(n, s2, M)
  BY <1>4, FinalizeSealed
<1> HIDE DEF s2
<1>6. TakeCommit(s, n, m, c, w) \in {s1, s2, ProposeIfProposer(s2, n, c, w)}
  BY DEF TakeCommit, s1, s2, e
<1>7. QED
  BY <1>4, <1>5, <1>6, ProposeIfProposerSealed

(* A new round keeps the seals of the height or drops them.                *)
LEMMA NewRoundSealed ==
    ASSUME NEW n, NEW e, NEW f, NEW A, Sealed(n, e, A),
           f.height = e.height, f.phase = "Idle",
           f.proposed \in {e.proposed, NoBlock},
           f.prepares \in {e.prepares, {}}, f.commits \in {e.commits, {}}
    PROVE  Sealed(n, f, A)
<1>1. Distinct({}) /\ Genuine({}, n, e.height, A)
  BY DEF Distinct, Genuine
<1>2. QED
  BY <1>1 DEF Sealed, Counts

(* Arm RoundChange keeps what was collected (start_new_round).             *)
LEMMA TakeRoundChangeSealed ==
    ASSUME NEW n \in Validators, NEW s, NEW M \in SUBSET Messages,
           NEW m \in Messages, NEW c \in Contents, NEW w \in 0 .. 3,
           SealInv(n, s, M), m.type = "RoundChange"
    PROVE  SealInv(n, TakeRoundChange(s, n, m, c, w), M)
<1> DEFINE o == s.engine
           e == [o EXCEPT !.round = m.round, !.phase = "Idle"]
           x == [m EXCEPT !.from = n]
           t == Send(s, x)
           t1 == [t EXCEPT !.engine = e]
<1>1. o \in Engines /\ m.round \in Nat
  BY DEF SealInv, Nodes, Messages
<1>2. /\ e \in Engines
      /\ e.height = o.height /\ e.phase = "Idle" /\ e.proposed = o.proposed
      /\ e.prepares = o.prepares /\ e.commits = o.commits
  BY <1>1 DEF Engines, Phases
<1>3. x \in Messages /\ x.from = n
  BY DEF Messages
<1> HIDE DEF e, x
<1>4. SealInv(n, t, M) /\ t.engine = o
  BY <1>3, SendSealed
<1>5. Sealed(n, e, M \cup t.out)
  BY <1>2, <1>4, NewRoundSealed DEF SealInv
<1> HIDE DEF t
<1>6. SealInv(n, t1, M)
  BY <1>2, <1>4, <1>5, EngineSealed
<1>7. TakeRoundChange(s, n, m, c, w) = ProposeIfProposer(t1, n, c, w)
  BY DEF TakeRoundChange, e, x, t
<1>8. QED
  BY <1>6, <1>7, ProposeIfProposerSealed

(* The timeout drops what was collected (on_timeout).                      *)
LEMMA TakeTimeoutSealed ==
    ASSUME NEW n \in Validators, NEW s, NEW M \in SUBSET Messages,
           NEW c \in Contents, NEW w \in 0 .. 3, SealInv(n, s, M)
    PROVE  SealInv(n, TakeTimeout(s, n, c, w), M)
<1> DEFINE o == s.engine
           e == OnTimeout(o)
           x == Message("RoundChange", e, NoBlock, n)
           t == Send(s, x)
           t1 == [t EXCEPT !.engine = e]
<1>1. o \in Engines
  BY DEF SealInv, Nodes
<1>2. e \in Engines
  BY <1>1, OnTimeoutType
<1>3. /\ e.height = o.height /\ e.phase = "Idle" /\ e.proposed = NoBlock
      /\ e.prepares = {} /\ e.commits = {}
      /\ e.height \in Nat /\ e.round \in Nat
  BY <1>1, <1>2 DEF OnTimeout, Engines
<1> HIDE DEF e
<1>4. x \in Messages /\ x.from = n
  BY <1>3 DEF Message, Messages
<1> HIDE DEF x
<1>5. SealInv(n, t, M) /\ t.engine = o
  BY <1>4, SendSealed
<1>6. Sealed(n, e, M \cup t.out)
  BY <1>3, <1>5, NewRoundSealed DEF SealInv
<1> HIDE DEF t
<1>7. SealInv(n, t1, M)
  BY <1>2, <1>5, <1>6, EngineSealed
<1>8. TakeTimeout(s, n, c, w) = ProposeIfProposer(t1, n, c, w)
  BY DEF TakeTimeout, e, x, t
<1>9. QED
  BY <1>7, <1>8, ProposeIfProposerSealed

-----------------------------------------------------------------------------
(* The inductive invariant of the specification.                           *)

CertInv ==
    \A n \in Validators : Sealed(n, engine[n], msgs) /\ Certified(n, store[n], msgs)

(* The node record a handler starts from.                                  *)
LEMMA SealStart ==
    ASSUME IInv, CertInv, NEW n \in Validators
    PROVE  SealInv(n, Node(n), msgs)
<1>1. /\ Node(n) \in Nodes
      /\ Node(n).engine = engine[n] /\ Node(n).store = store[n]
      /\ Node(n).out = {}
  BY DEF IInv, TypeOK, Node, Nodes
<1>2. msgs \cup Node(n).out = msgs
  BY <1>1
<1>3. QED
  BY <1>1, <1>2 DEF SealInv, CertInv

(* What n sends takes no seal from the others.                             *)
LEMMA BecomeSealed ==
    ASSUME IInv, CertInv, NEW n \in Validators, NEW s,
           SealInv(n, s, msgs), Become(n, s)
    PROVE  CertInv'
<1> DEFINE B == msgs \cup s.out
<1>1. /\ engine' = [engine EXCEPT ![n] = s.engine]
      /\ store' = [store EXCEPT ![n] = s.store]
      /\ msgs' = B
  BY DEF Become
<1>2. engine \in [Validators -> Engines] /\ store \in [Validators -> Stores]
  BY DEF IInv, TypeOK
<1>3. Sealed(n, s.engine, B) /\ Certified(n, s.store, B)
  BY DEF SealInv
<1>4. msgs \subseteq B
  OBVIOUS
<1> SUFFICES ASSUME NEW k \in Validators
             PROVE  Sealed(k, engine'[k], B) /\ Certified(k, store'[k], B)
  BY <1>1 DEF CertInv
<1> HIDE DEF B
<1>5. CASE k = n
  BY <1>1, <1>2, <1>3, <1>5
<1>6. CASE k # n
  <2>1. engine'[k] = engine[k] /\ store'[k] = store[k]
    BY <1>1, <1>2, <1>6
  <2>2. Sealed(k, engine[k], msgs) /\ Certified(k, store[k], msgs)
    BY DEF CertInv
  <2>3. QED
    BY <1>4, <2>1, <2>2, SealsStay
<1>7. QED
  BY <1>5, <1>6

(* Every message received, every timer and every restart keeps it.         *)
LEMMA NextSealed ==
    IInv /\ CertInv /\ [Next]_vars => CertInv'
<1> SUFFICES ASSUME IInv, CertInv, [Next]_vars PROVE CertInv'
  OBVIOUS
<1> USE SealStart, BecomeSealed
<1>1. Outcomes \subseteq 0 .. 3
  BY DEF Outcomes
<1>2. msgs \in SUBSET Messages /\ \A m \in msgs : m \in Messages /\ Good(m, msgs)
  BY DEF IInv, TypeOK
<1>3. ASSUME NEW n \in Validators PROVE Node(n).engine = engine[n]
  BY DEF Node
<1>4. ASSUME NEW n \in Validators, OnPrePrepare(n) PROVE CertInv'
  <2>1. PICK m \in msgs, w \in Outcomes :
          /\ m.type = "PrePrepare"
          /\ VerifyProposal(engine[n], m.block, m.round)
          /\ Become(n, TakePrePrepare(Node(n), n, m, w))
    BY <1>4 DEF OnPrePrepare, Deliverable
  <2>2. m.block \in Blocks /\ m.block.number = Node(n).engine.height
    BY <1>2, <1>3, <2>1 DEF Good, VerifyProposal
  <2>3. QED
    BY <1>1, <1>2, <2>1, <2>2, TakePrePrepareSealed
<1>5. ASSUME NEW n \in Validators, OnPrepare(n) PROVE CertInv'
  <2>1. PICK m \in msgs :
          /\ m.height = engine[n].height
          /\ Become(n, TakePrepare(Node(n), n, m))
    BY <1>5 DEF OnPrepare, InStep
  <2>2. QED
    BY <1>2, <1>3, <2>1, TakePrepareSealed
<1>6. ASSUME NEW n \in Validators, OnCommit(n) PROVE CertInv'
  <2>1. PICK m \in msgs, c \in Contents, w \in Outcomes :
          /\ m.type = "Commit" /\ m.height = engine[n].height
          /\ Become(n, TakeCommit(Node(n), n, m, c, w))
    BY <1>6 DEF OnCommit, Deliverable, InStep
  <2>2. m.block \in Blocks
    BY <1>2, <2>1 DEF Good
  <2>3. QED
    BY <1>1, <1>2, <1>3, <2>1, <2>2, TakeCommitSealed
<1>7. ASSUME NEW n \in Validators, OnRoundChange(n) PROVE CertInv'
  <2>1. PICK m \in msgs, c \in Contents, w \in Outcomes :
          /\ m.type = "RoundChange"
          /\ Become(n, TakeRoundChange(Node(n), n, m, c, w))
    BY <1>7 DEF OnRoundChange, Deliverable
  <2>2. QED
    BY <1>1, <1>2, <2>1, TakeRoundChangeSealed
<1>8. ASSUME NEW n \in Validators, TimerPropose(n) PROVE CertInv'
  <2>1. PICK c \in Contents, w \in Outcomes :
          /\ engine[n].height \in Heights
          /\ Become(n, ProposeNewBlock(Node(n), n, c, w))
    BY <1>8 DEF TimerPropose
  <2>2. QED
    BY <1>1, <1>2, <1>3, <2>1, ProposeNewBlockSealed
<1>9. ASSUME NEW n \in Validators, TimerTimeout(n) PROVE CertInv'
  <2>1. PICK c \in Contents, w \in Outcomes :
          Become(n, TakeTimeout(Node(n), n, c, w))
    BY <1>9 DEF TimerTimeout
  <2>2. QED
    BY <1>1, <1>2, <2>1, TakeTimeoutSealed
<1>10. ASSUME NEW n \in Validators, Restart(n) PROVE CertInv'
  <2> DEFINE e == NewEngine(store[n].latest + 1)
  <2>1. /\ e.phase = "Idle" /\ e.prepares = {} /\ e.commits = {}
        /\ e.proposed = NoBlock
    BY DEF NewEngine
  <2>2. engine' = [engine EXCEPT ![n] = e] /\ msgs' = msgs /\ store' = store
    BY <1>10 DEF Restart
  <2> HIDE DEF e
  <2>3. Sealed(n, e, msgs)
    BY <2>1 DEF Sealed, Counts, Distinct, Genuine
  <2>4. \A k \in Validators : Sealed(k, engine'[k], msgs)
    BY <2>2, <2>3 DEF IInv, TypeOK, CertInv
  <2>5. QED
    BY <2>2, <2>4 DEF CertInv
<1>11. CASE UNCHANGED vars
  BY <1>11 DEF vars, CertInv
<1>12. QED
  BY <1>4, <1>5, <1>6, <1>7, <1>8, <1>9, <1>10, <1>11 DEF Next, Handle

(* Nothing is collected or stored in the initial state.                    *)
LEMMA InitSealed == Init => CertInv
<1> SUFFICES ASSUME Init, NEW n \in Validators
             PROVE  Sealed(n, engine[n], msgs) /\ Certified(n, store[n], msgs)
  BY DEF CertInv
<1>1. engine[n] = NewEngine(1)
  BY DEF Init
<1>2. \A h \in Heights : store[n].blocks[h] = NoBlock
  BY DEF Init
<1>3. Sealed(n, engine[n], msgs)
  BY <1>1 DEF NewEngine, Sealed, Counts, Distinct, Genuine
<1>4. QED
  BY <1>2, <1>3 DEF Certified

(* For every validator set, any order of messages, any restarts and any    *)
(* failed writes, a stored block carries seals of distinct validators that *)
(* with the node's implied vote are a quorum, and every seal was broadcast *)
(* for that height (finalize_block, add_commit).                           *)
THEOREM StoredBlocksAreCertified == Spec => []StoredIsCertified
<1>1. IInv /\ CertInv => StoredIsCertified
  <2> SUFFICES ASSUME IInv, CertInv, NEW n \in Validators, NEW h \in Heights,
                      store[n].blocks[h] # NoBlock
               PROVE  LET b == store[n].blocks[h].block
                          seals == store[n].blocks[h].commits
                          Committed(v, x) ==
                              \E m \in Sent("Commit", h) :
                                  m.from = v /\ m.block = x
                      IN  /\ b.number = h
                          /\ Cardinality({s.validator : s \in seals}) + 1 >= Quorum
                          /\ Cardinality({s.validator : s \in seals})
                                = Cardinality(seals)
                          /\ \A s \in seals : \/ s.validator = n
                                               \/ Committed(s.validator, s.block)
                          /\ N >= 3 => Committed(n, b)
    BY DEF StoredIsCertified
  <2> DEFINE r == store[n].blocks[h]
  <2>1. CertifiedAt(n, h, r, msgs)
    BY DEF CertInv, Certified
  <2>2. r.commits \in SUBSET Seals
    <3>1. store[n].blocks \in [Heights -> StoredBlocks \cup {NoBlock}]
      BY DEF IInv, TypeOK, Stores
    <3>2. QED
      BY <3>1 DEF StoredBlocks
  <2> HIDE DEF r
  <2>3. Cardinality(Voters(r.commits)) = Cardinality(r.commits)
    BY <2>1, <2>2, DistinctSeals DEF CertifiedAt
  <2>4. \A v, x : CommittedTo(v, h, x, msgs) =>
           \E m \in Sent("Commit", h) : m.from = v /\ m.block = x
    BY DEF CommittedTo, Sent
  <2>5. QED
    BY <2>1, <2>3, <2>4 DEF CertifiedAt, Genuine, Voters, r
<1>2. QED
  BY <1>1, InitSealed, NextSealed, InitInv, NextInv, PTL DEF Spec
=============================================================================
