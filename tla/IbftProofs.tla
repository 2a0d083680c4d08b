----------------------------- MODULE IbftProofs -----------------------------
(***************************************************************************)
(* Proofs about Ibft, for every number of validators and every bound.      *)
(*                                                                         *)
(* The handlers are operators on the node record, so every invariant has a *)
(* form on a node record and the messages around it; a lemma per operator  *)
(* shows that the operator keeps that form, and the theorems put the       *)
(* lemmas together over the actions.                                       *)
(***************************************************************************)
EXTENDS Ibft, TLAPS

Nodes == [engine : Engines, store : Stores, out : SUBSET Messages,
          failed : BOOLEAN]

-----------------------------------------------------------------------------
(* The operators of the engine keep its type.                              *)

(* A new engine is well typed at every height (IbftEngine::new).           *)
LEMMA NewEngineType ==
    ASSUME NEW h \in Nat
    PROVE  NewEngine(h) \in Engines
BY DEF NewEngine, Engines, Phases, NoLock

(* Taking a proposal keeps the type (propose_block, verify_proposal).      *)
LEMMA AdoptType ==
    ASSUME NEW e \in Engines, NEW b \in Blocks
    PROVE  Adopt(e, b) \in Engines
BY DEF Adopt, Engines, Phases

(* Counting a Prepare keeps the type and changes neither height, round nor *)
(* proposal (add_prepare).                                                 *)
LEMMA AddPrepareType ==
    ASSUME NEW e \in Engines, NEW v \in Validators,
           NEW b \in Blocks \cup {NoBlock}
    PROVE  /\ AddPrepare(e, v, b) \in Engines
           /\ AddPrepare(e, v, b).height = e.height
           /\ AddPrepare(e, v, b).round = e.round
           /\ AddPrepare(e, v, b).proposed = e.proposed
           /\ AddPrepare(e, v, b).commits = e.commits
           /\ AddPrepare(e, v, b).phase \in {e.phase, "Prepared"}
           /\ AddPrepare(e, v, b).phase # e.phase => e.phase = "PrePrepared"
<1>1. CASE ~PrepareTaken(e, b) \/ v \in e.prepares
  BY <1>1 DEF AddPrepare
<1>2. CASE PrepareTaken(e, b) /\ v \notin e.prepares /\ PrepareQuorum(e, v)
  BY <1>2 DEF AddPrepare, PrepareTaken, Engines, Phases
<1>3. CASE PrepareTaken(e, b) /\ v \notin e.prepares /\ ~PrepareQuorum(e, v)
  BY <1>3 DEF AddPrepare, Engines
<1>4. QED
  BY <1>1, <1>2, <1>3

(* Counting a Commit keeps the type and changes neither height, round,     *)
(* proposal nor lock (add_commit).                                         *)
LEMMA AddCommitType ==
    ASSUME NEW e \in Engines, NEW v \in Validators, NEW b \in Blocks
    PROVE  /\ AddCommit(e, v, b) \in Engines
           /\ AddCommit(e, v, b).height = e.height
           /\ AddCommit(e, v, b).round = e.round
           /\ AddCommit(e, v, b).proposed = e.proposed
           /\ AddCommit(e, v, b).prepares = e.prepares
           /\ AddCommit(e, v, b).phase \in {e.phase, "Committed"}
           /\ AddCommit(e, v, b).phase # e.phase => e.phase = "Prepared"
<1>1. CASE ~CommitTaken(e, b) \/ v \in Committers(e)
  BY <1>1 DEF AddCommit
<1>2. CASE CommitTaken(e, b) /\ v \notin Committers(e)
  <2>1. [validator |-> v, block |-> b] \in Seals
    BY DEF Seals
  <2>2. QED
    BY <1>2, <2>1 DEF AddCommit, CommitTaken, Engines, Phases
<1>3. QED
  BY <1>1, <1>2

(* A timeout keeps the type (on_timeout, start_new_round).                 *)
LEMMA OnTimeoutType ==
    ASSUME NEW e \in Engines
    PROVE  OnTimeout(e) \in Engines
<1>1. /\ e.round + 1 \in Nat
      /\ "Idle" \in Phases
      /\ {} \in SUBSET Validators
      /\ {} \in SUBSET Seals
  BY DEF Engines, Phases
<1>2. QED
  BY <1>1 DEF OnTimeout, Engines

-----------------------------------------------------------------------------
(* The handlers keep the type of the node record.                          *)

(* Broadcasting a well-typed message.                                      *)
LEMMA SendType ==
    ASSUME NEW s \in Nodes, NEW m \in Messages
    PROVE  /\ Send(s, m) \in Nodes
           /\ Send(s, m).engine = s.engine
           /\ Send(s, m).store = s.store
           /\ Send(s, m).failed = s.failed
           /\ Send(s, m).out = s.out \cup {m}
BY DEF Send, Nodes

(* Replacing the engine of a node record.                                  *)
LEMMA EngineType ==
    ASSUME NEW s \in Nodes, NEW e \in Engines
    PROVE  /\ [s EXCEPT !.engine = e] \in Nodes
           /\ [s EXCEPT !.engine = e].engine = e
           /\ [s EXCEPT !.engine = e].store = s.store
           /\ [s EXCEPT !.engine = e].failed = s.failed
           /\ [s EXCEPT !.engine = e].out = s.out
BY DEF Nodes

(* Storing a block keeps the type, and a finalization leaves an engine     *)
(* that is Idle one height up, Committed without a proposal, or unchanged  *)
(* (finalize_block).                                                       *)
LEMMA FinalizeType ==
    ASSUME NEW s \in Nodes, NEW w \in 0 .. 3
    PROVE  /\ Finalize(s, w) \in Nodes
           /\ Finalize(s, w).out = s.out
           /\ \/ Finalize(s, w) = s
              \/ /\ CanFinalize(s.engine)
                 /\ Finalize(s, w).engine = NewEngine(s.engine.height + 1)
              \/ /\ CanFinalize(s.engine)
                 /\ Finalize(s, w).engine = [s.engine EXCEPT !.proposed = NoBlock]
<1>1. CASE ~CanFinalize(s.engine)
  BY <1>1 DEF Finalize
<1>2. CASE CanFinalize(s.engine)
  <2> DEFINE e == s.engine
             st == Written(s.store, e.proposed, e.commits, w)
             f == IF w = 3 THEN NewEngine(e.height + 1)
                  ELSE [e EXCEPT !.proposed = NoBlock]
  <2>1. e \in Engines /\ s.store \in Stores
    BY DEF Nodes
  <2>2. e.proposed \in Blocks /\ e.commits \in SUBSET Seals /\ e.height \in Nat
    BY <1>2, <2>1 DEF CanFinalize, Engines
  <2>3. e.proposed.number \in Heights /\ e.proposed.number \in Nat
    BY <2>2, BoundsAssumption DEF Blocks, Heights
  <2>4. [block |-> e.proposed, commits |-> e.commits] \in StoredBlocks
    BY <2>2 DEF StoredBlocks
  <2>5. st \in Stores
    BY <2>1, <2>3, <2>4 DEF Written, Stores
  <2>6. f \in Engines
    BY <2>1, <2>2, NewEngineType DEF Engines
  <2>7. Finalize(s, w) =
          [s EXCEPT !.store = st, !.engine = f, !.failed = (w < 3)]
    BY <1>2 DEF Finalize
  <2>8. (w < 3) \in BOOLEAN
    OBVIOUS
  <2> HIDE DEF st, f
  <2>9. /\ Finalize(s, w) \in Nodes
        /\ Finalize(s, w).out = s.out
        /\ Finalize(s, w).engine = f
    BY <2>5, <2>6, <2>7, <2>8 DEF Nodes
  <2>10. QED
    BY <1>2, <2>9 DEF f
<1>3. QED
  BY <1>1, <1>2

-----------------------------------------------------------------------------
(* The inductive invariant, on a node record and the messages around it.   *)

IsProposal(p, h, r, b) ==
    p.type = "PrePrepare" /\ p.height = h /\ p.round = r /\ p.block = b

AheadIn(M, h) == \E m \in M : m.type = "RoundChange" /\ m.height > h

(* A proposal is of its height and from the proposer of its round; a vote  *)
(* is for a proposal of its height and round.                              *)
Good(m, M) ==
    /\ m.type = "PrePrepare" =>
          /\ m.block \in Blocks
          /\ m.from = Proposer(m.height, m.round)
          /\ m.block.validator = m.from
    /\ m.type \in {"Prepare", "Commit"} =>
          /\ m.block \in Blocks
          /\ \E p \in M : IsProposal(p, m.height, m.round, m.block)

(* What an engine collects votes for was proposed in its current round.    *)
Backed(e, M) ==
    e.phase \in {"PrePrepared", "Prepared"} =>
        /\ e.proposed \in Blocks
        /\ \E p \in M : IsProposal(p, e.height, e.round, e.proposed)

(* The engine of n is past the point where it could propose once more at a *)
(* height and round it has proposed at.                                    *)
Past(n, e, M) ==
    \A p \in M : p.type = "PrePrepare" /\ p.from = n =>
        \/ n \in Restartable
        \/ AheadIn(M, p.height)
        \/ p.height < e.height
        \/ p.height = e.height /\ p.round < e.round
        \/ p.height = e.height /\ p.round = e.round /\ e.phase # "Idle"

Unique(M) ==
    \A p, q \in M :
        /\ p.type = "PrePrepare" /\ q.type = "PrePrepare"
        /\ p.height = q.height /\ p.round = q.round
        => \/ p.block = q.block
           \/ Proposer(p.height, p.round) \in Restartable
           \/ AheadIn(M, p.height)

NodeInv(n, s, M) ==
    /\ s \in Nodes
    /\ \A m \in s.out : m.from = n
    /\ \A m \in M \cup s.out : Good(m, M \cup s.out)
    /\ Backed(s.engine, M \cup s.out)
    /\ Past(n, s.engine, M \cup s.out)
    /\ Unique(M \cup s.out)

(* The invariant survives a new engine that is itself backed and past.     *)
LEMMA EngineInv ==
    ASSUME NEW n, NEW s, NEW M \in SUBSET Messages, NEW e \in Engines,
           NodeInv(n, s, M),
           Backed(e, M \cup s.out),
           Past(n, e, M \cup s.out)
    PROVE  NodeInv(n, [s EXCEPT !.engine = e], M)
BY EngineType DEF NodeInv

(* The invariant survives a good message that is not a proposal.           *)
LEMMA SendInv ==
    ASSUME NEW n, NEW s, NEW M \in SUBSET Messages, NEW m \in Messages,
           NodeInv(n, s, M),
           m.type # "PrePrepare",
           m.from = n,
           Good(m, M \cup s.out)
    PROVE  NodeInv(n, Send(s, m), M)
<1> DEFINE A == M \cup s.out
           B == M \cup Send(s, m).out
<1>1. s \in Nodes
  BY DEF NodeInv
<1>2. /\ Send(s, m) \in Nodes
      /\ Send(s, m).engine = s.engine
      /\ B = A \cup {m}
  BY <1>1, SendType
<1>3. /\ \A x \in A : Good(x, A)
      /\ Backed(s.engine, A)
      /\ Past(n, s.engine, A)
      /\ Unique(A)
      /\ Good(m, A)
  BY DEF NodeInv
<1> HIDE DEF A, B
<1>4. \A h : AheadIn(A, h) => AheadIn(B, h)
  BY <1>2 DEF AheadIn
<1>5. \A x : Good(x, A) => Good(x, B)
  BY <1>2 DEF Good
<1>6. \A x \in B : Good(x, B)
  BY <1>2, <1>3, <1>5
<1>7. Backed(s.engine, B)
  BY <1>2, <1>3 DEF Backed
<1>8. Past(n, s.engine, B)
  BY <1>2, <1>3, <1>4 DEF Past
<1>9. Unique(B)
  BY <1>2, <1>3, <1>4 DEF Unique
<1>10. \A x \in Send(s, m).out : x.from = n
  BY <1>1, SendType DEF NodeInv
<1>11. QED
  BY <1>2, <1>6, <1>7, <1>8, <1>9, <1>10 DEF NodeInv, B

(* Past does not look at more than height, round and whether Idle.         *)
LEMMA PastStays ==
    ASSUME NEW n, NEW e, NEW f, NEW M,
           Past(n, e, M),
           f.height = e.height, f.round = e.round,
           f.phase = "Idle" => e.phase = "Idle"
    PROVE  Past(n, f, M)
BY DEF Past

(* Finalizing keeps the invariant: the height rises, or the engine is left *)
(* Committed without a proposal (finalize_block).                          *)
LEMMA FinalizeInv ==
    ASSUME NEW n, NEW s, NEW M \in SUBSET Messages, NEW w \in 0 .. 3,
           NodeInv(n, s, M)
    PROVE  NodeInv(n, Finalize(s, w), M)
<1> DEFINE t == Finalize(s, w)
           A == M \cup s.out
           e == s.engine
<1>1. s \in Nodes /\ e \in Engines /\ e.height \in Nat
  BY DEF NodeInv, Nodes, Engines
<1>2. /\ t \in Nodes
      /\ t.out = s.out
      /\ \/ t = s
         \/ CanFinalize(e) /\ t.engine = NewEngine(e.height + 1)
         \/ CanFinalize(e) /\ t.engine = [e EXCEPT !.proposed = NoBlock]
  BY <1>1, FinalizeType
<1>3. /\ \A m \in A : Good(m, A)
      /\ \A m \in s.out : m.from = n
      /\ Unique(A)
  BY DEF NodeInv
<1>4. Past(n, e, A)
  BY DEF NodeInv
<1> HIDE DEF t
<1>5. CASE t = s
  BY <1>5 DEF t
<1>6. CASE CanFinalize(e) /\ t.engine = NewEngine(e.height + 1)
  <2>1. t.engine.height = e.height + 1 /\ t.engine.phase = "Idle"
    BY <1>6 DEF NewEngine
  <2>2. Backed(t.engine, A)
    BY <2>1 DEF Backed
  <2>3. \A p \in A : p.type = "PrePrepare" => p.height \in Nat
    <3>1. A \subseteq Messages
      BY <1>1 DEF Nodes
    <3>2. QED
      BY <3>1 DEF Messages
  <2>4. Past(n, t.engine, A)
    <3> HIDE DEF A, e
    <3>1. \A p \in A : p.type = "PrePrepare" /\ p.from = n =>
             n \in Restartable \/ AheadIn(A, p.height) \/ p.height <= e.height
      BY <1>1, <1>4, <2>3 DEF Past
    <3>2. \A p \in A : p.type = "PrePrepare" /\ p.from = n =>
             \/ n \in Restartable
             \/ AheadIn(A, p.height)
             \/ p.height < t.engine.height
      BY <1>1, <2>1, <2>3, <3>1
    <3>3. QED
      BY <3>2 DEF Past
  <2>5. QED
    BY <1>2, <1>3, <2>2, <2>4 DEF NodeInv, t
<1>7. CASE CanFinalize(e) /\ t.engine = [e EXCEPT !.proposed = NoBlock]
  <2>1. /\ t.engine.height = e.height
        /\ t.engine.round = e.round
        /\ t.engine.phase = e.phase
        /\ e.phase = "Committed"
    BY <1>1, <1>7 DEF CanFinalize, Engines
  <2>2. Backed(t.engine, A)
    BY <2>1 DEF Backed
  <2>3. Past(n, t.engine, A)
    BY <1>4, <2>1, PastStays
  <2>4. QED
    BY <1>2, <1>3, <2>2, <2>3 DEF NodeInv, t
<1>8. QED
  BY <1>2, <1>5, <1>6, <1>7

(* Proposing from Idle keeps the invariant: a proposal the node made before *)
(* at this height and round is excused (propose_new_block).                *)
LEMMA ProposeNewBlockInv ==
    ASSUME NEW n \in Validators, NEW s, NEW M \in SUBSET Messages,
           NEW c \in Contents, NEW w \in 0 .. 3,
           NodeInv(n, s, M),
           IsProposer(s.engine, n),
           s.engine.height \in Heights
    PROVE  NodeInv(n, ProposeNewBlock(s, n, c, w), M)
<1> DEFINE e == s.engine
           b == [number |-> e.height, validator |-> n, content |-> c]
           m == Message("PrePrepare", e, b, n)
           e0 == Adopt(e, b)
           e1 == AddPrepare(e0, n, b)
           e2 == AddCommit(e1, n, b)
           t == [Send(s, m) EXCEPT !.engine = e2]
           A == M \cup s.out
           B == A \cup {m}
<1>1. CASE e.phase # "Idle"
  BY <1>1 DEF ProposeNewBlock
<1>2. CASE e.phase = "Idle"
  <2>1. s \in Nodes /\ e \in Engines /\ e.height \in Nat /\ e.round \in Nat
    BY DEF NodeInv, Nodes, Engines
  <2>2. b \in Blocks /\ b.validator = n
    BY DEF Blocks
  <2>3. /\ m \in Messages
        /\ m.type = "PrePrepare" /\ m.height = e.height /\ m.round = e.round
        /\ m.block = b /\ m.from = n
    BY <2>1, <2>2 DEF Message, Messages
  <2>4. /\ e0 \in Engines
        /\ e0.height = e.height /\ e0.round = e.round
        /\ e0.proposed = b /\ e0.phase = "PrePrepared"
    <3>1. e0 \in Engines
      BY <2>1, <2>2, AdoptType
    <3>2. QED
      BY <2>1, <3>1 DEF Adopt, Engines
  <2> HIDE DEF e, b, m, e0
  <2>5. /\ e1 \in Engines
        /\ e1.height = e.height /\ e1.round = e.round /\ e1.proposed = b
        /\ e1.phase \in {"PrePrepared", "Prepared"}
    BY <2>2, <2>4, AddPrepareType
  <2> HIDE DEF e1
  <2>6. /\ e2 \in Engines
        /\ e2.height = e.height /\ e2.round = e.round /\ e2.proposed = b
        /\ e2.phase # "Idle"
    BY <2>2, <2>5, AddCommitType
  <2> HIDE DEF e2
  <2>7. t \in Nodes /\ t.engine = e2 /\ t.out = s.out \cup {m}
    BY <2>1, <2>3, <2>6, SendType, EngineType
  <2>8. M \cup t.out = B
    BY <2>7
  <2>9. /\ \A x \in A : Good(x, A)
        /\ Past(n, e, A)
        /\ Unique(A)
        /\ A \subseteq Messages
    BY <2>1 DEF NodeInv, e, Nodes
  <2>10. Proposer(e.height, e.round) = n
    BY DEF IsProposer, e
  <2> HIDE DEF A, t
  <2>11. \A h : AheadIn(A, h) => AheadIn(B, h)
    BY DEF AheadIn
  <2>12. \A x \in B : Good(x, B)
    BY <2>2, <2>3, <2>9, <2>10 DEF Good
  <2>13. Backed(e2, B)
    BY <2>2, <2>3, <2>6 DEF Backed, IsProposal
  <2>14. Past(n, e2, B)
    BY <1>2, <2>3, <2>6, <2>9, <2>11 DEF Past
  <2>15. \A p \in A : p.type = "PrePrepare" /\ p.height = m.height /\ p.round = m.round
                     => n \in Restartable \/ AheadIn(A, m.height)
    <3>1. TAKE p \in A
    <3>2. HAVE p.type = "PrePrepare" /\ p.height = m.height /\ p.round = m.round
    <3>3. p.from = n
      BY <2>3, <2>9, <2>10, <3>2 DEF Good
    <3>4. QED
      BY <1>2, <2>1, <2>3, <2>9, <3>2, <3>3 DEF Past, e
  <2>16. Unique(B)
    BY <2>3, <2>9, <2>10, <2>11, <2>15 DEF Unique
  <2>17. NodeInv(n, t, M)
    <3>1. \A x \in t.out : x.from = n
      BY <2>3, <2>7 DEF NodeInv
    <3>2. QED
      BY <3>1, <2>7, <2>8, <2>12, <2>13, <2>14, <2>16 DEF NodeInv
  <2>18. ProposeNewBlock(s, n, c, w) = Finalize(t, w)
    BY <1>2 DEF ProposeNewBlock, t, m, e, b, e0, e1, e2
  <2>19. QED
    BY <2>17, <2>18, FinalizeInv
<1>3. QED
  BY <1>1, <1>2

(* The same when only a proposer may propose (finalize_and_advance,        *)
(* start_new_round and the timer).                                         *)
LEMMA ProposeIfProposerInv ==
    ASSUME NEW n \in Validators, NEW s, NEW M \in SUBSET Messages,
           NEW c \in Contents, NEW w \in 0 .. 3,
           NodeInv(n, s, M)
    PROVE  NodeInv(n, ProposeIfProposer(s, n, c, w), M)
BY ProposeNewBlockInv DEF ProposeIfProposer

(* Broadcasting a Commit for the proposal of a message's height and round. *)
LEMMA BroadcastCommitInv ==
    ASSUME NEW n \in Validators, NEW s, NEW M \in SUBSET Messages,
           NEW m \in Messages,
           NodeInv(n, s, M),
           \E p \in M \cup s.out :
               IsProposal(p, m.height, m.round, s.engine.proposed)
    PROVE  /\ NodeInv(n, BroadcastCommit(s, m, n), M)
           /\ BroadcastCommit(s, m, n).engine = s.engine
           /\ BroadcastCommit(s, m, n) \in Nodes
<1> DEFINE b == s.engine.proposed
           x == Message("Commit", m, b, n)
<1>1. s \in Nodes /\ b \in Blocks \cup {NoBlock}
  BY DEF NodeInv, Nodes, Engines
<1>2. CASE b = NoBlock
  BY <1>1, <1>2 DEF BroadcastCommit
<1>3. CASE b # NoBlock
  <2>1. /\ x \in Messages
        /\ x.type = "Commit" /\ x.height = m.height /\ x.round = m.round
        /\ x.block = b /\ x.from = n
    BY <1>1 DEF Message, Messages
  <2>2. Good(x, M \cup s.out)
    BY <1>1, <1>3, <2>1 DEF Good
  <2>3. BroadcastCommit(s, m, n) = Send(s, x)
    BY <1>3 DEF BroadcastCommit
  <2> HIDE DEF x
  <2>4. QED
    BY <1>1, <2>1, <2>2, <2>3, SendInv, SendType
<1>4. QED
  BY <1>2, <1>3

(* Arm PrePrepare keeps the invariant.                                     *)
LEMMA TakePrePrepareInv ==
    ASSUME NEW n \in Validators, NEW s, NEW M \in SUBSET Messages,
           NEW m \in M, NEW w \in 0 .. 3,
           NodeInv(n, s, M),
           m.type = "PrePrepare",
           m.height = s.engine.height, m.round = s.engine.round
    PROVE  NodeInv(n, TakePrePrepare(s, n, m, w), M)
<1> DEFINE A == M \cup s.out
           e0 == Adopt(s.engine, m.block)
           e == AddPrepare(e0, n, m.block)
           x == Message("Prepare", m, m.block, n)
           s1 == [Send(s, x) EXCEPT !.engine = e]
           f == AddCommit(e, n, m.block)
           s2 == [BroadcastCommit(s1, m, n) EXCEPT !.engine = f]
<1>1. /\ s \in Nodes /\ s.engine \in Engines
      /\ m \in Messages /\ m.block \in Blocks
      /\ IsProposal(m, m.height, m.round, m.block)
  BY DEF NodeInv, Nodes, Good, IsProposal
<1>2. /\ e0 \in Engines
      /\ e0.height = m.height /\ e0.round = m.round
      /\ e0.proposed = m.block /\ e0.phase = "PrePrepared"
  <2>1. e0 \in Engines
    BY <1>1, AdoptType
  <2>2. QED
    BY <1>1, <2>1 DEF Adopt, Engines
<1> HIDE DEF e0
<1>3. /\ e \in Engines
      /\ e.height = m.height /\ e.round = m.round /\ e.proposed = m.block
      /\ e.phase \in {"PrePrepared", "Prepared"}
  BY <1>1, <1>2, AddPrepareType
<1> HIDE DEF e
<1>4. /\ f \in Engines
      /\ f.height = m.height /\ f.round = m.round /\ f.proposed = m.block
      /\ f.phase # "Idle"
  BY <1>1, <1>3, AddCommitType
<1> HIDE DEF f
<1>5. /\ x \in Messages /\ x.from = n
      /\ x.type = "Prepare" /\ x.height = m.height /\ x.round = m.round
      /\ x.block = m.block
  BY <1>1 DEF Message, Messages
<1> HIDE DEF x
<1>6. NodeInv(n, Send(s, x), M)
  <2>1. Good(x, A)
    BY <1>1, <1>5 DEF Good
  <2>2. QED
    BY <1>5, <2>1, SendInv
<1>7. Send(s, x).engine = s.engine
  BY <1>1, <1>5, SendType
<1>8. /\ NodeInv(n, s1, M)
      /\ s1.engine = e
  <2> DEFINE B == M \cup Send(s, x).out
  <2>1. Backed(e, B)
    BY <1>1, <1>3 DEF Backed
  <2>2. Past(n, e, B)
    BY <1>3, <1>6, <1>7, PastStays DEF NodeInv
  <2>3. Send(s, x) \in Nodes
    BY <1>6 DEF NodeInv
  <2>4. QED
    BY <1>3, <1>6, <2>1, <2>2, <2>3, EngineInv, EngineType
<1> HIDE DEF s1
<1>9. /\ NodeInv(n, BroadcastCommit(s1, m, n), M)
      /\ BroadcastCommit(s1, m, n).engine = e
      /\ BroadcastCommit(s1, m, n) \in Nodes
  BY <1>1, <1>3, <1>8, BroadcastCommitInv
<1>10. NodeInv(n, s2, M)
  <2> DEFINE B == M \cup BroadcastCommit(s1, m, n).out
  <2>1. Backed(f, B)
    BY <1>1, <1>4 DEF Backed
  <2>2. Past(n, f, B)
    BY <1>3, <1>4, <1>9, PastStays DEF NodeInv
  <2>3. QED
    BY <1>4, <1>9, <2>1, <2>2, EngineInv
<1> HIDE DEF s2
<1>11. TakePrePrepare(s, n, m, w) = IF e.phase = "Prepared" THEN Finalize(s2, w) ELSE s1
  BY DEF TakePrePrepare, s1, s2, e, e0, f, x
<1>12. QED
  BY <1>8, <1>10, <1>11, FinalizeInv

(* Arm Prepare keeps the invariant: a Commit is broadcast only from phase  *)
(* PrePrepared, for what was proposed in the current round.                *)
LEMMA TakePrepareInv ==
    ASSUME NEW n \in Validators, NEW s, NEW M \in SUBSET Messages,
           NEW m \in M,
           NodeInv(n, s, M),
           m.height = s.engine.height, m.round = s.engine.round
    PROVE  NodeInv(n, TakePrepare(s, n, m), M)
<1> DEFINE A == M \cup s.out
           e == AddPrepare(s.engine, m.from, m.block)
           s1 == [s EXCEPT !.engine = e]
<1>1. /\ s \in Nodes /\ s.engine \in Engines
      /\ m \in Messages /\ m.from \in Validators
      /\ m.block \in Blocks \cup {NoBlock}
  BY DEF NodeInv, Nodes, Messages
<1>2. /\ e \in Engines
      /\ e.height = s.engine.height /\ e.round = s.engine.round
      /\ e.proposed = s.engine.proposed
      /\ e.phase \in {s.engine.phase, "Prepared"}
      /\ e.phase # s.engine.phase => s.engine.phase = "PrePrepared"
  BY <1>1, AddPrepareType
<1> HIDE DEF e
<1>3. Backed(e, A)
  BY <1>2 DEF Backed, NodeInv
<1>4. Past(n, e, A)
  BY <1>2, PastStays DEF NodeInv
<1>5. NodeInv(n, s1, M) /\ s1.engine = e /\ s1.out = s.out
  BY <1>1, <1>2, <1>3, <1>4, EngineInv, EngineType
<1>6. TakePrepare(s, n, m) =
        IF PrepareResult(s.engine, m.from, m.block)
        THEN BroadcastCommit(s1, m, n) ELSE s1
  BY DEF TakePrepare, s1, e
<1> HIDE DEF s1
<1>7. CASE PrepareResult(s.engine, m.from, m.block)
  <2>1. s.engine.phase = "PrePrepared"
    BY <1>7 DEF PrepareResult, PrepareTaken
  <2>2. \E p \in A : IsProposal(p, m.height, m.round, e.proposed)
    BY <1>2, <2>1 DEF NodeInv, Backed
  <2>3. QED
    BY <1>1, <1>5, <1>6, <1>7, <2>2, BroadcastCommitInv
<1>8. QED
  BY <1>5, <1>6, <1>7

(* Arm Commit keeps the invariant (add_commit, finalize_and_advance).      *)
LEMMA TakeCommitInv ==
    ASSUME NEW n \in Validators, NEW s, NEW M \in SUBSET Messages,
           NEW m \in M, NEW c \in Contents, NEW w \in 0 .. 3,
           NodeInv(n, s, M),
           m.type = "Commit"
    PROVE  NodeInv(n, TakeCommit(s, n, m, c, w), M)
<1> DEFINE A == M \cup s.out
           e == AddCommit(s.engine, m.from, m.block)
           s1 == [s EXCEPT !.engine = e]
           s2 == Finalize(s1, w)
<1>1. /\ s \in Nodes /\ s.engine \in Engines
      /\ m.from \in Validators /\ m.block \in Blocks
  BY DEF NodeInv, Nodes, Messages, Good
<1>2. /\ e \in Engines
      /\ e.height = s.engine.height /\ e.round = s.engine.round
      /\ e.proposed = s.engine.proposed
      /\ e.phase \in {s.engine.phase, "Committed"}
  BY <1>1, AddCommitType
<1> HIDE DEF e
<1>3. Backed(e, A)
  BY <1>2 DEF Backed, NodeInv
<1>4. Past(n, e, A)
  BY <1>2, PastStays DEF NodeInv
<1>5. NodeInv(n, s1, M)
  BY <1>2, <1>3, <1>4, EngineInv
<1> HIDE DEF s1
<1>6. NodeInv(n, s2, M)
  BY <1>5, FinalizeInv
<1> HIDE DEF s2
<1>7. NodeInv(n, ProposeIfProposer(s2, n, c, w), M)
  BY <1>6, ProposeIfProposerInv
<1>8. TakeCommit(s, n, m, c, w) \in {s1, s2, ProposeIfProposer(s2, n, c, w)}
  BY DEF TakeCommit, s1, s2, e
<1>9. QED
  BY <1>5, <1>6, <1>7, <1>8

(* Arm RoundChange keeps the invariant: a round that does not rise was     *)
(* taken from the RoundChange of a later height.                           *)
LEMMA TakeRoundChangeInv ==
    ASSUME NEW n \in Validators, NEW s, NEW M \in SUBSET Messages,
           NEW m \in M, NEW c \in Contents, NEW w \in 0 .. 3,
           NodeInv(n, s, M),
           m.type = "RoundChange",
           m.height >= s.engine.height,
           m.height = s.engine.height => m.round > s.engine.round
    PROVE  NodeInv(n, TakeRoundChange(s, n, m, c, w), M)
<1> DEFINE A == M \cup s.out
           o == s.engine
           e == [o EXCEPT !.round = m.round, !.phase = "Idle"]
           x == [m EXCEPT !.from = n]
           t == Send(s, x)
           t1 == [t EXCEPT !.engine = e]
<1>1. /\ s \in Nodes /\ o \in Engines
      /\ o.height \in Nat /\ o.round \in Nat
      /\ m \in Messages /\ m.height \in Nat /\ m.round \in Nat
  BY DEF NodeInv, Nodes, Messages, Engines
<1>2. /\ e \in Engines
      /\ e.height = o.height /\ e.round = m.round /\ e.phase = "Idle"
  BY <1>1 DEF Engines, Phases
<1>3. x \in Messages /\ x.type = "RoundChange" /\ x.from = n
  BY <1>1 DEF Messages
<1>4. Good(x, A)
  BY <1>3 DEF Good
<1>5. NodeInv(n, t, M)
  BY <1>3, <1>4, SendInv
<1>6. t \in Nodes /\ t.engine = o
  BY <1>1, <1>3, SendType
<1>7. Backed(e, M \cup t.out)
  BY <1>2 DEF Backed
<1>8. Past(n, e, M \cup t.out)
  <2> DEFINE B == M \cup t.out
  <2>1. B \subseteq Messages /\ m \in B
    BY <1>6 DEF Nodes
  <2>2. Past(n, o, B)
    BY <1>5, <1>6 DEF NodeInv
  <2> SUFFICES Past(n, e, B)
    OBVIOUS
  <2> HIDE DEF B, e, o, t
  <2>3. \A p \in B : p.height \in Nat /\ p.round \in Nat
    BY <2>1 DEF Messages
  <2>4. CASE m.height = o.height
    <3>1. \A p \in B : p.type = "PrePrepare" /\ p.from = n =>
             \/ n \in Restartable
             \/ AheadIn(B, p.height)
             \/ p.height < o.height
             \/ p.height = o.height /\ p.round <= o.round
      BY <1>1, <2>2, <2>3 DEF Past
    <3>2. m.round > o.round
      BY <2>4 DEF o
    <3>3. \A p \in B : p.type = "PrePrepare" /\ p.from = n =>
             \/ n \in Restartable
             \/ AheadIn(B, p.height)
             \/ p.height < e.height
             \/ p.height = e.height /\ p.round < e.round
      BY <1>1, <1>2, <2>3, <3>1, <3>2
    <3>4. QED
      BY <3>3 DEF Past
  <2>5. CASE m.height > o.height
    <3>1. \A h \in Nat : h <= o.height => AheadIn(B, h)
      BY <1>1, <2>1, <2>5 DEF AheadIn
    <3>2. \A p \in B : p.type = "PrePrepare" /\ p.from = n =>
             \/ n \in Restartable
             \/ AheadIn(B, p.height)
             \/ p.height <= o.height
      BY <1>1, <2>2, <2>3 DEF Past
    <3>3. \A p \in B : p.type = "PrePrepare" /\ p.from = n =>
             n \in Restartable \/ AheadIn(B, p.height)
      BY <2>3, <3>1, <3>2
    <3>4. QED
      BY <3>3 DEF Past
  <2>6. QED
    BY <1>1, <2>4, <2>5 DEF o
<1>9. NodeInv(n, t1, M)
  BY <1>2, <1>5, <1>7, <1>8, EngineInv
<1>10. TakeRoundChange(s, n, m, c, w) = ProposeIfProposer(t1, n, c, w)
  BY DEF TakeRoundChange
<1> HIDE DEF t1
<1>11. QED
  BY <1>9, <1>10, ProposeIfProposerInv

(* The timeout keeps the invariant: the round rises (on_timeout).          *)
LEMMA TakeTimeoutInv ==
    ASSUME NEW n \in Validators, NEW s, NEW M \in SUBSET Messages,
           NEW c \in Contents, NEW w \in 0 .. 3,
           NodeInv(n, s, M)
    PROVE  NodeInv(n, TakeTimeout(s, n, c, w), M)
<1> DEFINE A == M \cup s.out
           o == s.engine
           e == OnTimeout(o)
           x == Message("RoundChange", e, NoBlock, n)
           t == Send(s, x)
           t1 == [t EXCEPT !.engine = e]
<1>1. /\ s \in Nodes /\ o \in Engines
      /\ o.height \in Nat /\ o.round \in Nat
  BY DEF NodeInv, Nodes, Engines
<1>2. e \in Engines
  BY <1>1, OnTimeoutType
<1>3. e.height = o.height /\ e.round = o.round + 1 /\ e.phase = "Idle"
  BY <1>1 DEF OnTimeout, Engines
<1> HIDE DEF e
<1>4. x \in Messages /\ x.type = "RoundChange" /\ x.from = n
  BY <1>1, <1>3 DEF Message, Messages
<1> HIDE DEF x
<1>5. Good(x, A)
  BY <1>4 DEF Good
<1>6. NodeInv(n, t, M)
  BY <1>4, <1>5, SendInv
<1>7. t \in Nodes /\ t.engine = o
  BY <1>1, <1>4, SendType
<1>8. Backed(e, M \cup t.out)
  BY <1>3 DEF Backed
<1>9. Past(n, e, M \cup t.out)
  <2> DEFINE B == M \cup t.out
  <2>1. B \subseteq Messages
    BY <1>7 DEF Nodes
  <2>2. Past(n, o, B)
    BY <1>6, <1>7 DEF NodeInv
  <2> SUFFICES Past(n, e, B)
    OBVIOUS
  <2> HIDE DEF B, o, t
  <2>3. \A p \in B : p.height \in Nat /\ p.round \in Nat
    BY <2>1 DEF Messages
  <2>4. \A p \in B : p.type = "PrePrepare" /\ p.from = n =>
             \/ n \in Restartable
             \/ AheadIn(B, p.height)
             \/ p.height < o.height
             \/ p.height = o.height /\ p.round <= o.round
    BY <1>1, <2>2, <2>3 DEF Past
  <2>5. QED
    <3>1. \A p \in B : p.type = "PrePrepare" /\ p.from = n =>
             \/ n \in Restartable
             \/ AheadIn(B, p.height)
             \/ p.height < e.height
             \/ p.height = e.height /\ p.round < e.round
      BY <1>1, <1>3, <2>3, <2>4 DEF o
    <3>2. QED
      BY <3>1 DEF Past
<1>10. NodeInv(n, t1, M)
  BY <1>2, <1>6, <1>8, <1>9, EngineInv
<1>11. TakeTimeout(s, n, c, w) = ProposeIfProposer(t1, n, c, w)
  BY DEF TakeTimeout, e, x
<1> HIDE DEF t1
<1>12. QED
  BY <1>10, <1>11, ProposeIfProposerInv

-----------------------------------------------------------------------------
(* The inductive invariant of the specification.                           *)

IInv ==
    /\ TypeOK
    /\ \A m \in msgs : Good(m, msgs)
    /\ \A n \in Validators : Backed(engine[n], msgs) /\ Past(n, engine[n], msgs)
    /\ Unique(msgs)

(* The node record a handler starts from satisfies the invariant.          *)
LEMMA NodeStart ==
    ASSUME IInv, NEW n \in Validators
    PROVE  NodeInv(n, Node(n), msgs)
<1>1. /\ Node(n) \in Nodes
      /\ Node(n).engine = engine[n]
      /\ Node(n).out = {}
  BY DEF IInv, TypeOK, Node, Nodes
<1>2. msgs \cup Node(n).out = msgs
  BY <1>1
<1>3. QED
  BY <1>1, <1>2 DEF NodeInv, IInv

(* The state a handler leaves satisfies the invariant: messages of n do    *)
(* not disturb what the invariant says of the other nodes.                 *)
LEMMA BecomeInv ==
    ASSUME IInv, NEW n \in Validators, NEW s,
           NodeInv(n, s, msgs), Become(n, s)
    PROVE  IInv'
<1> DEFINE B == msgs \cup s.out
<1>1. /\ s \in Nodes /\ s.engine \in Engines /\ s.store \in Stores
      /\ s.out \subseteq Messages
  BY DEF NodeInv, Nodes
<1>2. /\ engine' = [engine EXCEPT ![n] = s.engine]
      /\ store' = [store EXCEPT ![n] = s.store]
      /\ msgs' = B
      /\ failures' = failures + (IF s.failed THEN 1 ELSE 0)
  BY DEF Become
<1>3. TypeOK
  BY DEF IInv
<1>4. TypeOK'
  <2>1. engine' \in [Validators -> Engines]
    BY <1>1, <1>2, <1>3 DEF TypeOK
  <2>2. store' \in [Validators -> Stores]
    BY <1>1, <1>2, <1>3 DEF TypeOK
  <2>3. msgs' \subseteq Messages
    BY <1>1, <1>2, <1>3 DEF TypeOK
  <2>4. failures' \in Nat
    BY <1>2, <1>3 DEF TypeOK
  <2>5. QED
    BY <2>1, <2>2, <2>3, <2>4 DEF TypeOK
<1>5. /\ \A m \in B : Good(m, B)
      /\ \A m \in s.out : m.from = n
      /\ Backed(s.engine, B)
      /\ Past(n, s.engine, B)
      /\ Unique(B)
  BY DEF NodeInv
<1>6. ASSUME NEW k \in Validators
      PROVE  Backed(engine'[k], B) /\ Past(k, engine'[k], B)
  <2>1. CASE k = n
    <3>1. engine'[k] = s.engine
      BY <1>2, <1>3, <2>1 DEF TypeOK
    <3>2. QED
      BY <1>5, <2>1, <3>1
  <2>2. CASE k # n
    <3>1. engine'[k] = engine[k]
      BY <1>2, <1>3, <2>2 DEF TypeOK
    <3>2. Backed(engine[k], msgs) /\ Past(k, engine[k], msgs)
      BY DEF IInv
    <3>3. Backed(engine[k], B)
      BY <3>2 DEF Backed
    <3>4. \A h : AheadIn(msgs, h) => AheadIn(B, h)
      BY DEF AheadIn
    <3>5. \A p \in B : p.from = k => p \in msgs
      BY <1>5, <2>2
    <3>6. Past(k, engine[k], B)
      <4> HIDE DEF B
      <4>1. QED
        BY <3>2, <3>4, <3>5 DEF Past
    <3>7. QED
      BY <3>1, <3>3, <3>6
  <2>3. QED
    BY <2>1, <2>2
<1>7. QED
  BY <1>2, <1>4, <1>5, <1>6 DEF IInv

(* Every message received, every timer and every restart keeps it.         *)
LEMMA NextInv ==
    IInv /\ [Next]_vars => IInv'
<1> SUFFICES ASSUME IInv, [Next]_vars PROVE IInv'
  OBVIOUS
<1> USE NodeStart, BecomeInv
<1>1. Outcomes \subseteq 0 .. 3
  BY DEF Outcomes
<1>2. msgs \in SUBSET Messages
  BY DEF IInv, TypeOK
<1>3. ASSUME NEW n \in Validators PROVE Node(n).engine = engine[n]
  BY DEF Node
<1>4. ASSUME NEW n \in Validators, OnPrePrepare(n) PROVE IInv'
  <2>1. PICK m \in msgs, w \in Outcomes :
          /\ m.type = "PrePrepare"
          /\ m.height = engine[n].height /\ m.round = engine[n].round
          /\ Become(n, TakePrePrepare(Node(n), n, m, w))
    BY <1>4 DEF OnPrePrepare, Deliverable, InStep
  <2>2. QED
    BY <1>1, <1>2, <1>3, <2>1, TakePrePrepareInv
<1>5. ASSUME NEW n \in Validators, OnPrepare(n) PROVE IInv'
  <2>1. PICK m \in msgs :
          /\ m.height = engine[n].height /\ m.round = engine[n].round
          /\ Become(n, TakePrepare(Node(n), n, m))
    BY <1>5 DEF OnPrepare, InStep
  <2>2. QED
    BY <1>2, <1>3, <2>1, TakePrepareInv
<1>6. ASSUME NEW n \in Validators, OnCommit(n) PROVE IInv'
  <2>1. PICK m \in msgs, c \in Contents, w \in Outcomes :
          /\ m.type = "Commit"
          /\ Become(n, TakeCommit(Node(n), n, m, c, w))
    BY <1>6 DEF OnCommit, Deliverable
  <2>2. QED
    BY <1>1, <1>2, <2>1, TakeCommitInv
<1>7. ASSUME NEW n \in Validators, OnRoundChange(n) PROVE IInv'
  <2>1. PICK m \in msgs, c \in Contents, w \in Outcomes :
          /\ m.type = "RoundChange"
          /\ m.height >= engine[n].height
          /\ m.height = engine[n].height => m.round > engine[n].round
          /\ Become(n, TakeRoundChange(Node(n), n, m, c, w))
    BY <1>7 DEF OnRoundChange, Deliverable
  <2>2. QED
    BY <1>1, <1>2, <1>3, <2>1, TakeRoundChangeInv
<1>8. ASSUME NEW n \in Validators, TimerPropose(n) PROVE IInv'
  <2>1. PICK c \in Contents, w \in Outcomes :
          /\ IsProposer(engine[n], n)
          /\ engine[n].height \in Heights
          /\ Become(n, ProposeNewBlock(Node(n), n, c, w))
    BY <1>8 DEF TimerPropose
  <2>2. QED
    BY <1>1, <1>2, <1>3, <2>1, ProposeNewBlockInv
<1>9. ASSUME NEW n \in Validators, TimerTimeout(n) PROVE IInv'
  <2>1. PICK c \in Contents, w \in Outcomes :
          Become(n, TakeTimeout(Node(n), n, c, w))
    BY <1>9 DEF TimerTimeout
  <2>2. QED
    BY <1>1, <1>2, <2>1, TakeTimeoutInv
<1>10. ASSUME NEW n \in Validators, Restart(n) PROVE IInv'
  <2> DEFINE e == NewEngine(store[n].latest + 1)
  <2>1. store[n].latest \in Nat
    BY DEF IInv, TypeOK, Stores
  <2>2. e \in Engines /\ e.phase = "Idle"
    BY <2>1, NewEngineType DEF NewEngine
  <2>3. /\ engine' = [engine EXCEPT ![n] = e]
        /\ UNCHANGED <<store, msgs, failures>>
        /\ n \in Restartable
    BY <1>10 DEF Restart
  <2> HIDE DEF e
  <2>4. TypeOK'
    BY <2>2, <2>3 DEF IInv, TypeOK
  <2>5. Backed(e, msgs) /\ Past(n, e, msgs)
    BY <2>2, <2>3 DEF Backed, Past
  <2>6. \A k \in Validators : Backed(engine'[k], msgs) /\ Past(k, engine'[k], msgs)
    BY <2>3, <2>5 DEF IInv, TypeOK
  <2>7. QED
    BY <2>3, <2>4, <2>6 DEF IInv
<1>11. CASE UNCHANGED vars
  BY <1>11 DEF vars, IInv, TypeOK
<1>12. QED
  BY <1>4, <1>5, <1>6, <1>7, <1>8, <1>9, <1>10, <1>11 DEF Next, Handle

(* The initial state satisfies it.                                         *)
LEMMA InitInv == Init => IInv
<1> SUFFICES ASSUME Init PROVE IInv
  OBVIOUS
<1>1. NewEngine(1) \in Engines /\ NewEngine(1).phase = "Idle"
  BY NewEngineType DEF NewEngine
<1>2. [blocks |-> [h \in Heights |-> NoBlock], latest |-> 0] \in Stores
  BY DEF Stores
<1>3. TypeOK
  BY <1>1, <1>2 DEF Init, TypeOK
<1>4. \A n \in Validators : engine[n] = NewEngine(1)
  BY DEF Init
<1>5. msgs = {}
  BY DEF Init
<1>6. QED
  BY <1>1, <1>3, <1>4, <1>5 DEF IInv, Backed, Past, Unique

(* The invariant holds in every reachable state.                           *)
LEMMA Invariance == Spec => []IInv
<1>1. QED
  BY InitInv, NextInv, PTL DEF Spec

-----------------------------------------------------------------------------
(* The types of the consensus state hold for every validator set.          *)
THEOREM TypeCorrect == Spec => []TypeOK
<1>1. IInv => TypeOK
  BY DEF IInv
<1>2. QED
  BY <1>1, Invariance, PTL

(* For every validator set and every bound a vote follows the proposal of  *)
(* its block by the proposer of its height and round.                      *)
THEOREM VotesAreForProposals == Spec => []VotesFollowProposal
<1>1. IInv => VotesFollowProposal
  <2> SUFFICES ASSUME IInv, NEW m \in msgs, m.type \in {"Prepare", "Commit"}
               PROVE  /\ m.block # NoBlock
                      /\ m.block.validator = Proposer(m.height, m.round)
                      /\ \E p \in Sent("PrePrepare", m.height) :
                            p.round = m.round /\ p.block = m.block
    BY DEF VotesFollowProposal
  <2>1. /\ m.block \in Blocks
        /\ \E p \in msgs : IsProposal(p, m.height, m.round, m.block)
    BY DEF IInv, Good
  <2>2. PICK p \in msgs : IsProposal(p, m.height, m.round, m.block)
    BY <2>1
  <2>3. /\ p.type = "PrePrepare" /\ p.height = m.height
        /\ p.round = m.round /\ p.block = m.block
    BY <2>2 DEF IsProposal
  <2>4. m.block.validator = Proposer(m.height, m.round)
    BY <2>3 DEF IInv, Good
  <2>5. QED
    BY <2>1, <2>3, <2>4, NoBlockAssumption DEF Sent
<1>2. QED
  BY <1>1, Invariance, PTL

(* Two Commit messages of a height and round are for the proposals of that *)
(* round, of which there is one (CommitAgreement).                         *)
LEMMA CommitsAgree == IInv => CommitAgreement
<1> SUFFICES ASSUME IInv, NEW c \in msgs, NEW d \in msgs,
                    c.type = "Commit", d.type = "Commit",
                    c.height = d.height, c.round = d.round
             PROVE  \/ c.block = d.block
                    \/ Proposer(c.height, c.round) \in Restartable
                    \/ Ahead(c.height)
  BY DEF CommitAgreement
<1>1. PICK p \in msgs : IsProposal(p, c.height, c.round, c.block)
  BY DEF IInv, Good
<1>2. PICK q \in msgs : IsProposal(q, d.height, d.round, d.block)
  BY DEF IInv, Good
<1>3. \/ p.block = q.block
      \/ Proposer(c.height, c.round) \in Restartable
      \/ AheadIn(msgs, c.height)
  BY <1>1, <1>2 DEF IInv, Unique, IsProposal
<1>4. AheadIn(msgs, c.height) => Ahead(c.height)
  BY DEF AheadIn, Ahead
<1>5. QED
  BY <1>1, <1>2, <1>3, <1>4 DEF IsProposal

(* For every validator set and every bound two Commit messages of a height *)
(* and round name one block, unless its proposer may be restarted or was   *)
(* taken back by the RoundChange of a later height.                        *)
THEOREM RoundsAgree == Spec => []CommitAgreement
<1>1. QED
  BY CommitsAgree, Invariance, PTL

(***************************************************************************)
(* Proofs about what the consensus stores: the chain of a node has no gap, *)
(* and while no write fails a stored block is final.                       *)
(***************************************************************************)

(* Storage and engine of a node fit together, also after a failed write.   *)
InOrder(e, st) ==
    /\ st.latest \in {e.height - 1, e.height}
    /\ \A h \in Heights :
          /\ h <= st.latest => st.blocks[h] # NoBlock
          /\ st.blocks[h] # NoBlock => h <= st.latest + 1 /\ h <= e.height
    /\ e.proposed # NoBlock => e.proposed.number = e.height

(* Nothing is stored yet of the height the engine works on.                *)
Clean(e, st) ==
    /\ st.latest = e.height - 1
    /\ \A h \in Heights : h >= e.height => st.blocks[h] = NoBlock

Extends(st, old) ==
    \A h \in Heights : old.blocks[h] # NoBlock => st.blocks[h] = old.blocks[h]

(* The invariant on the record of a node that had old stored when the      *)
(* handler began and whose writes end after w.                             *)
StorageInv(s, w, old) ==
    /\ s \in Nodes
    /\ InOrder(s.engine, s.store)
    /\ w = 3 => ~s.failed
    /\ failures = 0 /\ ~s.failed =>
          Clean(s.engine, s.store) /\ Extends(s.store, old)

(* What neither stores nor changes the height keeps it, if a new proposal  *)
(* is of the engine's height.                                              *)
LEMMA SameStore ==
    ASSUME NEW s, NEW t \in Nodes, NEW w, NEW old,
           StorageInv(s, w, old),
           t.store = s.store, t.failed = s.failed,
           t.engine.height = s.engine.height,
           t.engine.proposed # NoBlock => t.engine.proposed.number = s.engine.height
    PROVE  StorageInv(t, w, old)
BY DEF StorageInv, InOrder, Clean

(* Storing the block of the engine's height keeps it, however many of the  *)
(* writes succeed (finalize_block, put_block).                             *)
LEMMA FinalizeStores ==
    ASSUME NEW s, NEW w \in 0 .. 3, NEW old, StorageInv(s, w, old)
    PROVE  StorageInv(Finalize(s, w), w, old)
<1> DEFINE t == Finalize(s, w)
           e == s.engine
           st == Written(s.store, e.proposed, e.commits, w)
           rec == [block |-> e.proposed, commits |-> e.commits]
           f == IF w = 3 THEN NewEngine(e.height + 1)
                ELSE [e EXCEPT !.proposed = NoBlock]
<1>1. CASE ~CanFinalize(e)
  BY <1>1 DEF Finalize
<1>2. CASE CanFinalize(e)
  <2>1. /\ s \in Nodes /\ e \in Engines /\ e.height \in Nat
        /\ s.store \in Stores /\ s.store.latest \in Nat
        /\ s.failed \in BOOLEAN
        /\ t \in Nodes
    BY FinalizeType DEF StorageInv, Nodes, Engines, Stores
  <2>2. /\ e.proposed \in Blocks
        /\ e.proposed.number = e.height
        /\ e.height \in Heights
    BY <1>2, <2>1 DEF StorageInv, InOrder, CanFinalize, Engines, Blocks
  <2>3. t = [s EXCEPT !.store = st, !.engine = f, !.failed = (w < 3)]
    BY <1>2 DEF Finalize
  <2>4. t.store = st /\ t.engine = f /\ (t.failed <=> w < 3)
    <3> HIDE DEF st, f, t
    <3>1. QED
      BY <2>1, <2>3 DEF Nodes
  <2>5. rec # NoBlock
    BY <2>1, <2>2, NothingStoredAssumption DEF StoredBlocks, Engines
  <2>6. /\ w >= 1 => st.blocks = [s.store.blocks EXCEPT ![e.height] = rec]
        /\ w < 1 => st.blocks = s.store.blocks
        /\ w >= 2 => st.latest = e.height
        /\ w < 2 => st.latest = s.store.latest
    BY <2>2 DEF Written
  <2>7. \A h \in Heights : /\ w >= 1 /\ h = e.height => st.blocks[h] = rec
                           /\ w < 1 \/ h # e.height =>
                                st.blocks[h] = s.store.blocks[h]
    <3> HIDE DEF st, rec
    <3>1. s.store.blocks \in [Heights -> StoredBlocks \cup {NoBlock}]
      BY <2>1 DEF Stores
    <3>2. QED
      BY <2>2, <2>6, <3>1
  <2>8. /\ w = 3 => f.height = e.height + 1
        /\ w < 3 => f.height = e.height
        /\ f.proposed = NoBlock
    BY <2>1 DEF NewEngine, Engines
  <2>9. \A h \in Heights : h \in Nat
    BY DEF Heights
  <2> HIDE DEF st, f, t, rec, e
  <2>10. InOrder(e, s.store)
    BY DEF StorageInv, e
  <2>11. InOrder(f, st)
    <3>1. st.latest \in {f.height - 1, f.height}
      BY <2>1, <2>6, <2>8, <2>10 DEF InOrder
    <3>2. ASSUME NEW h \in Heights
          PROVE  /\ h <= st.latest => st.blocks[h] # NoBlock
                 /\ st.blocks[h] # NoBlock => h <= st.latest + 1 /\ h <= f.height
      BY <2>1, <2>5, <2>6, <2>7, <2>8, <2>9, <2>10 DEF InOrder
    <3>3. QED
      BY <2>8, <3>1, <3>2 DEF InOrder
  <2>12. ASSUME failures = 0, w = 3
         PROVE  Clean(f, st) /\ Extends(st, old)
    <3>1. Clean(e, s.store) /\ Extends(s.store, old)
      BY <2>12 DEF StorageInv, e
    <3>2. Clean(f, st)
      BY <2>1, <2>6, <2>7, <2>8, <2>9, <2>12, <3>1 DEF Clean
    <3>3. Extends(st, old)
      BY <2>1, <2>2, <2>7, <2>9, <3>1 DEF Clean, Extends
    <3>4. QED
      BY <3>2, <3>3
  <2>13. QED
    BY <2>1, <2>4, <2>11, <2>12 DEF StorageInv, t
<1>3. QED
  BY <1>1, <1>2

(* Proposing keeps it: the new proposal is of the engine's height          *)
(* (propose_new_block).                                                    *)
LEMMA ProposeNewBlockStores ==
    ASSUME NEW n \in Validators, NEW s, NEW c \in Contents,
           NEW w \in 0 .. 3, NEW old,
           StorageInv(s, w, old),
           s.engine.height \in Heights
    PROVE  StorageInv(ProposeNewBlock(s, n, c, w), w, old)
<1> DEFINE e == s.engine
           b == [number |-> e.height, validator |-> n, content |-> c]
           m == Message("PrePrepare", e, b, n)
           e0 == Adopt(e, b)
           e1 == AddPrepare(e0, n, b)
           e2 == AddCommit(e1, n, b)
           t == [Send(s, m) EXCEPT !.engine = e2]
<1>1. CASE e.phase # "Idle"
  BY <1>1 DEF ProposeNewBlock
<1>2. CASE e.phase = "Idle"
  <2>1. s \in Nodes /\ e \in Engines /\ e.height \in Nat /\ e.round \in Nat
    BY DEF StorageInv, Nodes, Engines
  <2>2. b \in Blocks /\ b.number = e.height
    BY DEF Blocks
  <2>3. m \in Messages
    BY <2>1, <2>2 DEF Message, Messages
  <2>4. e0 \in Engines /\ e0.height = e.height /\ e0.proposed = b
    <3>1. e0 \in Engines
      BY <2>1, <2>2, AdoptType
    <3>2. QED
      BY <2>1, <3>1 DEF Adopt, Engines
  <2> HIDE DEF e, b, m, e0
  <2>5. e1 \in Engines /\ e1.height = e.height /\ e1.proposed = b
    BY <2>2, <2>4, AddPrepareType
  <2> HIDE DEF e1
  <2>6. e2 \in Engines /\ e2.height = e.height /\ e2.proposed = b
    BY <2>2, <2>5, AddCommitType
  <2> HIDE DEF e2
  <2>7. t \in Nodes /\ t.engine = e2 /\ t.store = s.store /\ t.failed = s.failed
    BY <2>1, <2>3, <2>6, SendType, EngineType
  <2> HIDE DEF t
  <2>8. StorageInv(t, w, old)
    BY <2>2, <2>6, <2>7, SameStore DEF e
  <2>9. ProposeNewBlock(s, n, c, w) = Finalize(t, w)
    BY <1>2 DEF ProposeNewBlock, t, m, e, b, e0, e1, e2
  <2>10. QED
    BY <2>8, <2>9, FinalizeStores
<1>3. QED
  BY <1>1, <1>2

(* The same when only a proposer may propose.                              *)
LEMMA ProposeIfProposerStores ==
    ASSUME NEW n \in Validators, NEW s, NEW c \in Contents,
           NEW w \in 0 .. 3, NEW old,
           StorageInv(s, w, old)
    PROVE  StorageInv(ProposeIfProposer(s, n, c, w), w, old)
BY ProposeNewBlockStores DEF ProposeIfProposer

(* Broadcasting a Commit touches nothing but what is broadcast.            *)
LEMMA BroadcastCommitStores ==
    ASSUME NEW n \in Validators, NEW s \in Nodes, NEW m \in Messages
    PROVE  /\ BroadcastCommit(s, m, n) \in Nodes
           /\ BroadcastCommit(s, m, n).engine = s.engine
           /\ BroadcastCommit(s, m, n).store = s.store
           /\ BroadcastCommit(s, m, n).failed = s.failed
<1> DEFINE x == Message("Commit", m, s.engine.proposed, n)
<1>1. x \in Messages
  BY DEF Message, Messages, Nodes, Engines
<1> HIDE DEF x
<1>2. BroadcastCommit(s, m, n) \in {s, Send(s, x)}
  BY DEF BroadcastCommit, x
<1>3. QED
  BY <1>1, <1>2, SendType

(* Arm PrePrepare keeps it: verify_proposal compares the block's number    *)
(* with the engine's height.                                               *)
LEMMA TakePrePrepareStores ==
    ASSUME NEW n \in Validators, NEW s, NEW m \in Messages,
           NEW w \in 0 .. 3, NEW old,
           StorageInv(s, w, old),
           m.block \in Blocks,
           m.block.number = s.engine.height
    PROVE  StorageInv(TakePrePrepare(s, n, m, w), w, old)
<1> DEFINE e0 == Adopt(s.engine, m.block)
           e == AddPrepare(e0, n, m.block)
           x == Message("Prepare", m, m.block, n)
           s1 == [Send(s, x) EXCEPT !.engine = e]
           f == AddCommit(e, n, m.block)
           s2 == [BroadcastCommit(s1, m, n) EXCEPT !.engine = f]
<1>1. s \in Nodes /\ s.engine \in Engines
  BY DEF StorageInv, Nodes
<1>2. e0 \in Engines /\ e0.height = s.engine.height /\ e0.proposed = m.block
  <2>1. e0 \in Engines
    BY <1>1, AdoptType
  <2>2. QED
    BY <1>1, <2>1 DEF Adopt, Engines
<1> HIDE DEF e0
<1>3. e \in Engines /\ e.height = s.engine.height /\ e.proposed = m.block
  BY <1>2, AddPrepareType
<1> HIDE DEF e
<1>4. f \in Engines /\ f.height = s.engine.height /\ f.proposed = m.block
  BY <1>3, AddCommitType
<1> HIDE DEF f
<1>5. x \in Messages
  BY DEF Message, Messages
<1> HIDE DEF x
<1>6. s1 \in Nodes /\ s1.engine = e /\ s1.store = s.store /\ s1.failed = s.failed
  BY <1>1, <1>3, <1>5, SendType, EngineType
<1> HIDE DEF s1
<1>7. s2 \in Nodes /\ s2.engine = f /\ s2.store = s.store /\ s2.failed = s.failed
  BY <1>4, <1>6, BroadcastCommitStores, EngineType
<1> HIDE DEF s2
<1>8. StorageInv(s1, w, old) /\ StorageInv(s2, w, old)
  BY <1>3, <1>4, <1>6, <1>7, SameStore
<1>9. TakePrePrepare(s, n, m, w) \in {s1, Finalize(s2, w)}
  BY DEF TakePrePrepare, s1, s2, e, e0, f, x
<1>10. QED
  BY <1>8, <1>9, FinalizeStores

(* Arm Prepare keeps it.                                                   *)
LEMMA TakePrepareStores ==
    ASSUME NEW n \in Validators, NEW s, NEW m \in Messages, NEW old,
           StorageInv(s, 3, old)
    PROVE  StorageInv(TakePrepare(s, n, m), 3, old)
<1> DEFINE e == AddPrepare(s.engine, m.from, m.block)
           s1 == [s EXCEPT !.engine = e]
           s2 == BroadcastCommit(s1, m, n)
<1>1. /\ s \in Nodes /\ s.engine \in Engines
      /\ m.from \in Validators /\ m.block \in Blocks \cup {NoBlock}
  BY DEF StorageInv, Nodes, Messages
<1>2. /\ e \in Engines
      /\ e.height = s.engine.height /\ e.proposed = s.engine.proposed
  BY <1>1, AddPrepareType
<1> HIDE DEF e
<1>3. s1 \in Nodes /\ s1.engine = e /\ s1.store = s.store /\ s1.failed = s.failed
  BY <1>1, <1>2, EngineType
<1> HIDE DEF s1
<1>4. s2 \in Nodes /\ s2.engine = e /\ s2.store = s.store /\ s2.failed = s.failed
  BY <1>3, BroadcastCommitStores
<1>5. TakePrepare(s, n, m) \in {s1, s2}
  BY DEF TakePrepare, s1, s2, e
<1> HIDE DEF s2
<1>6. s.engine.proposed # NoBlock => s.engine.proposed.number = s.engine.height
  BY DEF StorageInv, InOrder
<1>7. QED
  BY <1>2, <1>3, <1>4, <1>5, <1>6, SameStore

(* Arm Commit keeps it (add_commit, finalize_and_advance).                 *)
LEMMA TakeCommitStores ==
    ASSUME NEW n \in Validators, NEW s, NEW m \in Messages,
           NEW c \in Contents, NEW w \in 0 .. 3, NEW old,
           StorageInv(s, w, old),
           m.block \in Blocks
    PROVE  StorageInv(TakeCommit(s, n, m, c, w), w, old)
<1> DEFINE e == AddCommit(s.engine, m.from, m.block)
           s1 == [s EXCEPT !.engine = e]
           s2 == Finalize(s1, w)
<1>1. s \in Nodes /\ s.engine \in Engines /\ m.from \in Validators
  BY DEF StorageInv, Nodes, Messages
<1>2. /\ e \in Engines
      /\ e.height = s.engine.height /\ e.proposed = s.engine.proposed
  BY <1>1, AddCommitType
<1> HIDE DEF e
<1>3. s1 \in Nodes /\ s1.engine = e /\ s1.store = s.store /\ s1.failed = s.failed
  BY <1>1, <1>2, EngineType
<1> HIDE DEF s1
<1>4. s.engine.proposed # NoBlock => s.engine.proposed.number = s.engine.height
  BY DEF StorageInv, InOrder
<1>5. StorageInv(s1, w, old)
  BY <1>2, <1>3, <1>4, SameStore
<1>6. StorageInv(s2, w, old)
  BY <1>5, FinalizeStores
<1> HIDE DEF s2
<1>7. StorageInv(ProposeIfProposer(s2, n, c, w), w, old)
  BY <1>6, ProposeIfProposerStores
<1>8. TakeCommit(s, n, m, c, w) \in {s1, s2, ProposeIfProposer(s2, n, c, w)}
  BY DEF TakeCommit, s1, s2, e
<1>9. QED
  BY <1>5, <1>6, <1>7, <1>8

(* Arm RoundChange keeps it: proposal and height stay.                     *)
LEMMA TakeRoundChangeStores ==
    ASSUME NEW n \in Validators, NEW s, NEW m \in Messages,
           NEW c \in Contents, NEW w \in 0 .. 3, NEW old,
           StorageInv(s, w, old)
    PROVE  StorageInv(TakeRoundChange(s, n, m, c, w), w, old)
<1> DEFINE e == [s.engine EXCEPT !.round = m.round, !.phase = "Idle"]
           x == [m EXCEPT !.from = n]
           t == [Send(s, x) EXCEPT !.engine = e]
<1>1. s \in Nodes /\ s.engine \in Engines /\ m.round \in Nat
  BY DEF StorageInv, Nodes, Messages
<1>2. /\ e \in Engines
      /\ e.height = s.engine.height /\ e.proposed = s.engine.proposed
  BY <1>1 DEF Engines, Phases
<1> HIDE DEF e
<1>3. x \in Messages
  BY DEF Messages
<1> HIDE DEF x
<1>4. t \in Nodes /\ t.engine = e /\ t.store = s.store /\ t.failed = s.failed
  BY <1>1, <1>2, <1>3, SendType, EngineType
<1>5. s.engine.proposed # NoBlock => s.engine.proposed.number = s.engine.height
  BY DEF StorageInv, InOrder
<1>6. TakeRoundChange(s, n, m, c, w) = ProposeIfProposer(t, n, c, w)
  BY DEF TakeRoundChange, e, x
<1> HIDE DEF t
<1>7. StorageInv(t, w, old)
  BY <1>2, <1>4, <1>5, SameStore
<1>8. QED
  BY <1>6, <1>7, ProposeIfProposerStores

(* The timeout keeps it: the proposal is dropped, the height stays.        *)
LEMMA TakeTimeoutStores ==
    ASSUME NEW n \in Validators, NEW s, NEW c \in Contents,
           NEW w \in 0 .. 3, NEW old,
           StorageInv(s, w, old)
    PROVE  StorageInv(TakeTimeout(s, n, c, w), w, old)
<1> DEFINE e == OnTimeout(s.engine)
           x == Message("RoundChange", e, NoBlock, n)
           t == [Send(s, x) EXCEPT !.engine = e]
<1>1. s \in Nodes /\ s.engine \in Engines
  BY DEF StorageInv, Nodes
<1>2. e \in Engines
  BY <1>1, OnTimeoutType
<1>3. e.height = s.engine.height /\ e.proposed = NoBlock
  BY <1>1 DEF OnTimeout, Engines
<1> HIDE DEF e
<1>4. x \in Messages
  BY <1>2 DEF Message, Messages, Engines
<1> HIDE DEF x
<1>5. t \in Nodes /\ t.engine = e /\ t.store = s.store /\ t.failed = s.failed
  BY <1>1, <1>2, <1>4, SendType, EngineType
<1>6. TakeTimeout(s, n, c, w) = ProposeIfProposer(t, n, c, w)
  BY DEF TakeTimeout, e, x
<1> HIDE DEF t
<1>7. StorageInv(t, w, old)
  BY <1>3, <1>5, SameStore
<1>8. QED
  BY <1>6, <1>7, ProposeIfProposerStores

-----------------------------------------------------------------------------
(* The inductive invariant of the storage.                                 *)

SInv ==
    \A n \in Validators :
        /\ InOrder(engine[n], store[n])
        /\ failures = 0 => Clean(engine[n], store[n])

(* What a step does to the blocks stored, while no write fails.            *)
Final ==
    failures' = 0 => \A n \in Validators : Extends(store'[n], store[n])

(* The node record a handler starts from satisfies the invariant, whatever *)
(* the writes will do.                                                     *)
LEMMA StorageStart ==
    ASSUME TypeOK, SInv, NEW n \in Validators, NEW w
    PROVE  StorageInv(Node(n), w, store[n])
<1>1. /\ Node(n) \in Nodes
      /\ Node(n).engine = engine[n]
      /\ Node(n).store = store[n]
      /\ Node(n).failed = FALSE
  BY DEF TypeOK, Node, Nodes
<1>2. Extends(store[n], store[n])
  BY DEF Extends
<1>3. QED
  BY <1>1, <1>2 DEF StorageInv, SInv

(* The state a handler leaves satisfies it, and what was stored stays.     *)
LEMMA BecomeStores ==
    ASSUME TypeOK, SInv, NEW n \in Validators, NEW s, NEW w,
           StorageInv(s, w, store[n]), Become(n, s)
    PROVE  SInv' /\ Final
<1>1. /\ engine' = [engine EXCEPT ![n] = s.engine]
      /\ store' = [store EXCEPT ![n] = s.store]
      /\ failures' = failures + (IF s.failed THEN 1 ELSE 0)
  BY DEF Become
<1>2. failures \in Nat /\ s.failed \in BOOLEAN
  BY DEF TypeOK, StorageInv, Nodes
<1>3. failures' = 0 => failures = 0 /\ ~s.failed
  BY <1>1, <1>2
<1>4. ASSUME NEW k \in Validators
      PROVE  /\ InOrder(engine'[k], store'[k])
             /\ failures' = 0 =>
                  Clean(engine'[k], store'[k]) /\ Extends(store'[k], store[k])
  <2>1. CASE k = n
    <3>1. engine'[k] = s.engine /\ store'[k] = s.store
      BY <1>1, <2>1 DEF TypeOK
    <3>2. QED
      BY <1>3, <2>1, <3>1 DEF StorageInv
  <2>2. CASE k # n
    <3>1. engine'[k] = engine[k] /\ store'[k] = store[k]
      BY <1>1, <2>2 DEF TypeOK
    <3>2. QED
      BY <1>3, <3>1 DEF SInv, Extends
  <2>3. QED
    BY <2>1, <2>2
<1>5. QED
  BY <1>4 DEF SInv, Final

(* A restart resumes above what is stored (run_node).                      *)
LEMMA RestartStores ==
    ASSUME TypeOK, SInv, NEW n \in Validators, Restart(n)
    PROVE  SInv' /\ Final
<1> DEFINE e == NewEngine(store[n].latest + 1)
<1>1. /\ engine' = [engine EXCEPT ![n] = e]
      /\ store' = store /\ failures' = failures
  BY DEF Restart
<1>2. /\ store[n].latest \in Nat /\ engine[n].height \in Nat
      /\ e.height = store[n].latest + 1 /\ e.proposed = NoBlock
  BY DEF TypeOK, Stores, Engines, NewEngine
<1>3. \A h \in Heights : h \in Nat
  BY DEF Heights
<1> HIDE DEF e
<1>4. InOrder(engine[n], store[n])
  BY DEF SInv
<1>5. InOrder(e, store[n])
  BY <1>2, <1>3, <1>4 DEF InOrder
<1>6. failures = 0 => Clean(e, store[n])
  <2>1. failures = 0 => Clean(engine[n], store[n])
    BY DEF SInv
  <2>2. QED
    BY <1>2, <2>1 DEF Clean
<1>7. \A k \in Validators : /\ k = n => engine'[k] = e
                            /\ k # n => engine'[k] = engine[k]
  BY <1>1 DEF TypeOK
<1>8. SInv'
  BY <1>1, <1>5, <1>6, <1>7 DEF SInv
<1>9. QED
  BY <1>1, <1>8 DEF Final, Extends

(* Every step keeps the storage invariant and, without a failed write,     *)
(* what is stored.                                                         *)
LEMMA NextStores ==
    IInv /\ SInv /\ [Next]_vars => SInv' /\ Final
<1> SUFFICES ASSUME IInv, SInv, [Next]_vars PROVE SInv' /\ Final
  OBVIOUS
<1> USE StorageStart, BecomeStores
<1>1. Outcomes \subseteq 0 .. 3 /\ 3 \in 0 .. 3
  BY DEF Outcomes
<1>2. TypeOK /\ \A m \in msgs : m \in Messages /\ Good(m, msgs)
  BY DEF IInv, TypeOK
<1>3. ASSUME NEW n \in Validators
      PROVE  Node(n).engine = engine[n]
  BY DEF Node
<1>4. ASSUME NEW n \in Validators, OnPrePrepare(n) PROVE SInv' /\ Final
  <2>1. PICK m \in msgs, w \in Outcomes :
          /\ m.type = "PrePrepare"
          /\ VerifyProposal(engine[n], m.block, m.round)
          /\ Become(n, TakePrePrepare(Node(n), n, m, w))
    BY <1>4 DEF OnPrePrepare, Deliverable
  <2>2. m.block \in Blocks /\ m.block.number = Node(n).engine.height
    BY <1>2, <1>3, <2>1 DEF Good, VerifyProposal
  <2>3. QED
    BY <1>1, <1>2, <2>1, <2>2, TakePrePrepareStores
<1>5. ASSUME NEW n \in Validators, OnPrepare(n) PROVE SInv' /\ Final
  <2>1. PICK m \in msgs : Become(n, TakePrepare(Node(n), n, m))
    BY <1>5 DEF OnPrepare
  <2>2. QED
    BY <1>1, <1>2, <2>1, TakePrepareStores
<1>6. ASSUME NEW n \in Validators, OnCommit(n) PROVE SInv' /\ Final
  <2>1. PICK m \in msgs, c \in Contents, w \in Outcomes :
          /\ m.type = "Commit"
          /\ Become(n, TakeCommit(Node(n), n, m, c, w))
    BY <1>6 DEF OnCommit, Deliverable
  <2>2. m.block \in Blocks
    BY <1>2, <2>1 DEF Good
  <2>3. QED
    BY <1>1, <1>2, <2>1, <2>2, TakeCommitStores
<1>7. ASSUME NEW n \in Validators, OnRoundChange(n) PROVE SInv' /\ Final
  <2>1. PICK m \in msgs, c \in Contents, w \in Outcomes :
          Become(n, TakeRoundChange(Node(n), n, m, c, w))
    BY <1>7 DEF OnRoundChange
  <2>2. QED
    BY <1>1, <1>2, <2>1, TakeRoundChangeStores
<1>8. ASSUME NEW n \in Validators, TimerPropose(n) PROVE SInv' /\ Final
  <2>1. PICK c \in Contents, w \in Outcomes :
          /\ engine[n].height \in Heights
          /\ Become(n, ProposeNewBlock(Node(n), n, c, w))
    BY <1>8 DEF TimerPropose
  <2>2. QED
    BY <1>1, <1>2, <1>3, <2>1, ProposeNewBlockStores
<1>9. ASSUME NEW n \in Validators, TimerTimeout(n) PROVE SInv' /\ Final
  <2>1. PICK c \in Contents, w \in Outcomes :
          Become(n, TakeTimeout(Node(n), n, c, w))
    BY <1>9 DEF TimerTimeout
  <2>2. QED
    BY <1>1, <1>2, <2>1, TakeTimeoutStores
<1>10. ASSUME NEW n \in Validators, Restart(n) PROVE SInv' /\ Final
  BY <1>2, <1>10, RestartStores
<1>11. CASE UNCHANGED vars
  BY <1>11 DEF vars, SInv, Final, Extends
<1>12. QED
  BY <1>4, <1>5, <1>6, <1>7, <1>8, <1>9, <1>10, <1>11 DEF Next, Handle

(* The initial state satisfies it.                                         *)
LEMMA InitStores == Init => SInv
<1> SUFFICES ASSUME Init, NEW n \in Validators
             PROVE  InOrder(engine[n], store[n]) /\ Clean(engine[n], store[n])
  BY DEF SInv
<1>1. engine[n] = NewEngine(1) /\ engine[n].height = 1 /\ engine[n].proposed = NoBlock
  BY DEF Init, NewEngine
<1>2. store[n] = [blocks |-> [h \in Heights |-> NoBlock], latest |-> 0]
  BY DEF Init
<1>3. \A h \in Heights : h \in Nat /\ h >= 1
  BY DEF Heights
<1>4. QED
  BY <1>1, <1>2, <1>3 DEF InOrder, Clean

(* Both invariants hold in every reachable state.                          *)
LEMMA StorageInvariance == Spec => [](IInv /\ SInv)
<1>1. IInv /\ SInv /\ [Next]_vars => (IInv /\ SInv)'
  BY NextInv, NextStores
<1>2. QED
  BY <1>1, InitInv, InitStores, PTL DEF Spec

-----------------------------------------------------------------------------
(* For every validator set, any restarts and any failed writes a node's    *)
(* chain has no gap and its engine works next to it.                       *)
THEOREM ChainsHaveNoGap == Spec => []NoGap
<1>1. SInv => NoGap
  BY DEF SInv, InOrder, NoGap
<1>2. QED
  BY <1>1, StorageInvariance, PTL

(* For every validator set and any restarts a stored block is never        *)
(* replaced while no write fails.                                          *)
THEOREM StoredBlocksAreFinal == Spec => StoredIsFinal
<1> DEFINE Kept ==
      failures' = 0 =>
         \A n \in Validators, h \in Heights :
            store[n].blocks[h] # NoBlock =>
                store'[n].blocks[h] = store[n].blocks[h]
<1>1. Final => Kept
  BY DEF Final, Extends
<1>2. IInv /\ SInv /\ [Next]_vars => [Kept]_vars
  BY <1>1, NextStores
<1>3. QED
  BY <1>2, StorageInvariance, PTL DEF Spec, StoredIsFinal
=============================================================================
