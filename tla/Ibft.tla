-------------------------------- MODULE Ibft --------------------------------
(***************************************************************************)
(* The IBFT consensus of polis-chain: the engine of                        *)
(* consensus/engine.rs as operators on an engine record, and the           *)
(* ConsensusBridge (network/consensus_bridge.rs) that drives it as one     *)
(* action per message handler and per branch of the round timer.           *)
(*                                                                         *)
(* Every validator runs the bridge in a single task, so a handler, with    *)
(* all it calls, is one atomic step of its node.  The network is the set   *)
(* of all messages broadcast so far: a message may be received late, out   *)
(* of order, several times or never.  Signatures are honest.               *)
(*                                                                         *)
(* A block is its number, its validator and its content, which stands for  *)
(* the timestamp, the previous hash and the transactions; hashing is       *)
(* injective, so a block stands for its own hash.                          *)
(***************************************************************************)
EXTENDS Naturals, FiniteSets

CONSTANTS
    N,              \* number of active validators, the same on every node
    Contents,       \* what two proposals of one validator may differ in
    Restartable,    \* the validators whose process may be restarted, any time
    NoBlock,        \* the Option::None of proposed_block and of storage
    MaxHeight,      \* bound: nothing is proposed above this height
    MaxRound,       \* bound: the timer does not go past this round
    MaxFailures     \* bound: failed storage writes in total

Validators == 0 .. (N - 1)
Heights == 1 .. MaxHeight
Blocks == [number : Heights, validator : Validators, content : Contents]

ASSUME NAssumption == N \in Nat \ {0}
ASSUME BoundsAssumption ==
    /\ MaxHeight \in Nat \ {0}
    /\ MaxRound \in Nat /\ MaxFailures \in Nat
    /\ Restartable \subseteq Validators
ASSUME NoBlockAssumption == NoBlock \notin Blocks

VARIABLES
    engine,         \* engine[n]: the IbftEngine of node n
    store,          \* store[n]: CF_BLOCKS and latest_block_number of node n
    msgs,           \* every ConsensusWireMessage broadcast so far
    failures        \* how many finalizations met a failing storage write

vars == <<engine, store, msgs, failures>>

-----------------------------------------------------------------------------
(* ValidatorSet: round-robin proposer and quorum.                          *)

Proposer(h, r) == (h + r) % N

Quorum == (2 * N) \div 3 + 1

-----------------------------------------------------------------------------
(* IbftEngine.                                                             *)

Phases == {"Idle", "PrePrepared", "Prepared", "Committed"}

(* A seal signs a block hash and nothing else.                             *)
Seals == [validator : Validators, block : Blocks]

(* What CF_BLOCKS holds of a height.                                       *)
StoredBlocks == [block : Blocks, commits : SUBSET Seals]

ASSUME NothingStoredAssumption == NoBlock \notin StoredBlocks

NoLock == [round |-> 0, block |-> NoBlock]

NewEngine(h) ==
    [height |-> h, round |-> 0, phase |-> "Idle", proposed |-> NoBlock,
     prepares |-> {}, commits |-> {}, locked |-> NoLock]

IsProposer(e, n) == Proposer(e.height, e.round) = n

(* Accepting a block, proposed by this node or received.                   *)
Adopt(e, b) == [e EXCEPT !.proposed = b, !.phase = "PrePrepared"]

LockAllows(e, b) ==
    e.locked # NoLock =>
        /\ e.round >= e.locked.round
        /\ e.round = e.locked.round => b = e.locked.block

VerifyProposal(e, b, r) ==
    /\ b.validator = Proposer(b.number, r)
    /\ b.number = e.height
    /\ LockAllows(e, b)

Matches(e, b) == e.proposed \in {b, NoBlock}

(* add_prepare returns Ok(true) when the vote completes a quorum and also  *)
(* when its voter is already counted.                                      *)
PrepareTaken(e, b) == e.phase = "PrePrepared" /\ Matches(e, b)

(* Defect: one vote too few.                                               *)
Bug_PrepareQuorum(e, v) == Cardinality(e.prepares \cup {v}) + 2 >= Quorum

PrepareQuorum(e, v) == Cardinality(e.prepares \cup {v}) + 1 >= Quorum

PrepareResult(e, v, b) ==
    PrepareTaken(e, b) /\ (v \in e.prepares \/ PrepareQuorum(e, v))

AddPrepare(e, v, b) ==
    IF ~PrepareTaken(e, b) \/ v \in e.prepares THEN e
    ELSE IF PrepareQuorum(e, v)
         THEN [e EXCEPT !.prepares = @ \cup {v}, !.phase = "Prepared",
                        !.locked = [round |-> e.round, block |-> b]]
         ELSE [e EXCEPT !.prepares = @ \cup {v}]

Committers(e) == {s.validator : s \in e.commits}

CommitTaken(e, b) == e.phase \in {"Prepared", "Committed"} /\ Matches(e, b)

(* Defect: one seal too few.                                               *)
Bug_CommitQuorum(e, v) == Cardinality(Committers(e) \cup {v}) + 2 >= Quorum

CommitQuorum(e, v) == Cardinality(Committers(e) \cup {v}) + 1 >= Quorum

CommitResult(e, v, b) ==
    CommitTaken(e, b) /\ (v \in Committers(e) \/ CommitQuorum(e, v))

AddCommit(e, v, b) ==
    IF ~CommitTaken(e, b) \/ v \in Committers(e) THEN e
    ELSE [e EXCEPT !.commits = @ \cup {[validator |-> v, block |-> b]},
                   !.phase = IF CommitQuorum(e, v) THEN "Committed" ELSE @]

(* Defect: the timeout drops the lock.                                     *)
Bug_TimeoutUnlocks(e) ==
    [e EXCEPT !.round = @ + 1, !.phase = "Idle", !.proposed = NoBlock,
              !.prepares = {}, !.commits = {}, !.locked = NoLock]

(* Defect: rounds are counted down.                                        *)
Bug_RoundsDown(e) ==
    [e EXCEPT !.round = @ - 1, !.phase = "Idle", !.proposed = NoBlock,
              !.prepares = {}, !.commits = {}]

(* on_timeout keeps the lock; start_new_round follows in the same step.    *)
OnTimeout(e) ==
    [e EXCEPT !.round = @ + 1, !.phase = "Idle", !.proposed = NoBlock,
              !.prepares = {}, !.commits = {}]

-----------------------------------------------------------------------------
(* Handlers work on the node record s: its engine, its store, what it      *)
(* broadcasts, and whether a storage write failed.                         *)

Message(type, at, b, n) ==
    [type |-> type, height |-> at.height, round |-> at.round,
     block |-> b, from |-> n]

Node(n) ==
    [engine |-> engine[n], store |-> store[n], out |-> {}, failed |-> FALSE]

Send(s, m) == [s EXCEPT !.out = @ \cup {m}]

(* Defect: latest_block_number is written before the block.                *)
Bug_NumberFirst(st, b, seals, w) ==
    [blocks |-> IF w >= 2
                THEN [st.blocks EXCEPT ![b.number] =
                                   [block |-> b, commits |-> seals]]
                ELSE st.blocks,
     latest |-> IF w >= 1 THEN b.number ELSE st.latest]

(* finalize_block takes proposed_block, writes the block, then             *)
(* latest_block_number, then the transactions, then advances.  w counts    *)
(* the writes that succeed: 3 is all of them.                              *)
Written(st, b, seals, w) ==
    [blocks |-> IF w >= 1
                THEN [st.blocks EXCEPT ![b.number] =
                                   [block |-> b, commits |-> seals]]
                ELSE st.blocks,
     latest |-> IF w >= 2 THEN b.number ELSE st.latest]

CanFinalize(e) == e.phase = "Committed" /\ e.proposed # NoBlock

Finalize(s, w) ==
    LET e == s.engine
    IN  IF ~CanFinalize(e) THEN s
        ELSE [s EXCEPT
                !.store = Written(@, e.proposed, e.commits, w),
                !.engine = IF w = 3 THEN NewEngine(e.height + 1)
                           ELSE [e EXCEPT !.proposed = NoBlock],
                !.failed = w < 3]

(* Defect: the proposer leaves its own votes out.                          *)
Bug_NoSelfVote(s, n, c, w) ==
    LET b == [number |-> s.engine.height, validator |-> n, content |-> c]
    IN  [Send(s, Message("PrePrepare", s.engine, b, n))
           EXCEPT !.engine = Adopt(s.engine, b)]

(* propose_new_block: the proposer counts its own Prepare without sending  *)
(* it and, when that is a quorum, its own Commit.                          *)
ProposeNewBlock(s, n, c, w) ==
    LET e == s.engine
        b == [number |-> e.height, validator |-> n, content |-> c]
        e1 == AddPrepare(Adopt(e, b), n, b)
        e2 == AddCommit(e1, n, b)
    IN  IF e.phase # "Idle" THEN s
        ELSE Finalize([Send(s, Message("PrePrepare", e, b, n))
                         EXCEPT !.engine = e2], w)

ProposeIfProposer(s, n, c, w) ==
    IF IsProposer(s.engine, n) /\ s.engine.height \in Heights
    THEN ProposeNewBlock(s, n, c, w)
    ELSE s

(* Defect: commit to the locked block instead of the proposed one.         *)
Bug_CommitsToLock(s, m, n) ==
    IF s.engine.locked = NoLock THEN s
    ELSE Send(s, Message("Commit", m, s.engine.locked.block, n))

BroadcastCommit(s, m, n) ==
    IF s.engine.proposed = NoBlock THEN s
    ELSE Send(s, Message("Commit", m, s.engine.proposed, n))

(* handle_consensus_message, arm PrePrepare.                               *)
TakePrePrepare(s, n, m, w) ==
    LET e == AddPrepare(Adopt(s.engine, m.block), n, m.block)
        s1 == [Send(s, Message("Prepare", m, m.block, n)) EXCEPT !.engine = e]
        s2 == [BroadcastCommit(s1, m, n) EXCEPT
                  !.engine = AddCommit(e, n, m.block)]
    IN  IF e.phase = "Prepared" THEN Finalize(s2, w) ELSE s1

(* Arm Prepare.                                                            *)
TakePrepare(s, n, m) ==
    LET s1 == [s EXCEPT !.engine = AddPrepare(@, m.from, m.block)]
    IN  IF PrepareResult(s.engine, m.from, m.block)
        THEN BroadcastCommit(s1, m, n) ELSE s1

(* Arm Commit, with finalize_and_advance.                                  *)
TakeCommit(s, n, m, c, w) ==
    LET s1 == [s EXCEPT !.engine = AddCommit(@, m.from, m.block)]
        s2 == Finalize(s1, w)
    IN  IF ~CommitResult(s.engine, m.from, m.block) THEN s1
        ELSE IF s2.engine.height = s.engine.height THEN s2
             ELSE ProposeIfProposer(s2, n, c, w)

(* Arm RoundChange, with start_new_round: the round is taken from the      *)
(* message, whose height may be above the engine's, and what was collected *)
(* in the old round stays.                                                 *)
TakeRoundChange(s, n, m, c, w) ==
    LET e == [s.engine EXCEPT !.round = m.round, !.phase = "Idle"]
        m1 == [m EXCEPT !.from = n]
    IN  ProposeIfProposer([Send(s, m1) EXCEPT !.engine = e], n, c, w)

(* The timer in a phase other than Idle and Committed.                     *)
TakeTimeout(s, n, c, w) ==
    LET e == OnTimeout(s.engine)
    IN  ProposeIfProposer(
            [Send(s, Message("RoundChange", e, NoBlock, n)) EXCEPT !.engine = e],
            n, c, w)

-----------------------------------------------------------------------------
Init ==
    /\ engine = [n \in Validators |-> NewEngine(1)]
    /\ store = [n \in Validators |->
                  [blocks |-> [h \in Heights |-> NoBlock], latest |-> 0]]
    /\ msgs = {}
    /\ failures = 0

(* How far the storage writes of this step get.                            *)
Outcomes == IF failures < MaxFailures THEN 0 .. 3 ELSE {3}

Become(n, s) ==
    /\ engine' = [engine EXCEPT ![n] = s.engine]
    /\ store' = [store EXCEPT ![n] = s.store]
    /\ msgs' = msgs \cup s.out
    /\ failures' = failures + (IF s.failed THEN 1 ELSE 0)

(* A message of another node is handed to node n by the gossip network.    *)
Deliverable(n, m, type) == m.type = type /\ m.from # n

InStep(n, m) == m.height = engine[n].height /\ m.round = engine[n].round

OnPrePrepare(n) ==
    \E m \in msgs, w \in Outcomes :
        /\ Deliverable(n, m, "PrePrepare")
        /\ InStep(n, m)
        /\ engine[n].phase = "Idle"
        /\ VerifyProposal(engine[n], m.block, m.round)
        /\ Become(n, TakePrePrepare(Node(n), n, m, w))

OnPrepare(n) ==
    \E m \in msgs :
        /\ Deliverable(n, m, "Prepare")
        /\ InStep(n, m)
        /\ Become(n, TakePrepare(Node(n), n, m))

OnCommit(n) ==
    \E m \in msgs, c \in Contents, w \in Outcomes :
        /\ Deliverable(n, m, "Commit")
        /\ InStep(n, m)
        /\ Become(n, TakeCommit(Node(n), n, m, c, w))

(* Defect: the RoundChange of the current round is taken too.              *)
Bug_SameRound(n) ==
    \E m \in msgs, c \in Contents, w \in Outcomes :
        /\ Deliverable(n, m, "RoundChange")
        /\ m.height >= engine[n].height
        /\ m.height = engine[n].height => m.round >= engine[n].round
        /\ Become(n, TakeRoundChange(Node(n), n, m, c, w))

OnRoundChange(n) ==
    \E m \in msgs, c \in Contents, w \in Outcomes :
        /\ Deliverable(n, m, "RoundChange")
        /\ m.height >= engine[n].height
        /\ m.height = engine[n].height => m.round > engine[n].round
        /\ Become(n, TakeRoundChange(Node(n), n, m, c, w))

(* The round timer: an Idle proposer proposes, an unfinished round times   *)
(* out, an Idle node that is not the proposer and a Committed one wait.    *)
TimerPropose(n) ==
    \E c \in Contents, w \in Outcomes :
        /\ engine[n].phase = "Idle"
        /\ IsProposer(engine[n], n)
        /\ engine[n].height \in Heights
        /\ Become(n, ProposeNewBlock(Node(n), n, c, w))

TimerTimeout(n) ==
    \E c \in Contents, w \in Outcomes :
        /\ engine[n].phase \in {"PrePrepared", "Prepared"}
        /\ engine[n].round < MaxRound
        /\ Become(n, TakeTimeout(Node(n), n, c, w))

(* Defect: the node resumes at the block it already has.                   *)
Bug_ResumesAtLatest(n) ==
    /\ n \in Restartable
    /\ store[n].latest > 0
    /\ engine' = [engine EXCEPT ![n] = NewEngine(store[n].latest)]
    /\ UNCHANGED <<store, msgs, failures>>

(* The process stops and run_node starts it again from what it stored.     *)
Restart(n) ==
    /\ n \in Restartable
    /\ engine' = [engine EXCEPT ![n] = NewEngine(store[n].latest + 1)]
    /\ UNCHANGED <<store, msgs, failures>>

Handle(n) ==
    \/ OnPrePrepare(n)
    \/ OnPrepare(n)
    \/ OnCommit(n)
    \/ OnRoundChange(n)
    \/ TimerPropose(n)
    \/ TimerTimeout(n)

Next == \E n \in Validators : Handle(n) \/ Restart(n)

Spec == Init /\ [][Next]_vars

(* The round timer of a running node keeps ticking.                        *)
LiveSpec == Spec /\ \A n \in Validators : WF_vars(TimerPropose(n))

-----------------------------------------------------------------------------
(* Properties.                                                             *)

Sent(type, h) == {m \in msgs : m.type = type /\ m.height = h}

(* Some node already asks for a round of a later height.  The RoundChange  *)
(* arm lets such a message set the round of a node that is still behind.   *)
Ahead(h) == \E m \in msgs : m.type = "RoundChange" /\ m.height > h

Messages ==
    [type : {"PrePrepare", "Prepare", "Commit", "RoundChange"},
     height : Nat, round : Nat, block : Blocks \cup {NoBlock},
     from : Validators]

Engines ==
    [height : Nat, round : Nat, phase : Phases,
     proposed : Blocks \cup {NoBlock},
     prepares : SUBSET Validators, commits : SUBSET Seals,
     locked : [round : Nat, block : Blocks \cup {NoBlock}]]

Stores == [blocks : [Heights -> StoredBlocks \cup {NoBlock}], latest : Nat]

(* The type invariant of the consensus state.                              *)
TypeOK ==
    /\ engine \in [Validators -> Engines]
    /\ store \in [Validators -> Stores]
    /\ msgs \subseteq Messages
    /\ failures \in Nat

(* Storage has no gap: the blocks up to latest_block_number are all there, *)
(* at most the next one was written without it, and the engine works on    *)
(* the height after the last complete block or, after a failed write of    *)
(* the transactions, still on that block (finalize_block, put_block).      *)
NoGap ==
    \A n \in Validators :
        /\ store[n].latest \in {engine[n].height - 1, engine[n].height}
        /\ \A h \in Heights :
              /\ h <= store[n].latest => store[n].blocks[h] # NoBlock
              /\ store[n].blocks[h] # NoBlock =>
                    /\ h <= store[n].latest + 1
                    /\ h <= engine[n].height

(* While no storage write failed a stored block is never replaced, by any  *)
(* order of messages, timeouts and restarts.                               *)
StoredIsFinal ==
    [][failures' = 0 =>
         \A n \in Validators, h \in Heights :
            store[n].blocks[h] # NoBlock =>
                store'[n].blocks[h] = store[n].blocks[h]]_vars

(* A vote for a block at a height and round follows the proposal of that   *)
(* block by the proposer of that height and round: no vote left over from  *)
(* an earlier round or height is turned into one for the current round     *)
(* (handle_consensus_message, broadcast_commit).                           *)
VotesFollowProposal ==
    \A m \in msgs :
        m.type \in {"Prepare", "Commit"} =>
            /\ m.block # NoBlock
            /\ m.block.validator = Proposer(m.height, m.round)
            /\ \E p \in Sent("PrePrepare", m.height) :
                  p.round = m.round /\ p.block = m.block

(* Two Commit messages of one height and round name one block, unless the  *)
(* proposer of that round may have been restarted or the RoundChange of a  *)
(* later height brought it back to a round it had left.                    *)
CommitAgreement ==
    \A c, d \in msgs :
        /\ c.type = "Commit" /\ d.type = "Commit"
        /\ c.height = d.height /\ c.round = d.round
        => \/ c.block = d.block
           \/ Proposer(c.height, c.round) \in Restartable
           \/ Ahead(c.height)

(* The seals stored with a block come from distinct validators, with the   *)
(* node's implied vote they make a quorum, and each validator that sealed  *)
(* did broadcast a Commit of that height, for the block its seal names.    *)
(* With three validators or more the implied vote is a real one: the node  *)
(* broadcast its own Commit for the block (finalize_block, add_commit).    *)
StoredIsCertified ==
    \A n \in Validators, h \in Heights :
        store[n].blocks[h] # NoBlock =>
            LET b == store[n].blocks[h].block
                seals == store[n].blocks[h].commits
                Committed(v, x) ==
                    \E m \in Sent("Commit", h) : m.from = v /\ m.block = x
            IN  /\ b.number = h
                /\ Cardinality({s.validator : s \in seals}) + 1 >= Quorum
                /\ Cardinality({s.validator : s \in seals}) = Cardinality(seals)
                /\ \A s \in seals : s.validator = n \/ Committed(s.validator, s.block)
                /\ N >= 3 => Committed(n, b)

(* A validator that has broadcast a Commit for the height it works on still *)
(* holds a lock, on a block it broadcast a Commit for, however many rounds *)
(* timed out since; only a restart forgets it (on_timeout keeps            *)
(* locked_block, add_prepare sets it).  From five validators on a Prepare  *)
(* received twice makes a node send Commit before it is Prepared.          *)
CommitIsRemembered ==
    \A n \in Validators :
        LET mine == {m \in Sent("Commit", engine[n].height) : m.from = n}
            lock == engine[n].locked
        IN  /\ mine # {} /\ n \notin Restartable /\ N <= 4 => lock # NoLock
            /\ lock # NoLock /\ N >= 3 =>
                  \E m \in mine : m.round = lock.round /\ m.block = lock.block

(* Two nodes that stored a block at a height stored the same block.        *)
Agreement ==
    \A n, k \in Validators, h \in Heights :
        /\ store[n].blocks[h] # NoBlock
        /\ store[k].blocks[h] # NoBlock
        => store[n].blocks[h].block = store[k].blocks[h].block

(* Three validators, all of whom a quorum needs, agree at a height as long *)
(* as none restarts, no write fails and no RoundChange of a later height   *)
(* brings a node back to a round that another has finalized.  The lock has *)
(* no part in it: whoever finalizes in a later round needs the votes of    *)
(* that round from all, also from a node that has already gone on          *)
(* (add_prepare, add_commit, and the proposer that sends no Prepare).      *)
AgreementOfThree ==
    N = 3 /\ Restartable = {} /\ failures = 0 =>
        \A n, k \in Validators, h \in Heights :
            /\ store[n].blocks[h] # NoBlock
            /\ store[k].blocks[h] # NoBlock
            => \/ store[n].blocks[h].block = store[k].blocks[h].block
               \/ Ahead(h)

(* With reliable timers a validator set of one stores every block, however *)
(* often the process is restarted in between.                              *)
SoloAdvances ==
    N = 1 => \A n \in Validators : <>(store[n].latest = MaxHeight)
=============================================================================
