----------------------------- MODULE BlockSync -----------------------------
(***************************************************************************)
(* Block synchronisation of one polis-chain node: the BlockSynchronizer    *)
(* (network/sync.rs), the block requests its peers' EventRouter answers,   *)
(* and the storage it shares with the node's own consensus engine.         *)
(*                                                                         *)
(* A block is its number and the branch it is on; its previous hash is the *)
(* hash of the block before it on that branch, and all branches start from *)
(* one genesis block.  A peer holds the blocks of its branch up to its     *)
(* height.  The tick of the synchronizer only logs, so it has no action.   *)
(***************************************************************************)
EXTENDS Naturals, FiniteSets

CONSTANTS
    Peers,
    Branches,
    NoBlock,
    BranchOf,       \* BranchOf[p]: the branch peer p is on
    MaxHeight,      \* bound: nobody finalizes above this height
    MayFail         \* whether storage writes and requests may fail

Heights == 1 .. MaxHeight

ASSUME BranchAssumption ==
    /\ BranchOf \in [Peers -> Branches]
    /\ NoBlock \notin Branches
ASSUME HeightAssumption == MaxHeight \in Nat \ {0}
ASSUME MayFailAssumption == MayFail \in BOOLEAN

VARIABLES
    peerHeight,     \* peerHeight[p]: the last block of peer p
    chain,          \* chain[h]: the branch of the stored block h, or NoBlock
    latest,         \* latest_block_number
    engineHeight,   \* the height the node's own engine works on
    storing,        \* the engine is between the two writes of put_block
    sync,           \* the SyncState
    request,        \* block requests on their way to a peer
    response,       \* block responses on their way back
    task,           \* where on_block_response is, and the blocks it has left
    overtaken       \* history: heights whose block the engine stored after it
                    \* was compared, or which could not be read

nodeVars == <<chain, latest, engineHeight, storing>>
netVars == <<peerHeight, request, response>>
vars == <<nodeVars, netVars, sync, task, overtaken>>

-----------------------------------------------------------------------------
Empty == [h \in Heights |-> NoBlock]

NewSync(local) ==
    [isSyncing |-> FALSE, target |-> local, synced |-> local, buffer |-> Empty]

Requests == [peer : Peers, start : Heights, end : Heights]

Responses == [branch : Branches, start : Heights, end : Nat]

Idle == [step |-> "idle", branch |-> NoBlock, at |-> 0, end |-> 0]

(* latest_block_number().unwrap_or(0): a failed read counts as 0.          *)
ReadLatest == IF MayFail THEN {latest, 0} ELSE {latest}

(* The block before h on a branch is the one stored, if one is stored.     *)
Links(h, b) ==
    h > 1 => chain[h - 1] \in {b, NoBlock}

Init ==
    /\ peerHeight = [p \in Peers |-> 0]
    /\ chain = Empty
    /\ latest = 0
    /\ engineHeight = 1
    /\ storing = FALSE
    /\ sync = NewSync(0)
    /\ request = {}
    /\ response = {}
    /\ task = Idle
    /\ overtaken = {}

(* A peer finalizes its next block.                                        *)
PeerFinalizes(p) ==
    /\ peerHeight[p] < MaxHeight
    /\ peerHeight' = [peerHeight EXCEPT ![p] = @ + 1]
    /\ UNCHANGED <<nodeVars, request, response, sync, task, overtaken>>

(* The announcements that may come in: of any block somebody has, at any   *)
(* time later, by way of any peer, which need not have it.                 *)
Announced == {k \in Heights : \E q \in Peers : k <= peerHeight[q]}

(* A synchronisation from p for the blocks after local up to k.            *)
StartSync(p, local, k) ==
    /\ k > local
    /\ sync' = [sync EXCEPT !.isSyncing = TRUE, !.target = k, !.synced = local]
    /\ request' = request \cup {[peer |-> p, start |-> local + 1, end |-> k]}
    /\ UNCHANGED <<nodeVars, peerHeight, response, task, overtaken>>

(* Defect: an announcement starts a synchronisation while one is running.  *)
Bug_NoSyncingCheck(p) ==
    /\ task = Idle
    /\ \E k \in Announced, local \in ReadLatest : StartSync(p, local, k)

(* on_block_announcement, which the loop calls between two responses.      *)
OnBlockAnnouncement(p) ==
    /\ task = Idle
    /\ ~sync.isSyncing
    /\ \E k \in Announced, local \in ReadLatest : StartSync(p, local, k)

(* The peer's EventRouter sends the blocks it has, up to the first one it  *)
(* does not have or cannot read.                                           *)
PeerAnswers ==
    \E r \in request :
        LET last == IF r.end <= peerHeight[r.peer] THEN r.end ELSE peerHeight[r.peer]
        IN  /\ request' = request \ {r}
            /\ \E end \in {last} \cup (IF MayFail THEN r.start - 1 .. last ELSE {}) :
                  response' = response \cup
                    {[branch |-> BranchOf[r.peer], start |-> r.start, end |-> end]}
            /\ UNCHANGED <<nodeVars, peerHeight, sync, task, overtaken>>

(* An outbound failure is only logged.                                     *)
RequestFails ==
    /\ MayFail
    /\ \E r \in request : request' = request \ {r}
    /\ UNCHANGED <<nodeVars, peerHeight, response, sync, task, overtaken>>

-----------------------------------------------------------------------------
(* on_block_response, in the steps at which it reads or writes the storage *)
(* that the consensus task works on at the same time.                      *)

(* The loop takes a response from its channel.                             *)
ReceiveResponse ==
    /\ task = Idle
    /\ \E m \in response :
          /\ response' = response \ {m}
          /\ task' = [step |-> "check", branch |-> m.branch, at |-> m.start, end |-> m.end]
    /\ UNCHANGED <<nodeVars, peerHeight, request, sync, overtaken>>

Checking == task.step = "check" /\ task.at <= task.end

(* Defect: the previous hash of a block is not looked at.                  *)
Bug_BufferAll ==
    /\ Checking
    /\ sync' = [sync EXCEPT !.buffer[task.at] = task.branch]
    /\ task' = [task EXCEPT !.at = @ + 1]
    /\ overtaken' = overtaken \ {task.at - 1}
    /\ UNCHANGED <<nodeVars, netVars>>

(* A block goes into the buffer when it links to the block before it, as   *)
(* stored at this moment, or when there is none or it cannot be read.      *)
CheckBlock ==
    /\ Checking
    /\ \E read \in IF MayFail THEN BOOLEAN ELSE {TRUE} :
          /\ sync' = IF read /\ ~Links(task.at, task.branch) THEN sync
                     ELSE [sync EXCEPT !.buffer[task.at] = task.branch]
          /\ overtaken' = IF read THEN overtaken \ {task.at - 1}
                          ELSE overtaken \cup {task.at - 1}
    /\ task' = [task EXCEPT !.at = @ + 1]
    /\ UNCHANGED <<nodeVars, netVars>>

(* The end of a response: is_syncing is cleared at the target.             *)
Finish(s) ==
    /\ sync' = [s EXCEPT !.isSyncing = @ /\ s.synced < s.target]
    /\ task' = Idle
    /\ overtaken' = {}

(* The number the write loop looks for: it is computed once, so a response *)
(* writes one block at most.                                               *)
NextBlock == sync.synced + 1

Due(next) ==
    /\ task.step = "check" /\ task.at > task.end
    /\ next \in Heights /\ sync.buffer[next] # NoBlock

(* Block next leaves the buffer, and the first write of put_block stores   *)
(* it or fails.                                                            *)
PutBuffered(next) ==
    LET removed == [sync EXCEPT !.buffer[next] = NoBlock]
    IN  /\ Due(next)
        /\ \/ /\ chain' = [chain EXCEPT ![next] = sync.buffer[next]]
              /\ sync' = removed
              /\ task' = [task EXCEPT !.step = "latest"]
              /\ UNCHANGED overtaken
           \/ /\ MayFail
              /\ Finish(removed)
              /\ UNCHANGED chain
        /\ UNCHANGED <<latest, engineHeight, storing, netVars>>

(* Defect: the last block of the response is written first.                *)
Bug_PutTarget == PutBuffered(sync.target)

PutBlock == PutBuffered(NextBlock)

(* The second write of put_block.                                          *)
PutLatest ==
    /\ task.step = "latest"
    /\ \/ latest' = NextBlock /\ Finish([sync EXCEPT !.synced = NextBlock])
       \/ MayFail /\ Finish(sync) /\ UNCHANGED latest
    /\ UNCHANGED <<chain, engineHeight, storing, netVars>>

(* Nothing in the buffer has the number the loop looks for.                *)
NothingDue ==
    /\ task.step = "check" /\ task.at > task.end
    /\ ~Due(NextBlock)
    /\ Finish(sync)
    /\ UNCHANGED <<nodeVars, netVars>>

OnBlockResponse ==
    ReceiveResponse \/ CheckBlock \/ PutBlock \/ PutLatest \/ NothingDue

-----------------------------------------------------------------------------
(* The node's own engine stores a block (Ibft, finalize_block), in a task  *)
(* of its own: the first write of put_block.  A failed one changes nothing *)
(* here.                                                                   *)
FinalizeBlock ==
    /\ engineHeight \in Heights /\ ~storing
    /\ \E b \in Branches : chain' = [chain EXCEPT ![engineHeight] = b]
    /\ storing' = TRUE
    /\ overtaken' = IF task = Idle THEN {} ELSE overtaken \cup {engineHeight}
    /\ UNCHANGED <<latest, engineHeight, netVars, sync, task>>

(* The second write of put_block sets latest_block_number to the number of *)
(* that block, whatever it was; the engine goes on when this write and     *)
(* those of the transactions succeed.                                      *)
FinalizeLatest ==
    /\ storing
    /\ storing' = FALSE
    /\ \/ latest' = engineHeight /\ engineHeight' = engineHeight + 1
       \/ MayFail /\ latest' \in {latest, engineHeight} /\ UNCHANGED engineHeight
    /\ UNCHANGED <<chain, netVars, sync, task, overtaken>>

(* Engine and synchronizer start anew.                                     *)
StartAt(height, local) ==
    /\ engineHeight' = height
    /\ storing' = FALSE
    /\ sync' = NewSync(local)
    /\ request' = {}
    /\ response' = {}
    /\ task' = Idle
    /\ overtaken' = {}
    /\ UNCHANGED <<peerHeight, chain, latest>>

(* Defect: the engine skips a height.                                      *)
Bug_RestartSkips == StartAt(latest + 2, latest)

(* The process stops, at any step of the two tasks, and starts again from  *)
(* the storage.                                                            *)
Restart == \E local \in ReadLatest : StartAt(latest + 1, local)

Next ==
    \/ \E p \in Peers : PeerFinalizes(p) \/ OnBlockAnnouncement(p)
    \/ PeerAnswers
    \/ RequestFails
    \/ OnBlockResponse
    \/ FinalizeBlock
    \/ FinalizeLatest
    \/ Restart

Spec == Init /\ [][Next]_vars

(* Peers answer and what arrives is handled.                               *)
LiveSpec == Spec /\ WF_vars(PeerAnswers) /\ WF_vars(OnBlockResponse)

-----------------------------------------------------------------------------
(* The types of the synchroniser's state.                                  *)
TypeOK ==
    /\ peerHeight \in [Peers -> 0 .. MaxHeight]
    /\ chain \in [Heights -> Branches \cup {NoBlock}]
    /\ latest \in 0 .. MaxHeight
    /\ engineHeight \in 1 .. MaxHeight + 1
    /\ storing \in BOOLEAN
    /\ sync \in [isSyncing : BOOLEAN, target : 0 .. MaxHeight,
                 synced : 0 .. MaxHeight,
                 buffer : [Heights -> Branches \cup {NoBlock}]]
    /\ request \subseteq Requests
    /\ response \subseteq Responses
    /\ task \in [step : {"idle", "check", "latest"},
                 branch : Branches \cup {NoBlock}, at : Nat, end : Nat]
    /\ overtaken \subseteq 0 .. MaxHeight

(* However the writes of synchronisation and local consensus interleave,   *)
(* fail or stop half-way, every block up to latest_block_number and below  *)
(* the engine's height is stored (on_block_response, put_block, run_node). *)
ChainHasNoGap ==
    \A h \in Heights : h <= latest \/ h < engineHeight => chain[h] # NoBlock

(* At most one request or response is under way or in work, and only while *)
(* synchronising towards a target above what was there at its start        *)
(* (on_block_announcement).                                                *)
OneRequestAtATime ==
    /\ Cardinality(request) + Cardinality(response)
         + (IF task = Idle THEN 0 ELSE 1) <= 1
    /\ request \cup response # {} \/ task # Idle => sync.isSyncing
    /\ sync.isSyncing => sync.synced < sync.target

(* The block that on_block_response writes was compared with the one below *)
(* it while this very response was handled: it links to what is stored     *)
(* there, unless the engine has stored another block there since, or the   *)
(* stored one could not be read.  Blocks an earlier response left in the   *)
(* buffer are never written (on_block_response, on_block_announcement).    *)
SyncedBlocksLink ==
    [][\A h \in Heights :
         /\ chain'[h] # chain[h] /\ storing' = storing
         /\ h - 1 \notin overtaken
         => Links(h, chain'[h])]_vars

(* A synchronisation that was started comes to an end.                     *)
SyncFinishes == sync.isSyncing ~> ~sync.isSyncing

(* latest_block_number never goes back while the node runs or restarts.    *)
LatestNeverFalls == [][latest' >= latest]_latest
=============================================================================
