--------------------------- MODULE BlockSyncProofs ---------------------------
(***************************************************************************)
(* The safety of BlockSync, for any peers, branches, heights and failures. *)
(*                                                                         *)
(* The invariant says what a synchronisation in progress looks like: there *)
(* is one request, or one response, or one response in work; its blocks    *)
(* are above synced_height and not above target_height, and the buffer     *)
(* holds nothing but blocks of the response in work, each compared with    *)
(* what was stored below it.                                               *)
(***************************************************************************)
EXTENDS BlockSync, FiniteSetTheorems, TLAPS

USE DEF Heights

Blocks == Branches \cup {NoBlock}

SyncStates ==
    [isSyncing : BOOLEAN, target : 0 .. MaxHeight, synced : 0 .. MaxHeight,
     buffer : [Heights -> Blocks]]

(* Everything up to what was synchronised, stored or finalized is there,   *)
(* and so is a block between the two writes of put_block.                  *)
Stored ==
    /\ \A h \in Heights :
          h <= sync.synced \/ h <= latest \/ h < engineHeight => chain[h] # NoBlock
    /\ storing => engineHeight \in Heights /\ chain[engineHeight] # NoBlock
    /\ task.step = "latest" =>
          NextBlock \in Heights /\ chain[NextBlock] # NoBlock

(* At most one request or response exists, and none while one is in work.  *)
OneInFlight ==
    /\ \/ request = {} /\ response = {}
       \/ \E r \in Requests : request = {r} /\ response = {}
       \/ \E m \in Responses : request = {} /\ response = {m}
    /\ task # Idle => request = {} /\ response = {}

(* What is in flight or in work are blocks this synchronisation misses.    *)
InRange ==
    /\ \A r \in request :
          sync.isSyncing /\ r.start = NextBlock /\ r.end = sync.target
    /\ \A m \in response :
          sync.isSyncing /\ m.start = NextBlock /\ m.end <= sync.target
    /\ task # Idle => sync.isSyncing /\ task.end <= sync.target
    /\ task.step = "idle" => task = Idle
    /\ task.step = "check" => NextBlock <= task.at

Progress == sync.isSyncing => sync.synced < sync.target

(* The buffer fills while a response is in work.                           *)
BufferBefore ==
    ~sync.isSyncing \/ request # {} \/ response # {} => sync.buffer = Empty

(* What it holds then: blocks of that response looked at so far, without   *)
(* the one being written.                                                  *)
BufferDuring ==
    \A h \in Heights : task # Idle /\ sync.buffer[h] # NoBlock =>
        /\ h <= task.end
        /\ NextBlock <= h
        /\ task.step = "check" => h < task.at
        /\ task.step = "latest" => h # NextBlock

(* Before the write loop, a buffered block links to the block below it as  *)
(* that was read, until the engine stores another one.                     *)
Compared ==
    \A h \in Heights :
        task.step = "check" /\ sync.buffer[h] # NoBlock /\ h - 1 \notin overtaken =>
            Links(h, sync.buffer[h])

IInv ==
    /\ TypeOK
    /\ Stored
    /\ OneInFlight
    /\ InRange
    /\ Progress
    /\ BufferBefore
    /\ BufferDuring
    /\ Compared

(* The definitions every step opens.                                       *)
LEMMA Types ==
  ASSUME TypeOK
  PROVE  /\ sync \in SyncStates
         /\ task \in [step : {"idle", "check", "latest"}, branch : Blocks, at : Nat, end : Nat]
         /\ chain \in [Heights -> Blocks]
         /\ latest \in 0 .. MaxHeight
         /\ engineHeight \in 1 .. MaxHeight + 1
         /\ sync.synced \in 0 .. MaxHeight /\ sync.target \in 0 .. MaxHeight
         /\ sync.buffer \in [Heights -> Blocks]
         /\ task.at \in Nat /\ task.end \in Nat
         /\ task.step \in {"idle", "check", "latest"}
         /\ MaxHeight \in Nat \ {0}
  BY HeightAssumption DEF TypeOK, SyncStates, Blocks

(* The invariant holds before the first message.                           *)
LEMMA InitInv ==
  ASSUME Init
  PROVE  IInv
<1>1. /\ sync = [isSyncing |-> FALSE, target |-> 0, synced |-> 0, buffer |-> Empty]
      /\ task = Idle /\ Idle.step = "idle"
      /\ request = {} /\ response = {} /\ latest = 0 /\ engineHeight = 1
      /\ ~storing
  BY DEF Init, NewSync, Idle
<1>2. TypeOK
  <2>1. Empty \in [Heights -> Branches \cup {NoBlock}]
    BY DEF Empty
  <2>2. Idle \in [step : {"idle", "check", "latest"},
                  branch : Branches \cup {NoBlock}, at : Nat, end : Nat]
    BY DEF Idle
  <2>3. /\ 0 \in 0 .. MaxHeight /\ 1 \in 1 .. MaxHeight + 1
        /\ peerHeight \in [Peers -> 0 .. MaxHeight]
        /\ chain = Empty /\ storing = FALSE /\ overtaken = {}
    BY HeightAssumption DEF Init
  <2>4. sync \in [isSyncing : BOOLEAN, target : 0 .. MaxHeight,
                  synced : 0 .. MaxHeight,
                  buffer : [Heights -> Branches \cup {NoBlock}]]
    BY <1>1, <2>1, <2>3
  <2> QED BY <1>1, <2>1, <2>2, <2>3, <2>4 DEF TypeOK
<1>3. Stored /\ OneInFlight /\ InRange
  BY <1>1, HeightAssumption DEF Stored, OneInFlight, InRange
<1>4. Progress /\ BufferBefore /\ BufferDuring /\ Compared
  BY <1>1 DEF Idle, Progress, BufferBefore, BufferDuring, Compared, Empty
<1> QED BY <1>2, <1>3, <1>4 DEF IInv

(* A block a peer finalizes changes nothing at the node.                   *)
LEMMA PeerFinalizesInv ==
  ASSUME IInv, NEW p \in Peers, PeerFinalizes(p)
  PROVE  IInv'
<1>1. UNCHANGED <<nodeVars, request, response, sync, task, overtaken>>
  BY DEF PeerFinalizes
<1>2. TypeOK'
  BY <1>1, HeightAssumption DEF PeerFinalizes, IInv, TypeOK, nodeVars
<1> QED
  BY <1>1, <1>2 DEF IInv, Stored, OneInFlight, InRange, Progress, BufferBefore,
      BufferDuring, Compared, NextBlock, Links, nodeVars

(* A synchronisation starts from an idle state, with an empty buffer       *)
(* (on_block_announcement).                                                *)
LEMMA OnBlockAnnouncementInv ==
  ASSUME IInv, NEW p \in Peers, OnBlockAnnouncement(p)
  PROVE  IInv'
<1> PICK k \in Announced, local \in ReadLatest : StartSync(p, local, k)
  BY DEF OnBlockAnnouncement
<1> DEFINE r == [peer |-> p, start |-> local + 1, end |-> k]
<1>0. /\ task = Idle /\ ~sync.isSyncing /\ k > local
      /\ sync' = [sync EXCEPT !.isSyncing = TRUE, !.target = k, !.synced = local]
      /\ request' = request \cup {r}
      /\ UNCHANGED <<chain, latest, engineHeight, storing, peerHeight, response,
                     task, overtaken>>
  BY DEF OnBlockAnnouncement, StartSync, nodeVars
<1>1. /\ k \in Heights /\ local \in 0 .. MaxHeight /\ local <= latest
      /\ local + 1 \in Heights
  <2>1. k \in Heights
    BY DEF Announced
  <2>2. local = latest \/ local = 0
    BY DEF ReadLatest
  <2> QED BY <1>0, <2>1, <2>2, Types DEF IInv
<1>2. request = {} /\ response = {}
  BY <1>0 DEF IInv, InRange, OneInFlight
<1>3. r \in Requests /\ request' = {r} /\ response' = {}
  BY <1>0, <1>1, <1>2 DEF Requests
<1>4. sync' = [isSyncing |-> TRUE, target |-> k, synced |-> local,
               buffer |-> sync.buffer]
  BY <1>0, Types DEF IInv, SyncStates
<1>5. TypeOK'
  <2>1. k \in 0 .. MaxHeight
    BY <1>1, HeightAssumption
  <2>2. sync' \in SyncStates
    BY <2>1, <1>1, <1>4, Types DEF IInv, SyncStates
  <2> QED BY <1>0, <1>3, <2>2 DEF IInv, TypeOK, SyncStates, Blocks
<1>6. Stored'
  BY <1>0, <1>1, <1>4, Types DEF IInv, Stored, Idle
<1>7. OneInFlight'
  BY <1>0, <1>3 DEF OneInFlight
<1>8. InRange' /\ Progress'
  BY <1>0, <1>1, <1>3, <1>4 DEF InRange, Progress, NextBlock, Idle
<1>9. BufferBefore' /\ BufferDuring' /\ Compared'
  BY <1>0, <1>4 DEF IInv, BufferBefore, BufferDuring, Compared, Empty, Idle
<1> QED BY <1>5, <1>6, <1>7, <1>8, <1>9 DEF IInv

(* The answer of a peer takes the place of the request and ends no later.  *)
LEMMA PeerAnswersInv ==
  ASSUME IInv, PeerAnswers
  PROVE  IInv'
<1>0. PICK r \in request :
        LET last == IF r.end <= peerHeight[r.peer] THEN r.end ELSE peerHeight[r.peer]
        IN  /\ request' = request \ {r}
            /\ \E end \in {last} \cup (IF MayFail THEN r.start - 1 .. last ELSE {}) :
                  response' = response \cup
                    {[branch |-> BranchOf[r.peer], start |-> r.start, end |-> end]}
            /\ UNCHANGED <<nodeVars, peerHeight, sync, task, overtaken>>
  BY DEF PeerAnswers
<1> DEFINE last == IF r.end <= peerHeight[r.peer] THEN r.end ELSE peerHeight[r.peer]
<1>1. PICK end \in {last} \cup (IF MayFail THEN r.start - 1 .. last ELSE {}) :
          response' = response \cup
            {[branch |-> BranchOf[r.peer], start |-> r.start, end |-> end]}
  BY <1>0
<1> DEFINE m == [branch |-> BranchOf[r.peer], start |-> r.start, end |-> end]
<1>2. r \in Requests /\ request = {r} /\ response = {} /\ task = Idle
  BY DEF IInv, TypeOK, OneInFlight
<1>3. last \in Nat /\ last <= r.end
  BY <1>2 DEF IInv, TypeOK, Requests
<1>4. end \in Nat /\ end <= r.end
  BY <1>2, <1>3 DEF Requests
<1>5. m \in Responses
  BY <1>2, <1>4, BranchAssumption DEF Requests, Responses
<1>6. request' = {} /\ response' = {m}
  BY <1>0, <1>1, <1>2
<1>7. UNCHANGED <<chain, latest, engineHeight, storing, peerHeight, sync, task,
                 overtaken>>
  BY <1>0 DEF nodeVars
<1>8. TypeOK'
  BY <1>5, <1>6, <1>7 DEF IInv, TypeOK
<1>9. InRange'
  <2>1. sync.isSyncing /\ r.start = NextBlock /\ r.end = sync.target
    BY DEF IInv, InRange
  <2> QED BY <1>2, <1>4, <1>6, <1>7, <2>1 DEF InRange, NextBlock, Idle
<1>10. OneInFlight'
  BY <1>2, <1>5, <1>6, <1>7 DEF OneInFlight
<1>11. Stored' /\ Progress' /\ BufferBefore' /\ BufferDuring' /\ Compared'
  BY <1>2, <1>7 DEF IInv, Stored, Progress, BufferBefore, BufferDuring, Compared,
                   NextBlock, Idle
<1> QED BY <1>8, <1>9, <1>10, <1>11 DEF IInv

(* A failed request leaves nothing in flight, while the node still counts  *)
(* as synchronising.                                                       *)
LEMMA RequestFailsInv ==
  ASSUME IInv, RequestFails
  PROVE  IInv'
<1>1. PICK r \in request : request' = request \ {r}
  BY DEF RequestFails
<1>2. /\ request' = {} /\ response' = {} /\ task = Idle /\ sync.isSyncing
      /\ UNCHANGED <<chain, latest, engineHeight, storing, peerHeight, response,
                     sync, task, overtaken>>
  BY <1>1 DEF RequestFails, IInv, OneInFlight, InRange, nodeVars
<1>3. TypeOK'
  BY <1>2 DEF IInv, TypeOK
<1> QED
  BY <1>2, <1>3 DEF IInv, Stored, OneInFlight, InRange, Progress, BufferBefore,
      BufferDuring, Compared, NextBlock, Idle

(* A response is taken from its channel while the buffer is empty.         *)
LEMMA ReceiveResponseInv ==
  ASSUME IInv, ReceiveResponse
  PROVE  IInv'
<1>0. PICK m \in response :
        /\ response' = response \ {m}
        /\ task' = [step |-> "check", branch |-> m.branch, at |-> m.start, end |-> m.end]
  BY DEF ReceiveResponse
<1>1. m \in Responses /\ response = {m} /\ request = {}
  BY DEF IInv, TypeOK, OneInFlight
<1>2. /\ request' = {} /\ response' = {}
      /\ UNCHANGED <<chain, latest, engineHeight, storing, peerHeight, request,
                     sync, overtaken>>
  BY <1>0, <1>1 DEF ReceiveResponse, nodeVars
<1>3. /\ task'.step = "check" /\ task'.at = m.start /\ task'.end = m.end
      /\ task' \in [step : {"idle", "check", "latest"}, branch : Blocks, at : Nat, end : Nat]
  BY <1>0, <1>1 DEF Responses, Blocks
<1>4. sync.isSyncing /\ m.start = NextBlock /\ m.end <= sync.target
  BY DEF IInv, InRange
<1>5. sync.buffer = Empty
  BY DEF IInv, BufferBefore
<1>6. TypeOK'
  BY <1>2, <1>3 DEF IInv, TypeOK, Blocks
<1>7. InRange'
  BY <1>2, <1>3, <1>4, <1>1, Types DEF InRange, NextBlock, Responses, IInv
<1>8. Stored' /\ OneInFlight' /\ Progress' /\ BufferBefore'
  BY <1>2, <1>3, <1>5 DEF IInv, Stored, OneInFlight, Progress, BufferBefore
<1>9. BufferDuring' /\ Compared'
  BY <1>2, <1>5 DEF BufferDuring, Compared, Empty
<1> QED BY <1>6, <1>7, <1>8, <1>9 DEF IInv

(* A block enters the buffer: it links, or what is below could not be read.*)
LEMMA CheckBlockInv ==
  ASSUME IInv, CheckBlock
  PROVE  IInv'
<1>0. PICK read \in (IF MayFail THEN BOOLEAN ELSE {TRUE}) :
        /\ sync' = IF read /\ ~Links(task.at, task.branch) THEN sync
                   ELSE [sync EXCEPT !.buffer[task.at] = task.branch]
        /\ overtaken' = IF read THEN overtaken \ {task.at - 1}
                        ELSE overtaken \cup {task.at - 1}
  BY DEF CheckBlock
<1>1. /\ task.step = "check" /\ task.at <= task.end /\ task # Idle
      /\ task' = [task EXCEPT !.at = @ + 1]
      /\ UNCHANGED <<chain, latest, engineHeight, storing, peerHeight, request, response>>
  BY DEF CheckBlock, Checking, nodeVars, netVars, Idle
<1>2. /\ sync.isSyncing /\ task.end <= sync.target /\ NextBlock <= task.at
      /\ request = {} /\ response = {}
  BY <1>1 DEF IInv, InRange, OneInFlight
<1>3. task.at \in Heights /\ task.at - 1 \in 0 .. MaxHeight
  BY <1>1, <1>2, Types DEF IInv, NextBlock
<1>4. /\ task' \in [step : {"idle", "check", "latest"}, branch : Blocks, at : Nat, end : Nat]
      /\ task'.step = "check" /\ task'.at = task.at + 1 /\ task'.end = task.end
      /\ task' # Idle
  BY <1>1, Types DEF IInv, Idle
<1>5. task.branch \in Blocks
  BY Types DEF IInv
<1>6. /\ sync' \in SyncStates
      /\ sync'.isSyncing = sync.isSyncing /\ sync'.target = sync.target
      /\ sync'.synced = sync.synced /\ NextBlock' = NextBlock
      /\ \A h \in Heights : h # task.at => sync'.buffer[h] = sync.buffer[h]
      /\ sync'.buffer[task.at] \in {sync.buffer[task.at], task.branch}
  BY <1>0, <1>3, <1>5, Types DEF IInv, SyncStates, NextBlock
<1>7. TypeOK'
  BY <1>0, <1>1, <1>3, <1>4, <1>6 DEF IInv, TypeOK, SyncStates, Blocks
<1>8. Stored'
  BY <1>1, <1>4, <1>6 DEF IInv, Stored
<1>9. OneInFlight' /\ InRange' /\ Progress' /\ BufferBefore'
  BY <1>1, <1>2, <1>4, <1>6, Types
  DEF IInv, OneInFlight, InRange, Progress, BufferBefore, NextBlock
<1>10. BufferDuring'
  <2> SUFFICES ASSUME NEW h \in Heights, sync'.buffer[h] # NoBlock
               PROVE  h <= task.end /\ NextBlock <= h /\ h < task.at + 1
    BY <1>4, <1>6 DEF BufferDuring
  <2>1. CASE h = task.at
    BY <2>1, <1>1, <1>2, Types DEF IInv
  <2>2. CASE h # task.at
    <3>1. sync.buffer[h] # NoBlock
      BY <2>2, <1>6
    <3>2. h <= task.end /\ NextBlock <= h /\ h < task.at
      BY <1>1, <3>1 DEF IInv, BufferDuring
    <3> QED BY <3>2, <1>3
  <2> QED BY <2>1, <2>2
<1>11. Compared'
  <2> SUFFICES ASSUME NEW h \in Heights, sync'.buffer[h] # NoBlock,
                      h - 1 \notin overtaken'
               PROVE  Links(h, sync.buffer[h])'
    BY DEF Compared
  <2>1. CASE h = task.at
    <3>1. read /\ overtaken' = overtaken \ {task.at - 1}
      BY <1>0, <2>1
    <3>2. sync.buffer[h] = NoBlock
      <4> SUFFICES ASSUME sync.buffer[h] # NoBlock PROVE FALSE
        OBVIOUS
      <4> QED BY <2>1, <1>1, <1>3 DEF IInv, BufferDuring
    <3>3. Links(h, task.branch)
      BY <1>0, <2>1, <3>1, <3>2
    <3>4. sync'.buffer[h] = task.branch
      BY <1>6, <2>1, <3>2
    <3> QED BY <1>1, <3>3, <3>4 DEF Links
  <2>2. CASE h # task.at
    <3>1. sync'.buffer[h] = sync.buffer[h]
      BY <2>2, <1>6
    <3>2. h - 1 # task.at - 1
      BY <2>2, <1>3
    <3>3. h - 1 \notin overtaken
      BY <1>0, <3>2
    <3>4. Links(h, sync.buffer[h])
      BY <1>1, <3>1, <3>3 DEF IInv, Compared
    <3> QED BY <1>1, <3>1, <3>4 DEF Links
  <2> QED BY <2>1, <2>2
<1> QED BY <1>7, <1>8, <1>9, <1>10, <1>11 DEF IInv

(* What the end of a response leaves of the state s it had.                *)
LEMMA FinishFields ==
  ASSUME NEW s \in SyncStates, Finish(s)
  PROVE  /\ sync' \in SyncStates
         /\ sync'.isSyncing = (s.isSyncing /\ s.synced < s.target)
         /\ sync'.target = s.target /\ sync'.synced = s.synced
         /\ sync'.buffer = s.buffer
         /\ task' = Idle /\ overtaken' = {}
  BY DEF Finish, SyncStates

(* The end of a response keeps the invariant, when the state it ends in is *)
(* stored and has nothing left to write once the target is reached.        *)
LEMMA FinishInv ==
  ASSUME IInv, task # Idle, NEW s \in SyncStates, Finish(s),
         s.isSyncing,
         s.synced < s.target \/ s.buffer = Empty,
         \A h \in Heights : h <= s.synced => chain'[h] # NoBlock,
         \A h \in Heights : h <= latest' => chain'[h] # NoBlock,
         \A h \in Heights : chain[h] # NoBlock => chain'[h] # NoBlock,
         chain' \in [Heights -> Blocks], latest' \in 0 .. MaxHeight,
         UNCHANGED <<engineHeight, storing, netVars>>
  PROVE  IInv'
<1>1. /\ sync' \in SyncStates
      /\ sync'.isSyncing = (s.isSyncing /\ s.synced < s.target)
      /\ sync'.target = s.target /\ sync'.synced = s.synced
      /\ sync'.buffer = s.buffer
      /\ task' = Idle /\ overtaken' = {}
  BY FinishFields
<1>2. /\ request' = {} /\ response' = {} /\ peerHeight' = peerHeight
      /\ engineHeight' = engineHeight /\ storing' = storing
  BY DEF netVars, IInv, OneInFlight
<1>3. Idle.step = "idle" /\ Idle \in [step : {"idle", "check", "latest"},
                 branch : Blocks, at : Nat, end : Nat]
  BY DEF Idle, Blocks
<1>4. TypeOK'
  <2>1. /\ peerHeight' \in [Peers -> 0 .. MaxHeight]
        /\ engineHeight' \in 1 .. MaxHeight + 1 /\ storing' \in BOOLEAN
        /\ request' \subseteq Requests /\ response' \subseteq Responses
        /\ overtaken' \subseteq 0 .. MaxHeight
    BY <1>1, <1>2 DEF IInv, TypeOK
  <2> QED BY <1>1, <1>3, <2>1 DEF TypeOK, SyncStates, Blocks
<1>5. Stored'
  BY <1>1, <1>2, <1>3 DEF IInv, Stored
<1>6. OneInFlight' /\ InRange' /\ Progress' /\ BufferBefore' /\ BufferDuring' /\ Compared'
  BY <1>1, <1>2, <1>3 DEF OneInFlight, InRange, Progress, BufferBefore,
                       BufferDuring, Compared
<1> QED BY <1>4, <1>5, <1>6 DEF IInv

(* What holds when the write loop finds its block.                         *)
LEMMA DueFacts ==
  ASSUME IInv, Due(NextBlock)
  PROVE  /\ task # Idle /\ sync.isSyncing /\ NextBlock \in Heights
         /\ task.end <= sync.target /\ sync.synced < sync.target
         /\ [sync EXCEPT !.buffer[NextBlock] = NoBlock] \in SyncStates
         /\ sync.buffer[NextBlock] \in Blocks \ {NoBlock}
         /\ request = {} /\ response = {}
<1>1. /\ task # Idle /\ NextBlock \in Heights
      /\ sync.buffer[NextBlock] # NoBlock
  BY DEF Due, Idle
<1>2. sync.isSyncing /\ task.end <= sync.target /\ request = {} /\ response = {}
  BY <1>1 DEF IInv, InRange, OneInFlight
<1>3. sync.synced < sync.target
  BY <1>2 DEF IInv, Progress
<1>4. [sync EXCEPT !.buffer[NextBlock] = NoBlock] \in SyncStates
  BY Types DEF IInv, SyncStates, Blocks
<1>5. sync.buffer[NextBlock] \in Blocks
  BY <1>1, Types DEF IInv
<1> QED BY <1>1, <1>2, <1>3, <1>4, <1>5

(* The first write of a synchronised block.                                *)
LEMMA PutBlockInv ==
  ASSUME IInv, PutBlock
  PROVE  IInv'
<1> DEFINE next == NextBlock
           removed == [sync EXCEPT !.buffer[next] = NoBlock]
<1>0. /\ Due(next)
      /\ UNCHANGED <<latest, engineHeight, storing, netVars>>
      /\ \/ /\ chain' = [chain EXCEPT ![next] = sync.buffer[next]]
            /\ sync' = removed
            /\ task' = [task EXCEPT !.step = "latest"]
            /\ UNCHANGED overtaken
         \/ /\ Finish(removed)
            /\ UNCHANGED chain
  BY DEF PutBlock, PutBuffered
<1>1. /\ task # Idle /\ sync.isSyncing /\ next \in Heights
      /\ task.end <= sync.target /\ sync.synced < sync.target
      /\ removed \in SyncStates
      /\ sync.buffer[next] \in Blocks \ {NoBlock}
      /\ request = {} /\ response = {}
  BY <1>0, DueFacts
<1>2. /\ removed.isSyncing = sync.isSyncing /\ removed.target = sync.target
      /\ removed.synced = sync.synced
      /\ removed.buffer = [sync.buffer EXCEPT ![next] = NoBlock]
  BY Types DEF IInv, SyncStates
<1> HIDE DEF next, removed
<1>3. CASE Finish(removed) /\ UNCHANGED chain
  <2>1. /\ chain' \in [Heights -> Blocks] /\ latest' \in 0 .. MaxHeight
        /\ \A h \in Heights : h <= removed.synced => chain'[h] # NoBlock
        /\ \A h \in Heights : h <= latest' => chain'[h] # NoBlock
    BY <1>0, <1>2, <1>3, Types DEF IInv, Stored
  <2> QED BY <1>0, <1>1, <1>2, <1>3, <2>1, FinishInv
<1>4. CASE /\ chain' = [chain EXCEPT ![next] = sync.buffer[next]]
           /\ sync' = removed
           /\ task' = [task EXCEPT !.step = "latest"]
           /\ UNCHANGED overtaken
  <2>1. /\ chain' \in [Heights -> Blocks]
        /\ \A h \in Heights : chain[h] # NoBlock => chain'[h] # NoBlock
        /\ chain'[next] # NoBlock
    BY <1>1, <1>4, Types DEF IInv
  <2>2. /\ request' = {} /\ response' = {} /\ peerHeight' = peerHeight
        /\ latest' = latest /\ engineHeight' = engineHeight /\ storing' = storing
        /\ overtaken' = overtaken
    BY <1>0, <1>1, <1>4 DEF netVars
  <2>3. /\ task' \in [step : {"idle", "check", "latest"}, branch : Blocks, at : Nat, end : Nat]
        /\ task'.step = "latest" /\ task'.end = task.end /\ task' # Idle
    BY <1>4, Types DEF IInv, Idle
  <2>4. /\ sync'.isSyncing = sync.isSyncing /\ sync'.target = sync.target
        /\ sync'.synced = sync.synced /\ NextBlock' = NextBlock
        /\ sync'.buffer = [sync.buffer EXCEPT ![next] = NoBlock]
        /\ sync' \in SyncStates
    BY <1>1, <1>2, <1>4 DEF NextBlock
  <2>5. TypeOK'
    BY <2>1, <2>2, <2>3, <2>4 DEF IInv, TypeOK, SyncStates, Blocks
  <2>6. Stored'
    BY <1>1, <2>1, <2>2, <2>3, <2>4 DEF IInv, Stored, next
  <2>7. OneInFlight' /\ InRange' /\ Progress' /\ BufferBefore'
    BY <1>1, <2>2, <2>3, <2>4 DEF OneInFlight, InRange, Progress, BufferBefore
  <2>8. \A h \in Heights : sync'.buffer[h] # NoBlock =>
            h # NextBlock /\ sync'.buffer[h] = sync.buffer[h]
    BY <1>1, <2>4, Types DEF next, IInv
  <2>9. BufferDuring'
    BY <1>1, <2>3, <2>4, <2>8 DEF IInv, BufferDuring
  <2>10. Compared'
    BY <2>3 DEF Compared
  <2> QED BY <2>5, <2>6, <2>7, <2>9, <2>10 DEF IInv
<1> QED BY <1>0, <1>3, <1>4

(* The second write of a synchronised block: the synchronisation goes on   *)
(* to its target, or has reached it.                                       *)
LEMMA PutLatestInv ==
  ASSUME IInv, PutLatest
  PROVE  IInv'
<1> DEFINE next == NextBlock
           stored == [sync EXCEPT !.synced = next]
<1>0. /\ task.step = "latest"
      /\ UNCHANGED <<chain, engineHeight, storing, netVars>>
      /\ \/ latest' = next /\ Finish(stored)
         \/ Finish(sync) /\ UNCHANGED latest
  BY DEF PutLatest
<1>1. /\ task # Idle /\ sync.isSyncing /\ task.end <= sync.target
      /\ sync.synced < sync.target
      /\ next \in Heights /\ chain[next] # NoBlock
  BY <1>0 DEF IInv, InRange, Progress, Stored, Idle
<1>2. /\ sync \in SyncStates /\ chain' = chain /\ chain' \in [Heights -> Blocks]
      /\ next = sync.synced + 1 /\ sync.synced \in 0 .. MaxHeight
      /\ latest \in 0 .. MaxHeight
      /\ UNCHANGED <<engineHeight, storing, netVars>>
  BY <1>0, Types DEF IInv, NextBlock
<1>3. /\ stored \in SyncStates /\ stored.isSyncing = sync.isSyncing
      /\ stored.target = sync.target /\ stored.synced = next
      /\ stored.buffer = sync.buffer
  <2>1. next \in 0 .. MaxHeight
    BY <1>1, HeightAssumption
  <2> HIDE DEF next
  <2> QED BY <1>2, <2>1 DEF SyncStates
<1> HIDE DEF next, stored
<1>4. /\ \A h \in Heights : chain[h] # NoBlock => chain'[h] # NoBlock
      /\ \A h \in Heights : h <= next => chain'[h] # NoBlock
      /\ \A h \in Heights : h <= sync.synced => chain'[h] # NoBlock
      /\ \A h \in Heights : h <= latest => chain'[h] # NoBlock
  BY <1>1, <1>2 DEF IInv, Stored
<1>5. CASE Finish(sync) /\ UNCHANGED latest
  BY <1>1, <1>2, <1>4, <1>5, FinishInv
<1>6. CASE latest' = next /\ Finish(stored)
  <2>1. latest' \in 0 .. MaxHeight
    BY <1>1, <1>6, HeightAssumption
  <2>2. stored.synced < stored.target \/ stored.buffer = Empty
    <3> SUFFICES ASSUME ~(next < sync.target)
                 PROVE  sync.buffer = Empty
      BY <1>3
    <3>1. next = sync.target
      BY <1>1, <1>2, Types DEF IInv
    <3>2. ASSUME NEW h \in Heights
          PROVE  sync.buffer[h] = NoBlock
      <4> SUFFICES ASSUME sync.buffer[h] # NoBlock PROVE FALSE
        OBVIOUS
      <4>1. h <= task.end /\ next <= h /\ h # next
        BY <1>0, <1>1 DEF IInv, BufferDuring, next
      <4> QED BY <4>1, <3>1, <1>1, Types DEF IInv
    <3> QED BY <3>2, Types DEF IInv, Empty
  <2> QED BY <1>1, <1>2, <1>3, <1>4, <1>6, <2>1, <2>2, FinishInv
<1> QED BY <1>0, <1>5, <1>6

(* A response without the block the write loop looks for.                  *)
LEMMA NothingDueInv ==
  ASSUME IInv, NothingDue
  PROVE  IInv'
<1>1. /\ task # Idle /\ Finish(sync)
      /\ chain' = chain /\ latest' = latest
      /\ UNCHANGED <<engineHeight, storing, netVars>>
  BY DEF NothingDue, nodeVars, Idle
<1>2. sync.isSyncing /\ sync.synced < sync.target
  BY <1>1 DEF IInv, InRange, Progress
<1>3. /\ sync \in SyncStates /\ chain' \in [Heights -> Blocks]
      /\ latest' \in 0 .. MaxHeight
  BY <1>1, Types DEF IInv
<1>4. /\ \A h \in Heights : chain[h] # NoBlock => chain'[h] # NoBlock
      /\ \A h \in Heights : h <= sync.synced => chain'[h] # NoBlock
      /\ \A h \in Heights : h <= latest' => chain'[h] # NoBlock
  BY <1>1 DEF IInv, Stored
<1> QED BY <1>1, <1>2, <1>3, <1>4, FinishInv

(* The engine's first write, at any step of the synchroniser.              *)
LEMMA FinalizeBlockInv ==
  ASSUME IInv, FinalizeBlock
  PROVE  IInv'
<1> PICK b \in Branches : chain' = [chain EXCEPT ![engineHeight] = b]
  BY DEF FinalizeBlock
<1>1. /\ engineHeight \in Heights /\ storing' = TRUE
      /\ overtaken' = IF task = Idle THEN {} ELSE overtaken \cup {engineHeight}
      /\ latest' = latest /\ engineHeight' = engineHeight
      /\ UNCHANGED <<peerHeight, request, response, sync, task>>
  BY DEF FinalizeBlock, netVars
<1>2. /\ chain' \in [Heights -> Blocks]
      /\ chain'[engineHeight] # NoBlock
      /\ \A h \in Heights : h # engineHeight => chain'[h] = chain[h]
  BY <1>1, BranchAssumption, Types DEF IInv, Blocks
<1>3. TypeOK'
  <2>1. overtaken' \subseteq 0 .. MaxHeight
    <3>1. engineHeight \in 0 .. MaxHeight
      BY <1>1, HeightAssumption
    <3>2. overtaken \subseteq 0 .. MaxHeight
      BY DEF IInv, TypeOK
    <3> QED BY <1>1, <3>1, <3>2
  <2> QED BY <1>1, <1>2, <2>1 DEF IInv, TypeOK, Blocks
<1>4. Stored'
  BY <1>1, <1>2 DEF IInv, Stored, NextBlock
<1>5. OneInFlight' /\ InRange' /\ Progress' /\ BufferBefore' /\ BufferDuring'
  BY <1>1 DEF IInv, OneInFlight, InRange, Progress, BufferBefore, BufferDuring,
              NextBlock
<1>6. Compared'
  <2> SUFFICES ASSUME NEW h \in Heights, task.step = "check",
                      sync.buffer[h] # NoBlock, h - 1 \notin overtaken'
               PROVE  Links(h, sync.buffer[h])'
    BY <1>1 DEF Compared
  <2>1. h - 1 \notin overtaken /\ h - 1 # engineHeight
    BY <1>1 DEF Idle
  <2>2. Links(h, sync.buffer[h])
    BY <2>1 DEF IInv, Compared
  <2>3. h > 1 => h - 1 \in Heights
    BY HeightAssumption
  <2> QED BY <1>1, <1>2, <2>1, <2>2, <2>3 DEF Links
<1> QED BY <1>3, <1>4, <1>5, <1>6 DEF IInv

(* The engine's second write.                                              *)
LEMMA FinalizeLatestInv ==
  ASSUME IInv, FinalizeLatest
  PROVE  IInv'
<1>1. /\ storing /\ ~storing' /\ storing' \in BOOLEAN
      /\ UNCHANGED <<chain, peerHeight, request, response, sync, task, overtaken>>
      /\ latest' \in {latest, engineHeight}
      /\ \/ engineHeight' = engineHeight
         \/ engineHeight' = engineHeight + 1
  BY DEF FinalizeLatest, netVars
<1>2. engineHeight \in Heights /\ chain[engineHeight] # NoBlock
  BY <1>1 DEF IInv, Stored
<1>3. TypeOK'
  BY <1>1, <1>2, HeightAssumption DEF IInv, TypeOK
<1>4. Stored'
  BY <1>1, <1>2, Types DEF IInv, Stored, NextBlock
<1>5. /\ OneInFlight' /\ InRange' /\ Progress' /\ BufferBefore'
      /\ BufferDuring' /\ Compared'
  BY <1>1 DEF IInv, OneInFlight, InRange, Progress, BufferBefore, BufferDuring,
              Compared, NextBlock, Links
<1> QED BY <1>3, <1>4, <1>5 DEF IInv

(* A restart reads the latest block back from the storage.                 *)
LEMMA RestartInv ==
  ASSUME IInv, Restart
  PROVE  IInv'
<1> PICK local \in ReadLatest : StartAt(latest + 1, local)
  BY DEF Restart
<1>1. latest \in 0 .. MaxHeight /\ local \in 0 .. MaxHeight /\ local <= latest
  BY Types DEF IInv, ReadLatest
<1>2. /\ engineHeight' = latest + 1 /\ storing' = FALSE
      /\ sync' = [isSyncing |-> FALSE, target |-> local, synced |-> local, buffer |-> Empty]
      /\ request' = {} /\ response' = {} /\ task' = Idle /\ overtaken' = {}
      /\ UNCHANGED <<peerHeight, chain, latest>>
  BY DEF StartAt, NewSync
<1>3. TypeOK'
  <2>1. sync' \in SyncStates
    BY <1>1, <1>2 DEF SyncStates, Empty, Blocks
  <2>2. Idle \in [step : {"idle", "check", "latest"}, branch : Blocks, at : Nat, end : Nat]
    BY DEF Idle, Blocks
  <2>3. latest + 1 \in 1 .. MaxHeight + 1
    BY <1>1, HeightAssumption
  <2>4. /\ peerHeight' \in [Peers -> 0 .. MaxHeight]
        /\ chain' \in [Heights -> Blocks] /\ latest' \in 0 .. MaxHeight
        /\ engineHeight' \in 1 .. MaxHeight + 1 /\ storing' \in BOOLEAN
        /\ request' \subseteq Requests /\ response' \subseteq Responses
        /\ overtaken' \subseteq 0 .. MaxHeight
    BY <1>1, <1>2, <2>3 DEF IInv, TypeOK, Blocks
  <2> QED BY <1>2, <2>1, <2>2, <2>4 DEF TypeOK, SyncStates, Blocks
<1>4. Stored'
  BY <1>1, <1>2, Types DEF IInv, Stored, Idle
<1>5. /\ OneInFlight' /\ InRange' /\ Progress' /\ BufferBefore'
      /\ BufferDuring' /\ Compared'
  BY <1>2 DEF OneInFlight, InRange, Progress, BufferBefore, BufferDuring, Compared, Idle
<1> QED BY <1>3, <1>4, <1>5 DEF IInv

(* Every step keeps the invariant.                                         *)
LEMMA NextInv == IInv /\ [Next]_vars => IInv'
<1> SUFFICES ASSUME IInv, [Next]_vars
             PROVE  IInv'
  OBVIOUS
<1>1. ASSUME NEW p \in Peers, PeerFinalizes(p) PROVE IInv'
  BY <1>1, PeerFinalizesInv
<1>2. ASSUME NEW p \in Peers, OnBlockAnnouncement(p) PROVE IInv'
  BY <1>2, OnBlockAnnouncementInv
<1>3. CASE PeerAnswers
  BY <1>3, PeerAnswersInv
<1>4. CASE RequestFails
  BY <1>4, RequestFailsInv
<1>5. CASE OnBlockResponse
  BY <1>5, ReceiveResponseInv, CheckBlockInv, PutBlockInv, PutLatestInv,
     NothingDueInv DEF OnBlockResponse
<1>6. CASE FinalizeBlock \/ FinalizeLatest
  BY <1>6, FinalizeBlockInv, FinalizeLatestInv
<1>7. CASE Restart
  BY <1>7, RestartInv
<1>8. CASE UNCHANGED vars
  BY <1>8 DEF vars, nodeVars, netVars, IInv, TypeOK, Stored, OneInFlight, InRange,
              Progress, BufferBefore, BufferDuring, Compared, NextBlock, Links
<1> QED BY <1>1, <1>2, <1>3, <1>4, <1>5, <1>6, <1>7, <1>8 DEF Next

(* The invariant holds in every reachable state.                           *)
LEMMA Invariance == Spec => []IInv
  BY InitInv, NextInv, PTL DEF Spec

-----------------------------------------------------------------------------
(* Synchronisation and local consensus together leave no gap: every block  *)
(* up to latest_block_number and below the engine's height is stored.      *)
THEOREM NoGapEver == Spec => []ChainHasNoGap
<1>1. IInv => ChainHasNoGap
  BY DEF IInv, Stored, ChainHasNoGap
<1> QED BY <1>1, Invariance, PTL

(* At most one request is open or its answer in work, and only while the   *)
(* node synchronises towards a target it has not reached.                  *)
THEOREM OneRequestEver == Spec => []OneRequestAtATime
<1>1. ASSUME IInv PROVE OneRequestAtATime
  <2>1. Cardinality(request) + Cardinality(response)
           + (IF task = Idle THEN 0 ELSE 1) <= 1
    <3>1. CASE request = {} /\ response = {}
      BY <3>1, FS_EmptySet
    <3>2. ASSUME NEW r \in Requests, request = {r}, response = {}
          PROVE  Cardinality(request) + Cardinality(response)
                    + (IF task = Idle THEN 0 ELSE 1) <= 1
      <4>1. task = Idle
        BY <1>1, <3>2 DEF IInv, OneInFlight
      <4>2. Cardinality({}) = 0 /\ Cardinality({r}) = 1
        BY FS_EmptySet, FS_Singleton
      <4>3. Cardinality(request) + Cardinality(response) = 1
        BY <3>2, <4>2
      <4> QED BY <4>1, <4>3
    <3>3. ASSUME NEW m \in Responses, request = {}, response = {m}
          PROVE  Cardinality(request) + Cardinality(response)
                    + (IF task = Idle THEN 0 ELSE 1) <= 1
      <4>1. task = Idle
        BY <1>1, <3>3 DEF IInv, OneInFlight
      <4>2. Cardinality({}) = 0 /\ Cardinality({m}) = 1
        BY FS_EmptySet, FS_Singleton
      <4>3. Cardinality(request) + Cardinality(response) = 1
        BY <3>3, <4>2
      <4> QED BY <4>1, <4>3
    <3> QED BY <1>1, <3>1, <3>2, <3>3 DEF IInv, OneInFlight
  <2>2. request \cup response # {} \/ task # Idle => sync.isSyncing
    BY <1>1 DEF IInv, InRange
  <2> QED BY <1>1, <2>1, <2>2 DEF OneRequestAtATime, IInv, Progress
<1> QED BY <1>1, Invariance, PTL

(* A block that a response writes links to the stored block below it,      *)
(* whatever was finalized between its comparison and its write, but for    *)
(* the engine's storing that block below or a read that failed.            *)
THEOREM LinksEver == Spec => SyncedBlocksLink
<1> DEFINE Linked == \A h \in Heights :
                        /\ chain'[h] # chain[h] /\ storing' = storing
                        /\ h - 1 \notin overtaken
                        => Links(h, chain'[h])
<1>1. ASSUME IInv, PutBlock, NEW h \in Heights, chain'[h] # chain[h],
             h - 1 \notin overtaken
      PROVE  Links(h, chain'[h])
  <2>1. /\ task.step = "check" /\ NextBlock \in Heights
        /\ sync.buffer[NextBlock] # NoBlock
        /\ chain' = [chain EXCEPT ![NextBlock] = sync.buffer[NextBlock]]
    BY <1>1 DEF PutBlock, PutBuffered, Due
  <2>2. h = NextBlock /\ chain'[h] = sync.buffer[h]
    BY <1>1, <2>1, Types DEF IInv
  <2>3. Links(h, sync.buffer[h])
    BY <1>1, <2>1, <2>2 DEF IInv, Compared
  <2> QED BY <2>2, <2>3
<1>2. IInv /\ [Next]_vars => [Linked]_vars
  <2> SUFFICES ASSUME IInv, Next, NEW h \in Heights,
                      chain'[h] # chain[h], storing' = storing,
                      h - 1 \notin overtaken
               PROVE  Links(h, chain'[h])
    OBVIOUS
  <2>1. chain' = chain \/ PutBlock
    BY DEF Next, PeerFinalizes, OnBlockAnnouncement, StartSync, PeerAnswers,
           RequestFails, OnBlockResponse, ReceiveResponse, CheckBlock, PutLatest,
           NothingDue, FinalizeBlock, FinalizeLatest, Restart, StartAt, nodeVars
  <2> QED BY <1>1, <2>1
<1> QED BY <1>2, Invariance, PTL DEF Spec, SyncedBlocksLink

(* The types of the synchroniser's state.                                  *)
THEOREM TypesEver == Spec => []TypeOK
<1>1. IInv => TypeOK
  BY DEF IInv
<1> QED BY <1>1, Invariance, PTL
=============================================================================
