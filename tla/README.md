# A TLA+ development of polis-platform

polis-platform is a Rust workspace of services for a federation of community
sites (`src/crates/*`), a web front end (`src/web`), and a chain of its own,
polis-chain, that records activity and pays it in $POL. This directory models
the parts of it whose correctness depends on the order in which things happen,
checks them with TLC and proves the main results with TLAPS. Paths below are
relative to the repository; `chain/` stands for `src/crates/polis-chain/src/`.

Contents: inventory (1), how the parts interact (2), the modules (3), the runs
(4), fairness (5), proofs (6), disagreements between code and documentation
(7), what is not modelled (8), plan (9).

## 1. Inventory

### polis-chain

| Part | State | Operations | What is hard | What makes it correct |
|---|---|---|---|---|
| IBFT engine (`chain/consensus/engine.rs`) | height, round, phase, proposed block, prepare voters, commit seals, lock | propose, verify_proposal, add_prepare, add_commit, finalize_block, on_timeout, start_new_round | messages late, lost, twice, out of order; timeouts; writes that fail; restart forgets votes and lock | one block per height on all nodes; votes belong to their round; stored blocks have a certificate |
| Consensus bridge (`chain/network/consensus_bridge.rs`) | the engine behind a mutex, mempool, storage, P2P channel | handle_consensus_message (four arms), propose_new_block, broadcast_commit, finalize_and_advance, start_new_round, round timer | which vote leads to which broadcast; three different finalization paths | a vote is broadcast only for the proposal of its round; somebody eventually proposes |
| Validator set (`chain/consensus/validator.rs`) | active validators, reputation | load, get_proposer, quorum_threshold, add/remove/update | order of the set on different nodes | the same proposer everywhere, quorums intersect |
| Block synchronisation (`chain/network/sync.rs`) | is_syncing, target, synced height, buffer | on_block_announcement, on_block_response, tick | late or lost answers, several peers, storage shared with the node's own consensus | chain without gap, blocks link, a synchronisation ends |
| Event router, P2P (`chain/network/event_router.rs`, `p2p.rs`) | pending requests | route events, answer block requests, gossip | loss and reordering | requests are answered from storage |
| Storage (`chain/storage/rocks.rs`) | column families, latest_block_number | put_block, account and meta reads and writes | two writes of one block; no transactions | latest names a stored block |
| Mempool (`chain/mempool.rs`) | pending transactions, order, nonces | add, get_batch, remove_batch | limits, clean-up after each finalization path | a transaction enters one block |
| Prize pool (`chain/pool/alchemy.rs`, `premium_coin.rs`) | pool state, accounts, coin counter, coin records, history | deposit, trigger_alchemy | many handlers and no lock; a handler that ends half-way | $POL is conserved, coins are unique |
| Mining rounds, lottery (`chain/mining/`) | rounds, XP of accounts | settle_round, weighted draw | settlement against incoming XP, half-done settlement | every round pays once |
| HTTP API (`chain/network/api.rs`) | none | pool_deposit, submit_activity, register_site, queries | handlers in parallel | no update is lost |
| Node start (`chain/main.rs`) | none | genesis, engine at latest + 1 | restart in any state of the storage | consensus resumes where the storage is |
| Security (`chain/security/`) | sites, slashing records, reputation | register, slash, score | nothing calls it in the node | |

### Platform services

polis-user (login, refresh-token rotation, wallets), polis-core (token
blacklist, NATS reconnection, models), polis-content (posts, comments, polls,
tips, tiers, series, messages, XP bridge), polis-chat (rooms, clean-up task),
polis-space, polis-video, polis-admin, polis-gateway, the thin services
polis-notify, -pay, -store, -code, -search, -aggregate, -plugin-engine, and the
command line polisctl. They keep their state in PostgreSQL; most operations are
one SQL statement. The ones with steps that interleave are the token blacklist
(memory, PostgreSQL and NATS), poll votes and share downloads (check, then
write), and chat rooms that are removed while connections still hold them. The
repository's README also names a polis-export crate, which does not exist.

### Web front end (`src/web/src/`)

A Next.js application. Every page keeps its state in `useState` and `useRef`,
calls the services with `request()` of `lib/api.ts` or with a bare `fetch`, and
changes its state in the continuation of the call. JavaScript runs one callback
at a time, so a handler up to its first `await` is atomic; between a call and
its continuation the user goes on clicking, timers fire and other continuations
run.

| Part | State | Operations | What is hard | What makes it correct |
|---|---|---|---|---|
| Lists, administration (`app/*/page.tsx`, `app/admin/`, cards, tabs of a space) | a list, its key, selection, busy flags | fetch, change the key, act on an entry, select, batch | fetches that overtake each other; acts on a page that was left; partial batches | what is shown is what the service holds for the key chosen last |
| Reactions (`VoteButton`, `PollCard`, `TipButton`, `ContentCard`, video and event page) | counters, own choice | vote, like, bookmark, tip, join, comment | display before the answer, rollback, double presses | counters and choice end as the service has them; a tip is paid once |
| Feed, creation center, profile (`FeedLayout`, `creations`, `ProfilePageClient`) | pages appended, tab, filter | scroll, jump, change of tab, delete, publish, follow | pages of another tab, pages skipped or doubled | a feed without seam; creations of the chosen filter |
| Conversations (`messages/[userId]`, `SpaceChat`) | messages, text | send, pin, delete, clear, poll | the poll races what was sent | every message once, newest first |
| Space page (`useSpaceData`, `useSpaceActions`, `SpaceHeader`) | space, posts, featured, status, edit form | pin, feature, hide, follow, star, join, subscribe, save, upload | handlers that close over an old space; overlapping toggles | header, posts and tiers as the service has them |
| Post page (`PostPageClient`) | post, comments, hearts, edit form | load with fallbacks, unlock, like, follow, edit, comment, delete | effects that run again for every new post object; overlapping saves | post and comments as the service has them |
| Editor, upload (`creations/new`, `CherryEditor`) | text, draft in the browser's storage, upload status | type, restore, discard, publish, reload; upload, publish with retries | reload and failed publication; retries after a lost answer | no text is lost; a video said to be published is |
| Forms (sign-in, settings, creation of a space, poll, ...) | fields, messages, busy flags | load, type, check, send | two loads of one form; answers about an older value; buttons that are not disabled | "saved" is said only of what was stored |

`PROJECT.json` lists all of these under `components`, with what is modelled of
each, and the hazards with the line at which each one bites.

## 2. How the parts interact

A node runs one task for consensus, one for synchronisation, one for routing
P2P events and one per HTTP request. The consensus task is the only one that
drives the engine, so one consensus handler with all it calls is one step of
its node. Consensus and synchronisation share only the storage:
`finalize_block` and `on_block_response` both call `put_block`, and neither
tells the other. HTTP handlers share the storage with everybody and take no
lock, so each of their reads and writes is a step. On start, `run_node` reads
`latest_block_number`; engine and synchroniser begin from it. With an empty
database the validator set is the node itself.

A page of the front end and the services share nothing but the calls. A service
handles a request in one step, which for the requests modelled is one SQL
statement or one transaction as far as the page can tell; what it answers is
what it held then, so an answer may be old when its continuation runs.

## 3. The modules

### Ibft — consensus

One record per node for its `IbftEngine` (`engine[n]`) and its storage
(`store[n]`: the blocks with their seals, and latest_block_number); `msgs` is
every message broadcast so far, so a message may be received late, never,
repeatedly, or out of order; `failures` counts failed writes.

The methods of the engine are operators on the engine record (`VerifyProposal`,
`AddPrepare`, `AddCommit`, `OnTimeout`); the methods of the bridge are operators
on a node record that also holds what the handler broadcasts (`TakePrePrepare`,
`TakePrepare`, `TakeCommit`, `TakeRoundChange`, `TakeTimeout`, and
`ProposeNewBlock`, `Finalize`, `BroadcastCommit`, which they call). Actions:

| Action | Code |
|---|---|
| `OnPrePrepare`, `OnPrepare`, `OnCommit`, `OnRoundChange` | the arms of `handle_consensus_message` |
| `TimerPropose`, `TimerTimeout` | the round timer of `start_consensus_loop` |
| `Restart` | the process stops and `run_node` starts it again |

Points of the code that are easily overlooked and are in the model: the node's
own vote is a member of the voters and is counted once more; a duplicate vote
is reported as a quorum; `finalize_block` takes the proposed block out of the
engine before it writes; a write that fails leaves the engine Committed;
`start_new_round` keeps votes and proposal when it follows a RoundChange; the
lock is compared only while the round is the one of the lock; the Idle branch
of the timer does nothing unless the node is the proposer.

Abstractions: a block is its number, its proposer and its content (a member of
`Contents`); signatures are honest; the validator set is fixed and the same
everywhere. `MaxHeight` and `MaxRound` stop proposals and timeouts.

### BlockSync — one node that synchronises

The state is the `SyncState`, the node's chain and latest_block_number, the
height of its engine, the heights of its peers, and requests and responses in
flight. A block is its number and its branch.

`on_block_response` holds the lock of the `SyncState`, but not the storage: the
consensus task runs on another thread and writes to it at any time. The handler
is therefore modelled by its storage accesses, with `task` as its place in the
code: `ReceiveResponse` takes a response from the channel, `CheckBlock` compares
one block with the one stored below it and puts it into the buffer, `PutBlock`
and `PutLatest` are the two writes of `put_block`, and `NothingDue` is the end
without a write. `on_block_announcement` comes between two responses, as both
take the lock; what it does to the storage is one read. The node's own consensus
is `FinalizeBlock` and `FinalizeLatest`, the two writes of `finalize_block`, between
any two of these steps. `Restart` stops both tasks wherever they are and starts
them from the storage. An announcement comes by way of any peer, whether it has the
block or not, as gossipsub names the peer that passed it on. `MayFail` allows lost
requests, failed writes, and failed reads: a predecessor that cannot be read
passes as none, a latest_block_number that cannot be read as 0.

The history variable `overtaken` holds the heights below which a comparison of
the response in work is out of date, because the engine stored a block there
afterwards, or was not made, because the block could not be read. For these
`SyncedBlocksLink` says nothing, as the code does write a block that does not link
(section 7); for all others it does.

### PoolLedger and Alchemy — the prize pool

`PoolLedger` is the abstract specification: deposit and alchemy are atomic.
`Alchemy` has every storage access of `deposit` and `trigger_alchemy` as a step
of the HTTP handler that performs it; a handler keeps what it has read. `Fail`
ends a handler at any point, as a failed write or the end of the process does.
`Handlers` is the set of requests in progress: one handler is serial execution,
two are enough for the races. The refinement mapping lets a deposit take effect
at the debit (what is in flight counts as being in the pool) and an alchemy at
the reset of the pool (coins given out before it are not yet counted).
A pool is named by the second it was opened in, and the record of its alchemy
goes into the history under that name. The clock does not go back, but it need
not go on either between two alchemies: two pools opened in one second have one
name, and the record of the second replaces the first one's. `Conserved` counts what
was replaced (`replaced`), and the records of `PoolLedger` are the history with the
one about to be written (`Records`); the ledger allows a record to be replaced by
a pool of the same second and by nothing else.
A coin counter that cannot be read counts as 0, and the alchemy goes on (`Draw`).
Abstractions: the hash that draws winners becomes any possible draw; other
writers of accounts (XP, settlement) are not running; the time of an alchemy is
taken when the new pool is stored.

### The web modules

`WebPage` is what all pages share. `page` is the page that is mounted, `ui` the
record of its state, `net` the calls whose promise is pending with the values
their continuations close over, `srv` what the services hold of what the page
shows, and `mishap` a history variable: it is set when a call fails or is
refused, when an answer is given or handled before an older one, and at the
places below. A callback of the page is `Handle` or `Update`: it computes the
new state and starts calls in one step. `Reply` is a service that handles a
call, with or without its answer getting through; `Deny` is a call that fails
or is refused; `Settle` is the continuation of a call.

| Module | Pages | Actions |
|---|---|---|
| `WebLists` | 57 pages, tabs and cards, each a row of the table `Rows` | `ListGo`, `Refresh`, `DoAct`, `ToggleSelect`, `ToggleAll`, `StartBatch`; `ListFetched`, `ActDone`, `BatchGoesOn`, `BatchDone` |
| `WebReactions` | vote button, poll, tip and join, video page, content card | one per handler and per continuation, named after them |
| `WebFeeds` | feed, creation center, its interactions, profile | `FeedTab`, the observer and the pager, `CreationsLoaded`, `FollowDone`, ... |
| `WebMessages` | direct messages, chat of a space | `Interval`, `HandleSend`, `ThreadDo`; `LoadAnswered`, `MarkDone`, `SendDone`, `ThreadDone` |
| `WebSpace` | posts of a space, its header, tiers, edit dialog | one per handler of `useSpaceActions` and per fetch of `useSpaceData` |
| `WebPost` | the post, its comments, its editor | one per handler and effect of `PostPageClient` |
| `WebEditor` | the article with its draft, the video upload | `TypeText`, `EditorReports`, `RestoreDraft`, `HandleFile`, `HandleSubmitText`, `Reload`; `FileDone`, `CreateDone`; `HandleVideoUpload`, `VideoUploadDone` |
| `WebForms` | 13 forms, each a row of `FormRows` | `TypeField`, `SendForm`; `FillDone`, `CheckDone`, `FormDone` |

In the editor the text on display and the draft differ on purpose of the code:
typing goes through the editor's `onChange`, which saves, while an import
(`handleImportMd`), an attachment (`handleAttachmentUpload`) and a restored draft
are put there with `setBody`, which does not. Whether and when the Markdown editor
reports such a text is the library's business, so it may or may not
(`EditorReports`). `HandleFile` is both handlers: they differ in the service they
ask and in what they append. The history variable `kept` is the text last typed,
reported or restored, across reloads; `given` says that the page put another one
on display.

A row of a table says what distinguishes a page from the others in control: what
loading hides, which controls an act disables, whether a refusal is taken for
success, whether the list is fetched again or changed on display. The action is
shared because the code is: the pages are copies of one pattern.

Abstractions: an entry is its identifier and one mark; texts are small numbers;
a form holds one value for all its fields; leaving a page ends it at once,
although the browser shows it until the next one is there. Several calls that
one handler waits for together (`Promise.all`) are one call.

`mishap` is what the invariants of these modules except, and it should be read
as their precondition: most pages take the last answer for the truth and are
wrong until the next load when answers overtake one another or get lost.
Besides, an action sets it where the code itself gives up the agreement: an act
is pending on a page of the list that is left, all is marked as read while an
entry is being dropped, an item is toggled while it is toggled, a form is typed
in while it is being loaded. Each of these is described at its action. What
remains, and is not excepted, is every order of clicks, timers and services
that answer in turn. Some parts hold regardless of it: a form says "saved" only
of what was stored, the text last typed is in the draft, a video said to be
uploaded is stored.

### MC modules and proofs

`MCIbft`, `MCBlockSync`, `MCAlchemy` and `MCWeb` define what the configurations need:
symmetry, crashed validators, branches, balances, and the properties that the
documentation states and the code violates; `MCWeb` makes every page an
alternative of one specification. `IbftProofs` and `IbftAgreementProofs`,
which extends it, `BlockSyncProofs`, `AlchemyProofs`, and `WebProofs`,
`WebReplayProofs` and `WebFeedProofs`, the first of which extends `MCWeb` and each other
one the one before, hold the theorems. `Replay` says what a queue of answers will
make of what a page shows; `WebReplayProofs` and `WebFeedProofs` instantiate it for
each page. Operators named `Bug_...` are seeded defects: each is a
plausible slip in the definition that follows it, and `PROJECT.json` names the
property that notices it.

## 4. The runs

| Run | Instance | Shows |
|---|---|---|
| `ibft_heights` | 3 validators, 2 heights, 2 rounds | votes follow the proposal of their round; agreement, as far as three validators have it |
| `ibft_faults` | 3 validators, 1 height, 2 rounds, 2 contents, validator 0 restarts, 1 failed write | types, no gap, commit agreement, locks are remembered, certificates, finality |
| `ibft_solo` | 1 validator, 6 heights, restarts | liveness of the validator set a new node has |
| `ibft_fork` (violation) | 4 validators, 2 rounds | agreement fails |
| `ibft_waiting` (violation) | 4 validators, one crashed | the others wait for ever |
| `ibft_rollback` (violation) | 1 validator, 1 failed write, restart | a stored block is replaced |
| `block_sync` | 2 peers on 2 branches, 3 heights, failures, the engine's writes between those of a response | types, no gap, one request at a time, blocks link unless the comparison was overtaken |
| `block_sync_stall` (violation) | 1 peer, 2 heights, no failure | a synchronisation over two blocks never ends |
| `block_sync_back` (violation) | 2 peers on 1 branch, 2 heights, no failure | latest_block_number goes back |
| `alchemy_failures` | 3 accounts, 1 handler that may end early, 2 seconds | types, conservation, pool equals deposits, coins are unique; refinement of PoolLedger until a handler ends early |
| `alchemy_concurrent` (violation) | 3 accounts, 2 handlers | conservation fails |
| `web_pages` | every page of the web modules, handlers with up to 2 calls pending, 2 entries, 2 keys | what is shown and said agrees with what is stored, page by page; loading ends |

Why these bounds are enough. Three validators need all three votes, four are the
smallest set in which a quorum is not everybody; the fork needs one lock in
round 0 and one proposal in round 1, so two rounds. With one height
`AgreementOfThree` was also checked over three rounds. Two heights are needed for
messages of an old or a later height to be in the network. Two contents let a
proposer differ from itself after a restart; they are interchangeable, and the
run uses that symmetry. One failed write reaches every point of a finalization,
before and after which everything else may happen. For synchronisation a gap of
two and one height more distinguish the first, the next and the last block of a
response, and two peers give two branches. Three accounts make a draw with
fewer depositors than accounts; balances of two and a target of two allow
deposits below, at and above the target and up to three alchemies; in two seconds
these may all fall into one, or the clock may go on after any of them. The run has
about 390,000 states, that of synchronisation about 510,000.

For the web pages two pending calls are enough for one to overtake the other, or
to be answered out of step with what the other did, and continuations may start
calls beyond that bound (`MaxInFlight + 2` positions). Two entries, two keys and
two texts distinguish the one acted on from another; a page of a paged list
holds one entry, so that deleting one moves the next. The feed has three pages,
the last one short. Once a mishap happened most pages start nothing more
(`~mishap` in their user actions): their invariants say nothing then, and the
bound keeps the run at about 730,000 states. Continuations and services still go
on, so that `LoadingEnds` covers failed and overtaken calls as well.

`CHECK_DEADLOCK FALSE` is set in the consensus and synchronisation runs: with
the bounds reached, or with every message handled, these systems stop. It is set
for the web pages as well: a page that was left, or on which nothing can be
pressed, has no step. The pool runs check deadlock.

## 5. Fairness

`ibft_solo`: weak fairness of `TimerPropose`; `tokio::time::interval` keeps
ticking while the process runs, and restarts are not required to stop.
`ibft_waiting`: weak fairness of everything a running node does; the
counterexample therefore does not rest on a lost message or a missing tick.
`block_sync_stall`: requests are answered and answers handled, so the
counterexample does not rest on a lost request.
`web_pages`: the oldest call is answered, refused or fails, and its
continuation runs. `fetch` settles every promise, if only by rejecting it when
the connection goes, and the event loop runs every continuation. Nothing is
assumed of the user, nor that a service ever says yes.

## 6. Proofs

`IbftProofs` proves, for every number of validators, every bound, any set of
restartable validators and any number of failed writes:

- `TypeCorrect`: `Spec => []TypeOK`
- `VotesAreForProposals`: `Spec => []VotesFollowProposal`
- `RoundsAgree`: `Spec => []CommitAgreement`

The assumptions are the named ones of the module: N is positive, bounds are
natural numbers, NoBlock is neither a block nor a stored block. The last two are
not inductive. The invariant `IInv` adds, per node, that the proposed block of a
node that is not Idle is one the proposer of the engine's height and round has
broadcast (`Good`, `Backed`), that a node broadcasts proposals and votes only
for heights and rounds it has reached (`Past`), and that a proposer that neither
restarts nor is brought back by a later height proposes once per height and
round (`Unique`). There is one lemma per handler for the node record it returns
and one, `BecomeInv`, that lifts it to the whole state; `NextInv` collects them.
`VotesFollowProposal` then follows from `Backed`, and `CommitAgreement` from it
and `Unique`: two Commits of a round are for the proposals of that round, and
there is one such proposal.

The module also proves, from the same assumptions and with restarts and failed
writes:

- `ChainsHaveNoGap`: `Spec => []NoGap`
- `StoredBlocksAreFinal`: `Spec => StoredIsFinal`

The invariant `SInv` relates storage and engine of a node: latest_block_number
is the engine's height or the one below, exactly the heights up to it hold
blocks, or one more when the second write of `put_block` failed (`InOrder`);
as long as no write failed nothing is stored of the engine's height (`Clean`).
`Clean` is why `finalize_block` never writes over a block, and a restart, which
starts the engine at latest_block_number + 1, keeps it.

`IbftAgreementProofs` proves `ThreeAgree`: `Spec => []AgreementOfThree`, for
any number of heights, rounds and contents. The lock plays no part in it. With
three validators a quorum is three, and as the node's own vote is counted
twice, two voters complete it: a node that counts Prepares counts its own
(`Counts`), a Commit follows the Prepare of another node, and the proposer
sends no Prepare (`Sound`). A node finalizes when it is Prepared, has sent its
own Commit (`Committing`) and receives one of another node; the two Commits,
the Prepares before them and the proposal come from all three validators
(`AllHaveVoted`). A node votes only in rounds it has reached (`Reached`) and
stops voting at a height it has finalized. `Certificate` puts this together:
who stored a block has committed it in the last round it voted in at that
height, and all voted in that round. Two nodes that stored a block of a height
each give a lower bound for the other's round, so the rounds are equal, and
`CommitAgreement` says that the blocks are. A RoundChange of a later height
breaks `Reached`, which is why the property excepts it.

`BlockSyncProofs` proves, for any set of peers, any branches, every height and
any failures:

- `NoGapEver`: `Spec => []ChainHasNoGap`
- `OneRequestEver`: `Spec => []OneRequestAtATime`
- `LinksEver`: `Spec => SyncedBlocksLink`
- `TypesEver`: `Spec => []TypeOK`

The invariant there adds that there is one request, one response or one response
in work, and that it is about the blocks after `synced` (`OneInFlight`,
`InRange`), that a synchronisation has a target above `synced` (`Progress`),
that everything up to `synced` and the block between two writes are stored
(`Stored`), that the buffer is empty when a request or a response is in flight
(`BufferBefore`) and holds only blocks of the response in work, looked at so
far, while one is (`BufferDuring`), and that each of these links to what is
stored below it unless that height is overtaken (`Compared`). The last two are
what `SyncedBlocksLink` needs: a block that is written entered the buffer in the
work on this response and not earlier, and every write of the engine since then
is on record in `overtaken`. That a block left over from an earlier response is
never written is no guard of the code; it holds because a synchronisation that
leaves one never ends (`BufferBefore`).

`IbftAgreementProofs` also proves `CommitsAreRemembered`: `Spec =>
[]CommitIsRemembered`, with restarts and failed writes. `Holds` is its
invariant: a node counts its own Prepare whenever it counts any, so the Prepare
of another node is at least the second, which is a quorum of up to four
validators and sets the lock. A round change leaves Prepares behind and a
timeout drops them; both leave the lock. The Commit goes out in the step that
sets the lock, and at the next height the node has not committed to anything.

It also proves `StoredBlocksAreCertified`: `Spec => []StoredIsCertified`, for
every number of validators. The seals an engine holds are of distinct validators
and of its height, although a round change may leave seals of another round
among them (`Sealed`); a Committed engine has a quorum of them, and with three
validators or more it was Prepared by the Prepare of another node and broadcast
its own Commit in that step. `finalize_block` copies exactly this into the
storage (`CertifiedAt`).

`AlchemyProofs` proves `BalancesStayNatural`: `Spec => []TypeOK`, for any number
of handlers that run at the same time and fail anywhere. What a handler has read
may be stale, but its own steps fit together (`HandlerOK`): the balance it read
covers what it debits, and a pool that reached its target has a depositor, so
that a draw has a winner. The accounts must be finitely many, as `Cardinality`
says nothing otherwise.

The module also proves `LoneHandlerCoins`: with a single handler,
`Spec => []CoinsHaveOneOwner`, for any accounts, target, amounts and number of
alchemies. During an alchemy the counter lags behind the coins stored (`Issued`)
and the account of the last winner by one coin (`Handed`); what the handler has
read of the account is still so (`UpToDate`), which is what two handlers break.

The conservation of $POL rests on facts about sums over a finite set: a sum is a
natural number, changes by what one member changes, and takes in a new member.
The library's induction theorems take an operator, which the provers cannot
instantiate; each fact is proved by a smallest set for which it would fail, which
exists because the strict subset relation on finite sets is well founded, and
which cannot exist because it has one member too many.

On these, and for any accounts, target, amounts and number of alchemies, the
module proves:

- `PoolsAreTheirDepositors`: `Spec => []PoolIsItsDepositors`, with any number of
  handlers at the same time: a stale pool is lost as a whole, amount and
  depositors alike.
- `LoneHandlerConserves`: with a single handler, `Spec => []Conserved`. What the
  handler has read is still so, so that at each point of the program it is known
  which of the balances, the pool, the burns and the hands of the handler hold
  what is on its way. A record that replaces another moves its amount to
  `replaced`.
- `LoneHandlerImplementsLedger`: with a single handler, `Spec => ImplementsLedger`.
  The refinement mapping reads from the handler's record how much of a deposit
  or an alchemy has been written; every storage access is a stutter of the ledger but
  the ones at which the deposit or the alchemy takes effect. The coins of an alchemy are
  those of its draw, as each is stored under the next number; its record is that
  of the pool it read, under the second that pool was opened in.

`WebProofs` proves twelve of the properties of `web_pages` for any `MaxInFlight`,
the sets of entries, options, tiers and texts being those of the run: `TipsActOnce`,
`VotesSettle`, `PollStaysTrue`, `CardSettles`, `VideoStaysCurrent`,
`ProfileFollows`, `TabsStayCurrent`, `TiersStayCurrent`, `EditShowsSaved`,
`EditsStayCurrent`, `DraftStaysSafe` and `UploadEndsPublished`. Each is
`Spec => []P` for the property P of the page.

They share a frame. `Queue(ops)` says that the pending calls are calls to the
operations of the page and that, without a mishap, they have been answered in
their order; there is a lemma for each of `Handle`, `Update`, `Reply`, `Deny`
and `Settle` for what it does to the queue (`Started`, `Updated`, `Replied`,
`Denied`, `Settled`, `SettledWith`). No step leaves the page (`PageStays`), a
step on a page is one of its own (one lemma per module, `ReactionsNext` to
`EditorNext`, and one per page, `VoteActions` and so on), and a page starts in
its own initial state (`Mounts`). What remains is one invariant per page, which
says how what is shown and what is stored differ by the calls in between:

- One call at a time, or one that decides (tip, join, profile, upload, the
  owner's dialog): the state of that call says what is not shown yet. The
  youngest vote decides once it is answered.
- One publication is on its way while the page publishes, beside any number of
  imports and attachments (`OneCreate`). What was kept is in storage, and on display
  unless the page has put another text there (`IsSaved`).
- A refresh follows (poll, interactions, tiers): what is not shown yet has its
  load in the queue, or in the continuation of a call that is in the queue. A tier
  is only taken over from an answer, so that none is shown only if a
  cancellation is answered behind every answer that brings one.
- The last answer is what is stored (`ShowsLast`: edited post, bookmark of a
  video).
- Each answer is added to what is shown (card, like and comments of a video): a
  path through the queue leads from one to the other (`Flips`). A path is a
  function on the places of the queue, which grows at one end and shrinks at the
  other, and spares the count or the parity of calls, for which one would need
  induction.

`Replay` states that path for any page. `Step(c, v)` is what the continuation of
call c makes of the view v once c is answered, and nothing before; `Leads(q, a, b)`
says that the answered calls of the queue q, one after the other, make b of a. Its
lemmas say what the three kinds of step on a queue do to what it leads to: a new
call, nothing (`LeadsGrow`); an answer to the oldest pending call, the continuation
of that call on top (`LeadsAnswered`); the oldest call settled, nothing again, as
what was ahead is now shown (`LeadsSettled`). What every continuation keeps, the
end of the path has (`LeadsKeeps`). Induction along a queue goes by the least number
for which it would fail (`Least`, `Reaches`).

`WebReplayProofs` gives each page its continuation (`After`) and proves the
properties of the pages whose answers patch what is on display, for any
`MaxInFlight`:

- `PostStaysCurrent`: the post, its counts and the buttons of its author. Where the
  queue leads is what the service holds, or a load to come will bring it.
- `SpaceHeaderStaysCurrent`: a toggle has the space its callback captured, so
  that with one toggle pressed the queue leads to the counts the service holds.
- `CommentsStayCurrent`: comments and replies, with the likes on each of them.
- `FormsStaySaved`: for each form, what it says is saved is what is stored, until
  the form or the page is loaded again.
- `ListsStayCurrent`: one proof for the 57 lists. It uses of the table only what
  `ListTable` reads off each row (`RowIsPlain`); then either a fetch of the key
  chosen last is to come behind every act, or where the queue leads is the list
  the service holds.

`WebFeedProofs` does the same for the lists that are changed while they are loaded.
What an `ORDER BY` makes of a set is any sequence that lists it newest first
(`Listings`), and the lemmas on such lists say what a new entry, a filter and a
change of an entry make of one (`NewestPut`, `WithoutLists`, `ChangesList`):

- `FeedStaysSeamless`: the pages a feed shows and those on their way are the pages
  of the chosen tab up to the pager's, each once (`FeedTail`); an answer for a
  tab that was left makes nothing of what is shown.
- `SpacePostsStayCurrent`: either a fetch for the key is behind all acts, or the acts
  lead to posts and featured posts that agree with the service's; a post to
  be shown again stays hidden until its call is answered.
- `ConversationStaysCurrent`: the messages will be fetched once more, or the answers
  of what was sent, deleted and cleared lead to the service's messages, newest
  first.
- `CreationsStayCurrent`: the list will be loaded anew, or the queue leads to
  creations the service holds, under the chosen filter, every one of them newer
  than what is on the page that is asked for next or on a later one (`Paged`). A
  deletion only moves entries to earlier pages (`SparserList`), so that the next
  page may skip one but repeats none. A page more is only asked for when no list
  is on its way (`OwnOrder`), and what loads under another filter has a
  load of the chosen one behind it (`OwnFilters`).

Every invariant the runs check is a theorem. Model-checked only is liveness
(`LoadingEnds`, `SoloAdvances`), which rests on fairness and ENABLED and is out
of the prover's reach.

## 7. Where the code and its documentation disagree

The six violation runs are quoted in `PROJECT.json` with the lines of the
documentation. Further observations made while modelling:

- `add_prepare` counts the node's own vote twice, so Prepared does not mean a
  quorum of votes (`engine.rs:265`).
- The root README says a Prepared validator does not vote for another block; it
  does in the next round.
- Commit seals collected for an earlier round's block may end up in the
  certificate of another block of that height, because a RoundChange keeps the
  seals; the seals name validators that did commit at that height.
- A failed write leaves the engine Committed without a block; only a restart
  gets it out.
- A RoundChange of a later height may take a node back to an earlier round.
  With three validators this is the way to a fork: with two heights and three
  rounds TLC finds a behaviour of 25 steps in which a node that had left round 1
  is taken back to it by a RoundChange of height 2 and finalizes that round's
  block while another has stored the one of round 2. `AgreementOfThree` excepts
  exactly this.
- From five validators on a Prepare that is received twice makes a node send
  Commit before it is Prepared, so it has no lock for what it committed
  (`engine.rs:257`); `CommitIsRemembered` is stated for up to four.
- If all three of three validators may restart, agreement fails too: locks are
  in memory.
- `BlockSync`: blocks that synchronisation stores do not move the engine, so a
  node that had to synchronise later finalizes its own blocks over them.
- Synchronisation can store a block that does not link to the one below. It
  compares at `sync.rs:106` and writes at `sync.rs:127` while the consensus task
  may store a block in between: without the exception for `overtaken`, TLC finds
  that a node compares block 2 of a peer with block 1 of that peer, its engine
  stores another block 1, and block 2 is written, even if nothing fails. The
  same comes of a block below that cannot be read (`.ok().flatten()`).
- A peer that passes on an announcement without having the block answers with
  none, and the synchronisation does not end.
- Two prize pools opened within one second have one name, and the record of the
  second alchemy replaces that of the first (`alchemy.rs:196` and `:218`): what the
  first burned is in no record any more, although nothing failed.
- An alchemy that stops between the coins and their counter gives the same
  identifiers again (`alchemy.rs:193`).
- A coin counter that cannot be read counts as 0 (`alchemy.rs:138`), so that an
  alchemy gives the first identifiers again and resets the counter.
- Alchemy burns all the pool holds, not 100,000 $POL, and numbers coins across
  types (SILVER-0002), where the chain's README starts each type at 0001.
- Web: `GET /vote` answers counts without the caller's own vote, so an arrow is
  unlit after a reload until it is pressed (`VoteButton.tsx:22`).
- The editor's page does not save what an import or an attachment puts into the
  text (`creations/new/page.tsx:282`, `:288`, `:310`); unless the Markdown editor
  reports it, a reload before the next key press loses it.
- The draft saved while typing has the title and the tags the editor was mounted
  with (`creations/new/page.tsx:256`), so a restored draft may have an old title.
- The comment at `content_handler.rs:648` says an empty password removes it;
  the statement keeps the old one (`COALESCE`, `post_repo.rs:227`).
- The profile page starts from "does not follow" and never asks, so a follower
  who presses the button follows a second time.
- Followers of a space are counted on the space of an older render
  (`useSpaceActions.ts:208` leaves `space` out of the dependencies).
- A blank mail relay is left out of what is sent, so clearing it says "saved"
  and changes nothing (`admin/settings/page.tsx:182`).
- The same settings are fetched twice when the page is mounted; what is typed
  after the first answer is overwritten by the second.
- The button that creates a poll is not disabled while it is sent: two presses
  make two polls (`polls/new/page.tsx:89`).
- A message of an earlier save stays on the settings page when a later one
  fails on the network, because nothing catches it (`settings/page.tsx:62`).
- The wrong password for a protected post replaces the page by an error
  (`PostPageClient.tsx:348`).

## 8. Not modelled, and why

libp2p itself, RocksDB itself, cryptography, the command line and the read-only
HTTP queries have no interleaving of this code's own in them. Slashing, the site
registry module, reputation, gossip and discovery services are never called by a
running node.

Of the services (users, content, spaces, videos, administration) the model keeps
what a page of the web front end can observe: the request is answered, refused or
lost, and an answered write has happened. Races between two SQL statements inside
one handler are not modelled; the hazards of that kind are listed in
`PROJECT.json` with the reason no property covers them.

Of the web front end these are left out: reports, adding a post to a series, the
space search as one types, editing an existing article (`creations/[id]/edit`
only redirects), the unread counters of the header, the wallet and mining pages,
onboarding, the clearing of the stored token on a 401 in `api.ts`, push
notifications, and the visibility and password of a video on the profile. The
static pages (change log, command-line guide) have no state.

## 9. Plan

In order of importance; the first four are done.

1. `Ibft`, with `IbftProofs`, `IbftAgreementProofs`: consensus.
2. `BlockSync`, with `BlockSyncProofs`: synchronisation.
3. `PoolLedger`, `Alchemy`, with `AlchemyProofs`: the prize pool.
4. `WebPage` and the modules beside it, with `WebProofs`, `Replay`,
   `WebReplayProofs` and `WebFeedProofs`: the pages of the web front end against
   answers that come late, out of order or never.
5. `Mempool`: add, batches and the finalization paths that clean up or do not;
   the abstract specification is that a transaction enters one block.
6. `MiningRounds`: settlement against incoming XP and half-done settlements;
   the abstract specification pays each round once.
7. `Sessions`: token blacklist over memory, PostgreSQL and NATS in several
   services; refresh-token rotation; a revoked token is refused for ever.
8. `ChatRooms`: rooms and the clean-up task; the members of a space talk to one
   another.
9. `Node`: consensus and synchronisation composed over one storage, with the
   previous hash in the block.
10. `Validators`: loading, order and quorum; that two quorums intersect.
