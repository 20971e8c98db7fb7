# TLA+ models of Sentinel (Raft, replicated key-value store, linearizability checker)

These modules model the Go sources under `src/`: the Raft replica
(`src/raft/raft.go`), the key-value server (`src/unnamed/part_005`,
package `raftkv`), its clerk (`src/kvraft/client.go`) and the
linearizability checker that tests use on the clerks' histories
(`src/unnamed/part_002`, `part_003`, `src/linearizability/models.go`). Every action is
written from a handler or goroutine of the code, and `PROJECT.json` maps
each definition to the lines it models. The models are checked with TLC.

## The system and how the parts interact

* **Raft replica** (`raft.go`). Each replica has:
  * one mutex `rf.mu`;
  * a driver goroutine `Run`, which runs the follower, candidate and leader loops;
  * the RPC handlers `RequestVote`, `AppendEntries` and `InstallSnapshot`;
  * the reply handlers, which run in the goroutine that made the `Call`:
    `sendRequestVote`, `sendAppendEntries` and `sendInstallSnapshot`;
  * `applyLog` goroutines, which feed `chanApply`.

  Handlers signal `Run` through buffered channels: `chanHeartbeat`,
  `chanWinElect` and `chanGrantVote`. Handlers call `rf.persist()` before
  they reply. `Run` calls it too, without the lock.
* **Persister** (`part_001`). It holds two byte slices: `raftstate` (the
  encoded `currentTerm`, `votedFor` and `log`) and `snapshot`. Each method
  runs under `ps.mu`. At a crash the tester copies the persister and calls
  `Make` with the copy. `Make` runs `readPersist` and then
  `recoverFromSnapshot`.
* **KV server** (`part_005`).
  * `Get` and `PutAppend` call `appendEntryToLog`. It calls `rf.Start`, then
    waits up to 240 ms for the result on `resultCh[index]`.
  * `Run` reads the apply channel. It applies each command with `applyOp`,
    deduplicating by `ack[clientId]`, and hands the result to the waiting
    handler. It also decodes snapshots and asks Raft to snapshot
    (`CreateSnapshot`).
* **Clerk** (`client.go`). Each clerk numbers its requests and sends each
  one to the replica it believes is the leader. It retries forever, rotating
  `ck.leader`, until a reply without `WrongLeader` arrives.
* **Linearizability checker** (`part_003`, `part_002`, `models.go`).
  `CheckOperationsTimeout` splits a history by key (`KvModel.Partition`)
  and starts one goroutine per partition. Each runs `checkSingle` and sends
  its answer on the unbuffered channel `results`. The caller's loop
  receives answers until one is false (it then stores `kill = 1`), all
  have arrived, or the timeout fires. `checkSingle` is a backtracking
  search over a doubly linked list of call and return entries sorted by
  time, with a stack of calls, a bitset of linearized operations and a
  cache of `(bitset, state)` pairs.
* **Not under `src/`: the RPC layer** `rpc.ClientEnd.Call`. It may lose,
  delay or reorder requests and replies (spec section 7; the comment at
  raft.go:264-278). It is modelled from that description: the definitions
  `Reply`, `Discard` and `Drop` of `Raft` are marked `spec_modelled`.

## Modules

| Module | Models | State (VARIABLES) |
|---|---|---|
| `Raft` | one Raft replica per member of `Server`, its `Persister`, the RPC network between them | the fields of `Raft` (`currentTerm`, `state`, `votedFor`, `voteCount`, `log`, `commitIndex`, `lastApplied`, `nextIndex`, `matchIndex`), the driver's position `run`, channel signals `hbSignal`/`winSignal`, a pending `broadcastRequestVote` `rvPending`, the apply channel's history `applied`, the messages `msgs`, the persister's `saved` raft state and `snapshot` header, the state Run's persist read `runSave`, the crash count `restarts` |
| `MC_Raft` | TLC instance of `Raft`: three (or two) replicas as model values, symmetry, the in-flight bound, a view that forgets dead vote counts, leader arrays and a saved state no restart can read | |
| `RaftKV` | `KVServer` on every replica and the clerks, over an abstract Raft log | `lg`/`commitLen`/`leader` (abstract Raft), `data`, `ack`, `applied`, `resultCh` per replica, waiting `handlers`, clerk `pending`/`reqId`/`hint`, completed operations `done`, clerk RPCs `net` |
| `MC_RaftKV` | TLC instance of `RaftKV`: clerks as model values, symmetry over clerks, the in-flight bound | |
| `KvModel` | `KvModel()` of `models.go`: `Init`, `Step`, `Partition`, and the `KvInput`/`KvOutput` records | (operators only) |
| `LinSpec` | the abstract check: it ends with the verdict "some real-time-respecting order is accepted by the model" | `history`, `verdict` |
| `Linearizability` | `makeEntries`, or `renumber` and `convertEntries` for an event history, `makeLinkedEntries`, `lift`, `unlift`, `cacheContains` and the loop of `checkSingle` | the sorted entries `ents`, the pointers `match`/`next`/`prev`, the loop's `entry`, `state`, `linearized`, `calls`, `cache`, and its `result` |
| `MC_Linearizability` | every history of `NOps` operations on one key, with distinct or with possibly equal times, and every event history of `NEvOps` operations | |
| `CheckOperations` | `CheckOperationsTimeout` and `CheckEventsTimeout`: `fillDefault`'s partition functions, the goroutines, `kill`, `results`, the timeout | the history, each goroutine's position `gr` and `answer`, `kill`, `ok`, `count`, the caller's `pc` |
| `MC_CheckOperations` | every history of up to `NOps` operations with distinct times (`DistinctTimes`), or every event history of `NEvOps` operations, over two keys | |
| `Bitset` | the `bitset` type: `newBitset`, `bitsetIndex`, `set`, `clear`, `get`, `popcnt`, `hash`, `equals` over W-bit words | (operators only; `clone` is the copy a value already is) |

### Raft: how the actions correspond to the code

* **The driver goroutine `Run`.**
  * It reads `rf.state` without the lock (raft.go:644), so its steps are
    separate actions: `FollowerHeartbeat`, `FollowerTimeout`,
    `ReadCandidate`, `Campaign`, `CandidateHeartbeat`, `CandidateWin`,
    `CandidateTimeout` and `broadcastHeartbeat`.
  * The unlocked read is `ReadCandidate`. `Campaign` is the locked
    `currentTerm++` that follows it.
  * `broadcastRequestVote` is a separate goroutine. It re-checks
    `rf.state` before sending.
* **Handlers.** Each RPC handler and each reply handler is one action:
  * `RequestVote`, `AppendEntries`, `InstallSnapshot`;
  * `RequestVoteReply`, `AppendEntriesReply`, `InstallSnapshotReply`.

  Each action covers every branch of the handler's code: the stale-term
  rejection, step-down, the `PrevLogIndex` early return, the fast-backup
  conflict, merge and commit, and the commit loop.
* **Helpers.** The pure helpers are operators (`min` is util.go's):
  * `isUpToDate`, `trimLog`, `NextTryOnConflict`;
  * `MergeEntries` (`rf.log[:prev-base+1]` followed by the entries);
  * `FollowerCommit`, `CommitTarget`.
* **`applyLog`.** It appends the entries in `(lastApplied, commitIndex]` to
  `applied[i]` (the apply channel) and sets `lastApplied`. It is enabled
  only while `commitIndex` is inside the log; past it, the code panics on
  the slice index.
* **`CreateSnapshot(i, k)`.** This is the KV server's
  `go kv.rf.CreateSnapshot(.., k)` for an index `k` the replica has
  applied.
* **`Start(i)`.** It appends a command on a leader. A command is identified
  by the replica whose `Start` created it; with the term and index, that
  tells every entry apart.
* **Persistence.** `saved[i]` is the decoded `raftstate` (`RaftState`).
  `snapshot[i]` is the `(index, term)` header that `recoverFromSnapshot`
  decodes.
  * Every locked step that calls `rf.persist()` ends with `persist(i)`:
    `Campaign`, `Start`, `RequestVote`, `AppendEntries`,
    `RequestVoteReply`, and a `Drop` that fails a vote `Call`. It saves the
    state the step leaves, before the reply goes out. In
    `AppendEntriesReply`, `InstallSnapshotReply` and `InstallSnapshot`
    only the branches that persist do so.
  * `CreateSnapshot` and a taken `InstallSnapshot` call
    `SaveStateAndSnapshot`.
  * `Run`'s persist is not locked, so it is two steps. `FollowerTimeout`
    reads the state (`runSave`), and `RunPersist` saves it later. Any
    handler may save in between.
* **`Restart(i)`** is the crash and `Make`. The replica comes back as a
  follower with the saved term, vote and log. It then runs
  `recoverFromSnapshot`: with a snapshot, the log is trimmed to it,
  `commitIndex` and `lastApplied` move to its index, and the snapshot
  starts the new apply channel. `Make` then persists.
  * The messages to and from the replica are dropped. The tester
    disconnects it, and its old endpoints are never enabled again.
  * What the old instance would save after the crash goes to the old
    persister, not to the copy.
  * There are at most `MaxRestarts` restarts.
* **Not modelled in `Raft`:**
  * `chanGrantVote`. A granted vote sends on it, and the follower's select
    takes the signal and restarts its timer. The model has no timer:
    `FollowerTimeout` may fire at any step, so taking the signal first is
    a step that changes no modelled variable, and a timeout delayed by it
    is still a behaviour of the model. With the signal as a variable (the
    follower's timeout waits until it is taken) the three passing Raft runs
    still pass, and raft_election has twice the states;
    `GetState`, which only reads, and `Kill`, which is empty;
  * the byte content of snapshots, and the KV state in them.

### RaftKV: the abstract Raft and the KV actions

* **The abstract Raft.**
  * `lg` is the current leader's log and its first `commitLen` entries are
    committed.
  * `Start` on the leader appends to `lg`.
  * `LeaderChange` moves leadership and may cut any part of the
    uncommitted suffix.
  * `RaftCommit` commits one more entry.
  * A replica that is not `leader` answers `Start` with `isLeader = false`.
  * This is what `Raft` provides to the KV layer: `StateMachineSafety` and
    `AppliedInOrder` are checked there.
* **KV actions.**

  | Action | Code |
  |---|---|
  | `HandleRequest` | `Get`/`PutAppend` + `appendEntryToLog` up to the select |
  | `HandlerResult` | the select's result case, with `isMatch` |
  | `HandlerTimeout` | the 240 ms case |
  | `Apply` | `Run` on a command: `applyOp` with `isDuplicated`, and the drain-then-send on `resultCh` |
  | `InstallSnapshot` | `Run` on a snapshot message; decoding into the existing maps is `MergeMap` |
  | `ClerkCall` | the start of clerk `Get`/`PutAppend` |
  | `ClerkReceive` | `Call` returning a reply; a reply with `WrongLeader` sends the retry |
  | `ClerkCallFail` | `Call` returning false, then the retry |

* **How a `Call` can fail.**
  * A handler that is still running, and whose `Call` gave up, answers
    nobody (`live = FALSE`).
  * Under `DelayedRequests` a request can still be delivered after its
    `Call` gave up, as the spec's RPC substrate allows ("may drop, delay,
    or partition").
* **Messages.** `Args` is `PutAppendArgs`/`GetArgs` and `KVReply` is
  `PutAppendReply`/`GetReply` (common.go), without the key and with the
  value as the write's tag.
* **Data.** Data is one key. A value is the sequence of the
  `<<clientId, requestId>>` tags of the writes that built it, so a write
  applied twice is visible.

### The linearizability checker

* **`Linearizability`: one iteration of `checkSingle`'s loop per step.**
  * `Init` builds the list. For an event history (`CheckEvents`) it is
    `convertEntries(renumber(events))`: `renumber` gives each id the number
    of distinct ids met before its first event, and the entries keep the
    events' order, with time -1. Otherwise `makeEntries` sorts by time with `sort.Sort`,
    which is not stable, so entries with equal times may come out in any
    order (`SortedByTime` gives all of them). `makeLinkedEntries` walks
    the slice backwards; a call is linked (`match`) to its return only if
    the return was met first, that is, comes later (`MatchOf`). Node 0 is
    the head node `checkSingle` inserts.
  * `Linearize`: the model accepts the call and `(linearized ∪ {id},
    state)` is not cached. It caches the pair, pushes, lifts the call and
    its return, and restarts at the head.
  * `Skip`: the step fails or the pair is cached; go to the next entry.
  * `Backtrack`: a return entry (or a call without a link) is reached. Pop
    the last call, clear its bit, `unlift` it, and resume after it.
  * `Fail` and `Succeed` are the two `return`s.
  * `lift` and `unlift` make their pointer stores in the code's order. The
    order matters when the call and its return are adjacent.
  * `linearized` is a `Bitset` value of `n` bits (words of `W` bits), set
    and cleared by id as the code does. The cache is the set of its
    entries; `cacheContains` compares `hash`, then `equals`, then the state
    (`ShallowEqual`), as the bucket lookup does.
* **Refinement.** `Linearizability` is shown to implement `LinSpec` under
  the mapping `history <- hist` (an event history is read as the
  operations its call and return events pair up), `verdict <- result`. `LinSpec` decides
  by trying every order (`SetToSeqs`), so the search, its pruning by the
  cache, and its backtracking are checked against brute force.
* **`CheckOperations`.** A goroutine's `checkSingle` is taken at the
  level of `LinSpec`: it answers whether its partition is linearizable
  (`CheckSingle`). Once `kill` is set, it may instead return false at the
  top of any iteration (`Killed`). The send on `results` is a rendezvous
  with the caller's loop (`Receive`), so a goroutine whose answer is never
  taken stays in `"sending"`. `Timeout` is the `time.After` case.
  * `checkSingle`'s answer is a pure function of the partition, so it is
    tabulated once (`Verdict`, over every partition of every history of
    the model) rather than recomputed at every step.
  * For an event history the partitions are `model.PartitionEvent`. `KvModel`
    sets no `PartitionEvent`, so `fillDefault` gives `NoPartitionEvent`:
    one partition `All` holding every event.
* **Strings.** A `KvModel` string is a sequence of tokens from `Vals`, so
  that put replaces it and append concatenates, as on Go strings.

## Runs and what they show

| Run | Cfg | Result | Properties |
|---|---|---|---|
| raft_election | `MC_Raft_election.cfg` | pass, 1M distinct states, about 2 min | `ElectionSafety` |
| raft_replication | `MC_Raft_replication.cfg` | pass, 730K states, about 1.5 min | `StateMachineSafety`, `CommitWithinLog`, `CommitMonotone` |
| raft_snapshot | `MC_Raft_snapshot.cfg` | pass, 410K states, under 1 min | `TypeOK`, `AppliedInOrder`, `SnapshotCovered` |
| raft_crash_vote | `MC_Raft_crash_vote.cfg` | violation | `ElectionSafety` |
| raft_candidate_race | `MC_Raft_candidate_race.cfg` | violation | `ElectionSafety` |
| raft_stale_append | `MC_Raft_stale_append.cfg` | violation | `CommitWithinLog` |
| kv_dedup | `MC_RaftKV_dedup.cfg` | pass, 900K states, about 1 min | `AppliedExactlyOnce`, `ResultMatchesLog` |
| kv_delayed_retry | `MC_RaftKV_delayed_retry.cfg` | violation | `AppliedExactlyOnce` |
| lin_check_single | `MC_Linearizability.cfg` | pass, 142K states, about 1.5 min | `ListMatchesLinearized`, `CacheLookupExact`, `RefinesLinSpec` |
| lin_equal_times | `MC_Linearizability_ties.cfg` | violation | `RefinesLinSpec` |
| co_verdict | `MC_CheckOperations_verdict.cfg` | pass, 166K states, about 40 s | `ReturnedVerdict`, `RejectSound`, `CheckReturns` |
| co_events | `MC_CheckOperations_events.cfg` | violation | `ReturnedVerdict` |

### Passing runs

* **raft_election.** Two replicas never lead the same term, through lost
  messages and competing candidates.
* **raft_replication.** Leaders of up to three terms replicate an entry
  with reordering. The apply channels never disagree, `commitIndex` never
  leaves the log, and commit progress is never undone.
* **raft_snapshot.** Two replicas, terms up to 2, logs up to 2 entries.
  Snapshots are taken and installed on a lossy network, and a replica may
  crash and be made again from its persister. Logs keep their shape and
  every apply channel moves forward. No replica restarts behind the
  snapshot it saved: its log starts at or after the snapshot point, and
  its `commitIndex` has reached it. The raft state saved beside a snapshot
  can be older than the snapshot, because `Run`'s unlocked persist can
  store a state read before an `InstallSnapshot`. Only `recoverFromSnapshot`'s
  `trimLog` puts such a replica back in line.
  * With two replicas a majority is both of them. A vote or an entry lost
    by the stale persist therefore cannot elect a second leader. That is
    why this run passes while raft_crash_vote does not.
* **kv_dedup.** The setting has:
  * lost requests and replies;
  * handler timeouts, and entries committed at an index another leader gave
    out;
  * leader changes and snapshots.

  In it, every replica's data equals its applied prefix with each write
  taking effect once. Every completed clerk operation is the log entry at
  the index whose result it returned, and a `Get` returns the value the
  writes before it produced. That index is its linearization point.

* **lin_check_single.** Every history of three operations on one key,
  over two tokens, with distinct times and gets returning strings of up
  to two tokens. The list always holds exactly the entries of the
  operations not yet linearized, in sorted order, with `prev` the inverse
  of `next`. The cache lookup (hash, then `equals` word by word, then the
  state) finds an entry exactly when the set of linearized ids and the
  state were cached before. `checkSingle` always ends, and answers true
  exactly when the brute-force reference does. The same holds for every
  event history of two operations (`renumber` and `convertEntries`
  instead of the sort), with words of `W = 2` bits so that the bitset has
  a full and a partial word.
* **co_verdict.** Histories of one to three operations over two keys,
  every call and return at its own time. That is the scope in which
  lin_check_single shows `checkSingle` answering the reference, so a
  goroutine may be taken at that level. With equal times the code's
  `checkSingle` can reject a linearizable partition (lin_equal_times), and
  `CheckOperations` inherits that; such histories are left to that run.
  The caller passes either no timeout or one that may fire at any point.
  However the goroutines and the kill flag interleave:
  * `CheckOperations` returns;
  * a false answer means some partition is not linearizable;
  * without a timeout, a true answer means every partition is.

  With a timeout, true is inconclusive, as the comment at part_003:274
  says.

### Violation runs, and the findings they support

* **raft_candidate_race** (raft.go:644).
  * The setting: the election timer is not bounded by the vote round trip
    (`BoundedElectionDelay = FALSE`).
  * What happens: `Run` reads `STATE_CANDIDATE`, the vote replies make the
    replica leader, and then `Campaign` increments the term as leader. The
    replica is leader of term t+1 with no votes, and another replica wins
    t+1.
* **raft_stale_append** (raft.go:396).
  * The setting: heartbeat rounds may overlap (`BoundedHeartbeatRTT =
    FALSE`).
  * What happens: a heartbeat sent before `Start` arrives after the entry
    was replicated and committed. `AppendEntries` truncates the log to
    `prevLogIndex` unconditionally, the committed entry is gone, and
    `commitIndex` points past the log, where `applyLog` would panic.
* **raft_crash_vote** (raft.go:651).
  * The setting: the election scope of raft_election (which passes), and
    one crash (`MaxRestarts = 1`).
  * What happens, in 18 states:
    1. Follower s3's timer fires. `Run` sets `STATE_CANDIDATE`, and its
       persist reads term 0 with no vote.
    2. s1's `RequestVote` for term 1 reaches s3. s3 grants it and saves
       term 1 with a vote for s1.
    3. `Run`'s `SaveRaftState` then stores term 0 with no vote over that.
    4. s1 counts s3's vote and leads term 1.
    5. s3 crashes and comes back in term 0 with no vote. It grants s2's
       term-1 request, and s2 also leads term 1.
  * With `RunPersist` saving the state as it is when it saves (the save
    under `rf.mu`), the same cfg passes (2.4M states).
* **kv_delayed_retry** (part_005:155).
  * The setting: one clerk, and a request delivered after its `Call` gave
    up.
  * What happens: the old request is committed after the clerk's next
    request. `applyOp` sets `ack` to the old id (the spec says `max`), and
    the retried newer append is then applied twice. This is the spec's
    "duplicate suppression" scenario failing.

* **lin_equal_times** (part_003:121).
  * The setting: two operations with times in 1..2, and entries with equal
    times in any order.
  * What happens: a get of `""` with `Call == Return` has its return
    sorted first. `makeLinkedEntries` gives the call no `match`,
    `checkSingle` takes it for a return with nothing to undo, and returns
    false on a linearizable history.
  * In the code, `sort.Sort` uses insertion sort, which is stable, on
    slices of at most 12 entries. The reordering therefore needs a
    partition of more than six operations, as in the spec's scenario of
    5 clients issuing 100 operations each.
* **co_events** (models.go:18, part_003:229).
  * The setting: `CheckEvents` with `KvModel` on event histories of two
    operations over two keys, no timeout.
  * What happens: with no `PartitionEvent`, `fillDefault` puts all events
    in one partition checked against one string. For the events call
    `get(k1)`, call `put(k2, "x")`, return `"x"`, return, `CheckEvents`
    answers true: the put is linearized before the get although it wrote
    another key. The comment at models.go:37 says the single-string state
    is valid only because the history is partitioned by key. The reverse
    also happens: a put of k1 followed by a get of k2 returning `""` is
    rejected.
* **The goroutine leak** (part_003:252). It is not a run. When one
  partition is not linearizable, its false answer stops the loop, and the
  other partition's goroutine blocks forever on `results <-`. Stated as
  `<>(\A k \in PartKeys : gr[k] = "exited")` over `MC_CheckOperations`
  with `Timeouts = {FALSE}`, TLC shows it failing on the first history of
  two partitions with one false answer.
* **The empty history** (part_003:261). It is not a run. An empty history
  has no partitions, so with timeout 0 the loop never leaves its
  `select`. Setting `AllowEmpty = TRUE` in `MC_CheckOperations_verdict.cfg`
  makes TLC report `CheckReturns` violated at once.

### Mutants

Every property of a passing run has a mutant, listed in `PROJECT.json`.
A mutant replaces one mapped definition by a plausible slip, and TLC then
finds the property violated:

| Property | Slip in the code |
|---|---|
| `ElectionSafety` | a second vote in the same term |
| `StateMachineSafety` | `>=` for `>` in the commit majority |
| `CommitWithinLog` | merging the entries at the wrong offset |
| `CommitMonotone` | taking `LeaderCommit` without the comparison |
| `TypeOK` | an off-by-one in `trimLog`'s slice |
| `AppliedInOrder` | `InstallSnapshot` without the `lii > commitIndex` test |
| `SnapshotCovered` | `recoverFromSnapshot` without its `trimLog` call |
| `AppliedExactlyOnce` | `>` for `>=` in `isDuplicated` |
| `ResultMatchesLog` | `isMatch` always true |
| `RefinesLinSpec` | `renumber` numbering every event afresh instead of reusing an id's number |
| `CacheLookupExact` | `equals` comparing only the first word |
| `ListMatchesLinearized` | `unlift` without `match.next.prev = match` |
| `ReturnedVerdict` | the loop stopping one answer early (`count >= len-1`) |
| `CheckReturns` | the count tested before it is incremented |
| `RejectSound` | `checkSingle` returning false without `kill` set |

## Bounds, and why they are enough

* **Raft: three replicas** (a majority of 2, so two candidates can split a
  vote). The crash-and-snapshot run uses two: with three replicas and a
  crash, the stale persist of raft_crash_vote already breaks elections.
  Two replicas also keep that run at 410K states with logs of 2 entries.
* **Restarts: one (`MaxRestarts`).** One crash is enough to lose a saved
  vote, and to restart from an old raft state beside a newer snapshot. A
  run with two restarts also passed (1.3M states). It is not kept as a run
  because it takes too long.
* **Terms up to 2 (election) or 3 (replication).** The replication run
  needs three terms to reach the `AppendEntries` conflict branch, where a
  term-2 entry meets a term-1 one.
* **`MaxIndex = 1`** (2 in the snapshot run). This is enough for commit,
  truncation, overwrite of an uncommitted entry, and snapshots at index 1. At `MaxIndex = 2` the
  runs exceed TLC's budget, and a log-matching property over two entries
  is left out for that reason.
* **In-flight messages: 2-4 (`MaxInFlight`).**
* **`OneCampaign` (replication only).** At most one candidate at a time;
  competing campaigns are covered by the election run.
* **`BoundedElectionDelay` and `BoundedHeartbeatRTT`.** They express the
  code's timing: a 200-500 ms election timeout against a 60 ms heartbeat,
  and the 240 ms KV wait. Under these flags:
  * a follower's timer fires only when none of its election traffic is in
    flight;
  * a leader sends a new heartbeat round only when the last one is over.

  The violation runs turn one flag off to show what the timing hides.
* **RaftKV: two replicas, two clerks with one request each, logs of 2
  entries, at most two handlers and RPCs at once.** This is room for a
  request, its retry, and another clerk's entry at the same index. The
  violation run uses one clerk with two requests and a log of 4: the
  shortest history in which a late duplicate lowers `ack` and a newer write
  is then reapplied.

* **Linearizability: three operations, distinct times (1..6).** This
  covers every real-time pattern of three operations: chains, overlaps,
  and one operation spanning two. The cache prunes revisited pairs of put
  and append, and backtracking goes two levels deep. The
  operations are listed by call time. This loses nothing: the history's
  order only fixes the ids, and the sort decides the list. Three
  operations over two keys (`CheckOperations`), with the times 1..2n
  one per event and listed the same way, give one or two partitions, which is enough for the loop to stop at a false answer
  while the other goroutine is still checking.
* **Bitset: W = 2.** The code's 64-bit words are cut to two bits so that
  three operations need two words, the second partial.
  `bitsetIndex` and `newBitset` are written for any W.
* **Event histories: two operations** (`NEvOps`), every interleaving of
  their calls and returns, with the ids numbered from the top so that
  `renumber` has to change them. Two keys in `MC_CheckOperations` give the
  smallest history where one partition for all keys matters.

## Fairness

* **Raft and RaftKV.** Only safety is checked, and the specifications
  have no fairness conditions. Elections in the code are randomized
  timers with no progress guarantee. The KV runs may retry forever.
* **`Linearizability`.** `checkSingle` is one goroutine's loop, so weak
  fairness on its steps is what the Go scheduler gives.
* **`CheckOperations`.** Each partition's goroutine and the caller are
  runnable goroutines, so each is weakly fair. The timer fires
  eventually (`WF` on `Timeout`).
* **Deadlock.** The checker's cfgs say `CHECK_DEADLOCK FALSE`: the
  checker returns, which is a final state. Getting stuck short of that is
  caught by `RefinesLinSpec` and `CheckReturns`.
* **Symmetry.** It is used only in safety-only runs, because TLC's
  symmetry reduction is unsound for liveness.

## Not modelled

| Part | Why |
|---|---|
| `Persister.RaftStateSize`, `SnapshotSize` | They only feed the KV server's snapshot trigger, which `CreateSnapshot` leaves nondeterministic. |
| A crash of the KV server's state beyond the snapshot | In `Raft` the apply channel starts over at `Make`. The KV layer's recovery from a snapshot is in `RaftKV`. |
| `popcnt`'s word arithmetic | 64-bit multiplication modulo 2^64 is beyond TLC's integers; `popcnt` is taken as the Hamming weight it computes. |
| `gobWrapper` | Pure encoding. |
| `DPrintf` | Only logs. |
| The capacity (100) of the signal channels | Not reached in the model; see the hazards in `PROJECT.json`. |
| The data race on `kv.resultCh` in `appendEntryToLog` | A Go map race is a runtime fault, not a state. |
| `AppendEntries`'s fall-through for `prevLogIndex < baseIndex - 1` | Kept in the action (`NextTryIndex` 0), but no reachable state within the bounds takes it. |
