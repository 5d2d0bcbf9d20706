# A TLA+ verification of the MIT 6.5840 labs in this repository

The repository holds solutions of the labs: MapReduce, a key/value server with
exactly-once calls, and Raft with persistence and snapshots. They run on the
course's simulated network (`labrpc`) and are judged by its linearizability
checker (`porcupine`). This directory models them in TLA+, checks the models
with TLC and proves theorems about Raft, kvsrv, `labrpc` and MapReduce with
TLAPS.

Source paths below are relative to the repository's Go root (`src/`).

## 1. Inventory

| Part | State | Operations | What makes it hard | Modules |
|---|---|---|---|---|
| Raft peer (`raft/raft.go`) | `currentTerm`, `votedFor`, `logs`, `role`, `commitIndex`, `lastApplied`, `nextIndex`, `matchIndex`, snapshot marker | the critical sections of `rf.mu` | storage and logical indices, out-of-range panics | `RaftPeer` |
| Raft cluster | the peers, goroutines and calls in flight | `ticker`, `startElection`, `RequestVote`, heartbeat rounds, `AppendEntries`, `InstallSnapshot`, `Start` | stale replies, unlocks between read and use, lost and late messages | `RaftCluster` |
| Raft heartbeat channel | `heartChan` of every peer, unlocked `convertRole` calls | `convertRole`, with and without the mutex | a channel closed twice, a leader left without a loop | `RaftHeart` |
| Raft catching up | a new leader and a follower, both with snapshots | heartbeat goroutines, `AppendEntries`, `InstallSnapshot`, `handleInstallSnapshot`, `Snapshot` | conflict hints, storage against logical indices, lost replies, the term of the marker | `RaftCatchUp` |
| Raft apply path | one follower, its `applyLogs` goroutines, `applyCh`, the service | handlers, `applyLogs`, `condInstallSnapshot`, `Snapshot`, restart | goroutines that race on one channel, mutex against channel, a killed instance that goes on | `RaftApply` |
| Raft persistence | one peer, the `Persister` | all handlers with `persist`, crash, restart | `persist` without the mutex, crash before it | `RaftPersist` |
| Network (`labrpc/labrpc.go`) | ends, connections, servers, calls, handler goroutines | `Call`, `processReq`, `isServerDead`, the tester's operations | a server replaced while a call is under way | `LabRPC` |
| Key/value server (`kvsrv`) | `data`, `clientTable`, clerks | `Get`, `Put`, `Append`, retries | a retry after a lost reply | `KVSrv`, `AtomicKV`, `KVHistory` |
| Checker (`porcupine`) | entries, linked list, bitsets, search stack, cache, results | `checkOperations`, `checkEvents`, `checkSingle`, `checkParallel`, `computeVisualizationData` | backtracking in a list, pruning, hash collisions, kill and timeout | `Porcupine`, `Bitset` |
| MapReduce (`mr`) | tasks, counters, phase, timers, workers, files | `RequestTask`, `ReportTask`, `checkTimeout`, `checkPhase`, the worker loop | crashes, slow workers, writes without the mutex | `MapReduce` |

How they interact: Raft peers and kvsrv clerks reach servers through `labrpc`.
The Raft and key/value modules use what `LabRPC` establishes of it: a request
is executed at most once, and a call may fail before or after its execution.
Raft delivers to a service through `applyCh` and takes its snapshots back. The
kvsrv tests hand their histories to `porcupine`; `KVHistory` judges by the
definition of linearizability, and `Porcupine` shows that the checker decides
that definition.

Not modelled: `labgob` (a wrapper of `encoding/gob` that warns), `kvraft`,
`shardctrler` and `shardkv` (skeletons with empty handlers), the MapReduce
applications, the programs in `main`, the HTML of `porcupine/visualization.go`,
and the parts of the test harnesses that set up tests.

## 2. Modules and the code

A module named `MC...` holds the instances for TLC. A definition introduced as
"Mutant", or named after the next definition with a fault added, is a wrong
variant that no specification uses; it shows that a property can fail.

**RaftPeer** has one operator per critical section, on a record with the fields
of the `Raft` struct: `BecomeCandidate`, `RequestVote`, `HandleVoteReply`,
`GenAppendEntries`, `AppendEntries`, `HandleAppendEntries`, `InstallSnapshot`,
`TrimLogs` and so on. Panics are predicates (`AppendEntriesPanics`). It has no
steps. The next five modules interleave its sections.

**RaftCluster**: one step is one critical section, or one statement where the
code holds no lock. An RPC is a record that moves from caller to callee and
back. A record that is not taken up again is a lost message; there is no
duplication, as `labrpc` has none. `handleInstallSnapshot` works without the
mutex, so each of its reads and writes is a step. `windows` records which race
of the code a behaviour has gone through with stale data; it guards nothing.
Nor do the history variables: `grants` are the votes cast, `leaderLog` the log
that the leader of a term had last, and `acks` how much of it who has stored in
that term. They state and prove the properties below.
The election timeout may elapse whenever the peer is not Leader. A panic stops
its peer.

**RaftHeart** extends `RaftCluster` by the channel that ends heartbeat loops.
Every step that changes a role under the mutex does to `heartChan` what
`convertRole` does. The `convertRole` that `handleInstallSnapshot` calls without
the mutex is three steps: test the role, close, assign.

**RaftCatchUp** has a leader to be and a follower. First both follow the leaders
of two earlier terms, whose requests arrive in any order, and their services take
snapshots. Then one is elected, by a voter that has whatever is committed, and
its heartbeat goroutines bring the other up to date, with the code's own
choice between `AppendEntries` and `InstallSnapshot`. A request or a reply may
be lost. Panics are recorded per peer. The `applyLogs` goroutines are not told
apart: any committed index may be written to `lastApplied` at any moment, and
the service may call `Snapshot` for it before that, in the window between the
send of a command (`raft.go:438`) and the write (`raft.go:443`). This allows all
that several goroutines can do and more. A peer that calls `condInstallSnapshot`,
which gets index and term exchanged, is followed no further (`swapped`);
`RaftApply` follows it. `cutBack` is a history variable: the peers whose log an
`AppendEntries` cut below what is committed or in the snapshot.

**RaftApply** has one follower. The rest of the cluster is an agreed log: every
`AppendEntries` or `InstallSnapshot` a leader may have sent at some time may
arrive at any time. `applyCh` is unbuffered, so a send is one step with the
service's work, and the service may then be in `Snapshot`, waiting for the
mutex. The service is `applierSnap` of `raft/config.go`. `Restart` is `crash1`
and `start1`: a new instance starts from the saved state and a new service from
the saved snapshot (`snapshot`, the index it covers), and what goroutines of the killed instance still send reaches the old applier, which
keeps the same books (`orphans`).

**RaftPersist** has one peer and its `Persister`. A handler that persists under
the mutex is one step. `persist` without the mutex reads its six fields in six
steps and saves in a seventh. `crash1` and `start1` of `raft/config.go` may come
between any two steps. `told` is the state that other peers have last been told
of.

**LabRPC** follows one `Call` through `processReq` and the handler goroutine
while the tester changes the network. A `*Server` is a number, so a restarted
server differs from the one it replaces.

**KVSrv** has the handlers and the retrying clerks; a string is the sequence of
the pieces it was concatenated from. **AtomicKV** is the abstract store: a call
takes effect once, between invocation and return. `KVSrv` maps to it by
`INSTANCE ... WITH` (`Atomic`). **KVHistory** adds the history that the tests
record.

**Porcupine**: one step is one round of `checkSingle`'s loop or of
`checkParallel`'s `select`. The linked list has the `next` and `prev` pointers of
the code, which lifted entries keep. A cache entry has the hash of its bucket.
Every outcome of the unstable `sort.Sort` is an initial state. What
`computeVisualizationData` makes of a result is a set of operators on the final
state. **Bitset** has the bitsets as sequences of chunks of `ChunkBits` bits.

**MapReduce**: `RequestTask` is cut where it reads `c.phase` or writes
`WorkerID` without the mutex. A file is the fact that it exists, and a result is
the set of map tasks that went into it.

## 3. Runs

Passing runs:

| Run | Instance | Shows |
|---|---|---|
| `RaftLog` | chain s1-s2-s3, two leaders in turn, 2 commands, windows avoided | one vote per peer and term, sound counts, one leader per term, matching logs, agreement, committed entries on a majority and never lost |
| `RaftTwoPeers` | 2 peers, terms up to 3, every goroutine, with heartbeat channels | `nextIndex` of a Leader stays in range, its channel is open, no channel is closed twice but by the unlocked step-down |
| `RaftCatchUp` | 5 servers, of which 2 in detail; 2 earlier terms, 3 requests of theirs, 1 loss, 1 new command | up to a `condInstallSnapshot`: entries stay at their index; unless an `AppendEntries` cut the log, indices stay ordered and the leader does not panic; the follower catches up but for the cases named |
| `RaftApply` | 4 commands of 2 terms, 3 appends, 1 install, snapshot every 2nd command, 1 restart | collected commands are right, nothing fails but for the windows, peer and service agree after a restart, no snapshot takes the service back, everything committed is applied |
| `RaftPersist` | 3 servers, terms up to 2, 1 entry, 2 unlocked `persist` calls, 1 crash, windows avoided | promises survive a crash, snapshot and state are saved in step, the disk lags only by a term without a vote |
| `LabRPC` | 2 calls on one end, 2 servers under one name, 5 tester operations | a true `Call` was executed by a live server, every `Call` returns |
| `KVSrv` | 2 clerks, 1 key, 2 strings, 2 calls each, with the history | the table agrees with the clerks, the store is atomic and histories are linearizable but for a repeated Put, calls return |
| `Porcupine` | all histories of 3 operations on a key, times 1..3; two keys, none, or four operations in all modes; event histories; 2 bits a chunk | list and bitsets are exact, verdict and longest prefixes are right, also under kill and timeout, the visualization replays them, no race, a verdict comes |
| `MapReduce` | 2 workers, 2 map and 2 reduce tasks, 1 crash, 1 slow execution | counters, timers, barrier, results, termination |

Runs in which TLC finds that the code does not do what a comment, a test or a
solution document says. Each is a finding in `PROJECT.json` with its quote.

| Run | What happens |
|---|---|
| `RaftTwoLeaders` | a vote reply of an older election is counted and makes a second leader of a term |
| `RaftVoteForgotten` | a crash before `startElection`'s deferred `persist` forgets its vote |
| `KVRepeatedPut` | a Put runs again after a lost reply, and the history is not linearizable |

The windows make the passing Raft properties precise: a property that ends in
`ButWindows` says that the races it names are the only ways to lose the
guarantee, within the bounds. `RaftLog` and `RaftPersist` search only behaviours
without a window, as their properties hold trivially in the others. The comment
on `Window` in each module says what every window is. In the models they do
this:

* `RaftCluster`: a stale election makes a second leader of a term; an unlocked
  step-down (`raft.go:839`) separates `votedFor` from its term; an
  `AppendEntries` that arrives late (`raft.go:523`) cuts off entries that were
  acknowledged.
* `RaftApply`: two `applyLogs` goroutines (`raft.go:538`) deliver a command
  twice; a snapshot sent by its own goroutine (`raft.go:785`) arrives after
  newer commands; `condInstallSnapshot` is called with index and term exchanged
  (`raft.go:421`); the applier of a killed instance goes on in the books of
  the new one (`config.go:127`).
* `RaftCatchUp`: a snapshot installed into a longer log leaves term 0 in the
  marker (`raft.go:772`), and a leader with such a marker and a follower that
  has the entry exchange rejections and discarded snapshots for ever
  (`ZeroMarker`); an `AppendEntries` below a peer's snapshot, for which a lost
  reply is enough, cuts the log below what is committed or kills the peer
  (`cutBack`, `CutShort`); `Snapshot` before the write of `lastApplied` leaves
  `lastApplied` behind the snapshot, so that the next `applyLogs` calls
  `condInstallSnapshot` (`swapped`).
* `RaftHeart`: the unlocked step-down (`raft.go:840`) may close a channel that
  another step-down has just closed.
* `RaftPersist`: a `persist` without the mutex (`raft.go:358`, `raft.go:881`)
  saves fields of different moments.

### Bounds

Every bound is a named constant in a guard. Three peers are the fewest with a
majority that is not everybody. Two terms give two leaders in succession, and
a candidate that moves on while its old replies are under way. The chain of
`RaftLog` puts s2 in every majority, so that the two leaders meet only in its
log; the run does not cover elections between s1 and s3 directly.
Both cluster runs use `HeartSpec`. A Leader with a log and a follower with an
empty one, which `InstallSnapshot` needs in this model, takes a third term: it is
in `RaftTwoPeers` and not in `RaftLog`.
`RaftTwoPeers` has a third term so that answers of an earlier leadership arrive
in a later one. `RaftApply` has three appends so that two `applyLogs` overlap
while a third request arrives, and one restart, at any point. `RaftCatchUp` has
two earlier terms so that the peers' logs can conflict, and five servers so that
the others are a majority without the follower; three earlier requests give both
peers a log, a commit and a snapshot that differ, and one loss is enough for a
reply to be missed after the follower has moved on. Services take snapshots at
one index (`SnapshotPoints`), which both old logs have and beyond which one of
them goes on. One goroutine at a time
reaches the follower; goroutines of several rounds are in `RaftTwoPeers`. Two
unlocked `persist` calls can overtake each other. In `LabRPC` the two servers are the old and the new one under a name.
Three operations give `porcupine` a backtrack, a cache hit and a longer
alternative, and with chunks of two bits (64 in the code) they cross a chunk
boundary and collide in a bucket; four make the largest prefix differ from the
last. In `MapReduce` one slow execution gives two workers on one task,
and one crash leaves one worker to finish.

Deadlock is checked in `RaftPersist` and `MapReduce`. The other systems may
really stop: bounded clients make no more calls, a peer or a process has died,
or a check has returned.

### Fairness

* `KVSrv` (`HFairSpec`): weak fairness of handlers, which hold `kv.mu` for a
  moment only, and strong fairness of `Return`, as `labrpc` drops each reply independently with
  probability one tenth.
* `RaftApply`: weak fairness of started goroutines and of the service, which
  the Go scheduler and the mutex provide. Nothing is assumed of requests.
* `LabRPC`: weak fairness of what a call and its goroutine do. Nothing is
  assumed of handlers or the tester.
* `Porcupine`: weak fairness of the searches and of `checkParallel`.
* `MapReduce`: weak fairness of live workers, of timers and of the polling
  loops. Crashes and executions slower than the timer are finitely many.
* `RaftCatchUp`: weak fairness of the heartbeat goroutines with the delivery of
  their requests, and of the other followers' answers. Losses are finitely many,
  and nobody campaigns against the leader; neither `applyLogs` nor the services
  need go on.

Raft elections have no liveness property: their progress rests on random
timeouts. With timeouts at any moment split votes may recur for ever under any
fairness of the steps.

## 4. Proofs

Assumptions are the named `ASSUME`s of the component modules: a finite set of
servers without `-1`, a `Nil` that is no command and no table entry, a key,
finite sets of workers and tasks, logs of earlier leaders with no term beyond
their own, and bounds and links of the kinds their comments say. The theorems
hold for every value of the constants.

Proofs are layered. `RaftElectionInv` (definitions only) and
`RaftClusterProofs` are the ground; `RaftLogProofs` says what kinds of steps keep
the log safe, given safe elections, and `RaftSafetyProofs` that every action is
one of them; `RaftProofs` proves the elections safe, puts elections and logs
together and carries them over to `RaftHeart`. `RaftPersistProofs`,
`RaftApplyProofs`, `RaftCatchUpProofs` and `ServiceProofs` (kvsrv, `labrpc` and
MapReduce, each on its own) stand alone. Most leaves are first-order and go to Zenon, the default of the
Raft modules and of the MapReduce part; one that needs arithmetic names SMT.

**Raft types** (`RaftClusterProofs`). `TypeOK` alone is not
inductive: indices stay in range only because no peer of `RaftCluster` has a
snapshot and every answer belongs to an election its sender still knows.
`Typed` adds both. There is one lemma per critical section of `RaftPeer` (it keeps
a well-formed peer well-formed, and is `Quiet` if it takes no part in an
election), and `NextTyped` goes through the groups of steps.

**Raft indices** (`RaftClusterProofs`). `LeaderIndexInRange` is inductive with
`CallInRange`: while the sender campaigns or leads in the term of a call, the
`PrevLogIndex` of the call lies within its log, and an answer points no further
than that. It holds because a peer that goes on in its term as Candidate or
Leader loses nothing of its log (`Ranged`).

**Raft elections** (`RaftProofs`). `ElectionInv` consists of
* `UnlockedInv`: an unlocked reset follows the window that names it;
* `CallInv`: one call per election and peer, in the election's term, and a
  granted reply is backed by a vote;
* `CountInv`: `voteCount` is bounded by the votes whose call is over, which is
  what makes `VoteCountSound` inductive;
* `VoteInv`, without an unlocked step-down: `votedFor` remembers the vote of the
  current term, terms only grow, and no call asks for a vote already given;
* `LeaderInv`, without a stale election too: a Candidate has its own vote and a
  Leader a majority of its term.

`VotesOnce` and `VotesCounted` follow directly. `LeadersUnique` follows as two
majorities of a finite set share a voter, who voted once.

**Raft logs** (`RaftLogProofs`, `RaftSafetyProofs`, `RaftProofs`). `LogsSafe`
is `Spec => []LogSafetyButWindows` and `CommittedNeverLost` is `Spec =>
CommittedKept`, for every cluster, topology and bound. None of the three parts
of `LogSafetyButWindows` is inductive. `LogInv` compares every log with
`leaderLog` instead of logs with each other:
* `LedgerInv` and `LogOK`: every entry of every log stands where the leader of
  its term had it, after the same entries (`Copied`), so `LogMatching` follows.
  The one peer elected in a term is still its Leader, or is beyond the term:
  here the proof rests on `ElectionInv`;
* `LeadOK`, `AckInv` and `CallOK`: `matchIndex`, a positive answer and `acks` say
  what was really stored, and the arguments of a call are a part of the leader's
  log that reaches its end except for entries of its own term. So a call cuts
  off entries of its own leader only if a newer one came first, which is the
  window `cutBack`;
* `ChoiceInv`, the heart: a position of a leader's own term that a majority has
  stored or may still store (`Choosable`) is in the log of whoever stored it, of
  every later leader, and of every candidate with the vote of one who stored it.
  Positions only stop being choosable, so the property has to be kept for those
  that still are. It is kept when a Candidate wins because its majority meets
  the majority of the position in a peer whose up-to-date test compared the logs;
* `CommitOK`: what is committed is decided, that is, below a chosen position of
  some leader's own term (the test of the entry's term in
  `handleAppendEntries`), which gives `StateMachineSafety` and
  `CommittedOnMajority`.

`RaftLogProofs` proves that five kinds of step keep this (`IdleStep`, `WinStep`,
`ExtendStep`, `AcceptStep`, `CommitStep`), and that the last two keep what is
committed. `RaftSafetyProofs` shows that each action, through no window, is of
one of the kinds.

**Raft heartbeat channels** (`RaftProofs`). `HeartImplementsCluster` shows
that `RaftHeart` implements `RaftCluster`: the first two statements of the
unlocked `convertRole` are stutters, the last is `SnapshotSetsRole`. So all that
is proved of the cluster carries over (`HeartTypeCorrect`). `HeartInv` adds the
type of the channels and `ConvertingInv`: each unlocked call belongs to one
goroutine that stands before it. A locked section closes the channel only of a
Leader, whose channel is open by `LeaderHeartOpen`, so that `Alive` can end only
through the window.

**Raft persistence** (`RaftPersistProofs`). `IInv` consists of `TypeInv`, in which
the image a persist has read so far, though mixed from several moments, is one
that `readPersist` can load; `SyncInv`: without a stale save, the snapshot in
memory is the one the log was trimmed by, and so on disk; `DiskBehindByTermOnly`
itself; and `PromiseInv`: without a window, the peer stands by what it told
others, and so does what `readPersist` would make of the disk unless an
election's persist is to come. That memory and disk both stand by it is needed,
as a handler changes the one and a save copies it to the other. The lemmas are
per section of `RaftPeer`: `Stays` and `Yields` say what it may do to term, vote
and log, and `MarkedTail` that cutting off a log's front keeps the rest in place.

**Raft apply path** (`RaftApplyProofs`). The inductive invariant is `ApplyInv`
with `SavedInv`: unless `condInstallSnapshot` ran, the saved snapshot is the one
the log starts from. `ApplyInv` consists of
* `TypeInv`, as `TypeOK` is not inductive alone: the messages of one
  `applyLogs` have consecutive indices, and a `commitIndex` beyond the agreed log
  lies within the snapshot, so that nothing is collected for it;
* `LogInv`: unless `condInstallSnapshot` ran, storage index `i` holds the entry
  agreed on at `i + lastIncludedIndex` (`Agrees`). The lemmas on `AppendEntries`,
  `TrimLogs` and `InstallSnapshot` show that each keeps this, also where a
  request begins below the snapshot, and `CollectedIsAgreed` follows;
* `StepInv`, which `AppliedInStepButWindows` needs to be inductive: it names the
  ways `lastApplied` of Raft and of the service can stand to each other while
  messages are on their way. A snapshot is about to be delivered and nobody sends
  commands (`Delivering`); the service waits for the next command (`Waiting`); it
  has one that `applyLogs` has not noted yet (`Received`); or a second
  `applyLogs` repeats one (`Repeating`), which is the window `overlap`.
  `SnapshotsGoForward` is the first case;
* `OneSender`: without that window one `applyLogs` at a time has messages;
* `CommitInv`: without any window the program runs, and neither the service nor
  a message is beyond `commitIndex`, nor that beyond the log. `Snapshot` and
  `applyLogs` index the log by these.

A restart goes from any of these cases to `Waiting`: by `SavedInv`, `readPersist`
and the new service start at the same snapshot, and what is left of the old instance is a
window of its own (`orphan`).

**Raft catching up** (`RaftCatchUpProofs`). `CatchUpInv` consists of
* `TypeInv`, in which peers are `Fit`: `lastIncludedIndex` is not negative, and
  nobody is beyond the new leader's term;
* `Placed`, which is `EntriesInPlace` of one peer, together with `EntriesPlaced` of
  every request on its way: what genAppendEntries cuts out of a log is in place
  behind `PrevLogIndex`, and what AppendEntries splices in stays so. An entry of
  the new term is in place anywhere, as in the property: only one peer adds them,
  and the property is about the earlier ones;
* `OrderInv`, which is `IndicesOrderedButCutBack`: for a peer not in `cutBack`,
  what is in the snapshot and what is applied is committed, and what is committed
  is in the log. `lastApplied` may be behind the snapshot, as `Snapshot` may run
  before the write of it. A request keeps this because it begins within the log
  and commits no more than it brings, a snapshot because `InstallSnapshot` takes
  only one beyond `commitIndex`;
* `LeadInv` and `CallOK`: `ldr` died only in `cutBack`, since `applyLogs`,
  `Snapshot` and the campaign read no further than `commitIndex` or the last
  entry. While it leads, its log has a marker, `nextIndex` is at most one beyond its
  log, a request asks for no more than the log, no reply's hint points beyond it,
  and the snapshot a goroutine carries is no newer than the leader's. The leader's
  log only grows at its end and is only trimmed at its front (`Grown`), so calls
  under way stay right whatever the other goroutines do to the leader meanwhile,
  also where its log was cut before the election. This is why the storage index left in `nextIndex` does no harm to the leader: it
  is too small, never too large.

There is one lemma per critical section on a single peer (`AppendStep`,
`InstallStep`, `TrimStep`, `HandleStep` and so on) and one per action on the two.

**kvsrv** (`ServiceProofs`). `Inv` is `TypeOK` with `TableAgrees`: an entry has
the number of the call in progress exactly when that call ran, and then holds
its result. With it every step maps to a step of `AtomicKV` or a stutter, except
a repeated Put (`CallsAtomic`): a duplicate is a stutter because the entry holds
the recorded result, and a run is `Perform` because it had not run.

**labrpc** (`ServiceProofs`). `HandlerFollows` says how far the handler is at
each point of a call, and that a call whose server was deleted or replaced before
the handler's reply never finds that server again under its name: a restarted
server is another one. So the last `isServerDead` test sees every such call.

**MapReduce** (`ServiceProofs`). `IInv` adds to the counters what each phase
rests on (`PhaseInv`), what a finished task left on the disk (`DiskInv`), what a
worker at each point has done (`WorkerInv`) and that one timer or handler watches
an assigned task and none a free one (`WatchInv`). `AssignedIsWatched` needs that
uniqueness: a second timer could free the task of another worker.

Type correctness is one conjunct of each of these invariants and a theorem of its
own (`TypeCorrect`, or a name that ends so). `Porcupine`, which
has no proofs, has `TypeOK` in its run.

Only model-checked: every liveness property (the prover has no fairness and no
`ENABLED`), `CatchesUpButWindows` among them; `Porcupine` and linearizability of histories
(`KVHistory`), which need induction over sequences.

## 5. Limits of the models

* `RaftCluster` has no service snapshots and no restarts. Its `InstallSnapshot`
  path is taken when `nextIndex` falls to 0. Snapshots on both sides are in
  `RaftCatchUp`, for one leader and one follower; restarts are in `RaftApply` and
  `RaftPersist`, for one peer.
* A Go panic ends the whole test process; in `RaftCluster` and `RaftCatchUp` it
  stops its peer only, which allows more behaviours.
* In `RaftCatchUp` nobody campaigns against the new leader, and the other
  followers only raise the commit index. A peer that dies of a request below its
  snapshot, or calls `condInstallSnapshot` with exchanged arguments, is not
  followed any further, and the properties say nothing of what comes after. That
  call may kill a leader, too (`raft.go:457`).
* A heartbeat loop of an older leadership that has slept through a new election
  goes on beside the new one. The models bound the rounds, not the loops, so this
  is covered, but the number of loops is not a state of theirs.
* A race on a slice header (`Start` and `persist`) is not modelled; a field is
  read or written as a whole.
* `RaftPersist` leaves out the unlocked `persist` of `handleInstallSnapshot`
  (`raft.go:843`) and requests that cut into the snapshot, which are in
  `RaftApply` and `RaftCatchUp`.
* Time is not modelled: a timeout may elapse at any moment, so that `lastUpdate`
  has no effect (`InstallSnapshot` of the present term does not renew it).
* `LabRPC` does not count bytes or calls.
* In `MapReduce` the disk does not fail.

Not modelled, and why: `labgob` warns and passes on to `encoding/gob`, and has no
state but a warning counter and a cache; `kvraft`, `shardctrler` and `shardkv`
have empty handlers, so there is no behaviour to be faithful to; `mrapps` and
`main/mrsequential.go` are text processing; the other programs in `main` parse
arguments and several import packages that are not in the repository; most of
`porcupine/visualization.go` is one HTML string; the rest of the harnesses
sets up tests and polls for their outcome.

## 6. Plan

Done: the modules, runs and proofs above. The election and log properties are
theorems for every cluster; TLC checks them on the chain of `RaftLog` only.
Next, in this order:

1. `RaftCluster` with snapshots taken by the service and with restarts, composed
   with the apply path of `RaftApply`.
2. `one`, `nCommitted` and `wait` of `raft/config.go` as the client of a cluster.
