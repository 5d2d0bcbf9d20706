----------------------------- MODULE RaftCluster -----------------------------
(***************************************************************************)
(* A cluster of Raft peers (raft/raft.go) over the labrpc network: the     *)
(* ticker, the elections, the heartbeat loops that replicate the log, the  *)
(* InstallSnapshot path and the service's Start calls, for peers whose     *)
(* service takes no snapshot (labs 3A to 3C) and that do not restart.      *)
(*                                                                         *)
(* One step is one critical section of rf.mu, or one unlocked statement    *)
(* where the code holds no lock.  Every RPC runs in a goroutine of its     *)
(* own, so an RPC is a record that moves from the caller to the callee and *)
(* back.  labrpc may lose or delay a request or a reply and never          *)
(* duplicates one: a record that is never taken up again is a lost message *)
(* (Call then returns false, on which every caller here does nothing).     *)
(***************************************************************************)
EXTENDS RaftPeer

CONSTANTS
    Links,          \* the pairs {s, t} of peers whose requests the network may deliver
    MaxTerm,        \* no election is started for a term beyond this one
    MaxElections,   \* how often the election timeout of a peer may elapse
    MaxRounds       \* heartbeat rounds a peer may send

ASSUME ClusterAssumption ==
    /\ Links \subseteq SUBSET Server
    /\ MaxTerm \in Nat
    /\ MaxElections \in [Server -> Nat]
    /\ MaxRounds \in [Server -> Nat]

VARIABLES
    rf,             \* the Raft struct of every peer
    ticker,         \* where the ticker goroutine of a peer stands
    elections,      \* the startElection calls of a peer: args.Term, voteCount
    voteRequests,   \* RequestVote calls that have not reached the callee
    voteReplies,    \* answered RequestVote calls
    rounds,         \* heartbeat rounds sent by a peer
    appendCalls,    \* the per-follower goroutines of the heartbeat rounds
    snapCalls,      \* the handleInstallSnapshot goroutines
    submitted,      \* commands given to Start so far
    starts,         \* Start calls between their two critical sections
    panicked        \* peers that died of an index out of range

(* History variables: they record and never guard. *)
VARIABLES
    grants,         \* votes cast: who, in which term, for whom
    leaderLog,      \* the log of the leader of a term, as it was last in that term
    acks,           \* how much of it who has stored in that term
    windows         \* the race windows of the code that a step has gone through

voteVars == <<ticker, elections, voteRequests, voteReplies>>
logVars == <<rounds, appendCalls, snapCalls, submitted, starts, panicked>>
copyVars == <<leaderLog, acks>>
histVars == <<grants, copyVars, windows>>
vars == <<rf, voteVars, logVars, histVars>>

(***************************************************************************)
(* The places where the code goes on with something that may have become   *)
(* stale.  Each is modelled as the code has it; windows records which of   *)
(* them a behaviour has gone through with stale data:                      *)
(*   staleElection     a vote counted for an older term makes a Leader     *)
(*                     (the reply goroutine does not compare terms)        *)
(*   staleStart        Start appends although the leadership whose term it *)
(*                     read is over                                        *)
(*   staleArgs         AppendEntries arguments of another term are sent    *)
(*                     (they are built before the isLeader test)           *)
(*   cutBack           an AppendEntries that is older than one already     *)
(*                     accepted cuts off entries of its own leader         *)
(*   staleReply        handleAppendEntries uses the answer to a call of an *)
(*                     older term                                          *)
(*   unlockedStepDown  handleInstallSnapshot changes the term unlocked     *)
(***************************************************************************)
Window == {"staleElection", "staleStart", "staleArgs", "cutBack", "staleReply",
           "unlockedStepDown"}

Through(window, stale) == windows' = windows \cup {w \in {window} : stale}

Up(s) == s \notin panicked

Reachable(s, t) == {s, t} \in Links

Init ==
    /\ rf = [s \in Server |-> Make]
    /\ ticker = [s \in Server |-> "idle"]
    /\ elections = [s \in Server |-> <<>>]
    /\ voteRequests = {} /\ voteReplies = {}
    /\ rounds = [s \in Server |-> 0]
    /\ appendCalls = {} /\ snapCalls = {}
    /\ submitted = {} /\ starts = {} /\ panicked = {}
    /\ grants = {} /\ windows = {}
    /\ leaderLog = [t \in {0} |-> Make.logs] /\ acks = {}

(* what the history keeps when s, whose struct becomes new, stores entries *)
(* in its term, and when it does so as the leader                          *)
Stores(s, new, stored) ==
    acks' = acks \cup {a \in {[peer |-> s, term |-> new.currentTerm,
                               length |-> Len(new.logs)]} : stored}

Leads(s, new, leads) ==
    /\ leaderLog' = IF leads
                    THEN [t \in DOMAIN leaderLog \cup {new.currentTerm} |->
                            IF t = new.currentTerm THEN new.logs ELSE leaderLog[t]]
                    ELSE leaderLog
    /\ Stores(s, new, leads)

-----------------------------------------------------------------------------
(* Elections *)

(* ticker: the peer is not Leader and its election timeout has elapsed *)
ElectionTimeout(s) ==
    /\ Up(s)
    /\ ticker[s] = "idle"
    /\ Len(elections[s]) < MaxElections[s]
    /\ rf[s].role # "Leader"
    /\ rf[s].currentTerm < MaxTerm
    /\ ticker' = [ticker EXCEPT ![s] = "timeout"]
    /\ UNCHANGED <<rf, elections, voteRequests, voteReplies, logVars, histVars>>

(* startElection, its locked section *)
StartElection(s) ==
    /\ Up(s)
    /\ ticker[s] = "timeout"
    /\ rf[s].currentTerm < MaxTerm
    /\ rf' = [rf EXCEPT ![s] = BecomeCandidate(@, s)]
    /\ ticker' = [ticker EXCEPT ![s] = "candidate"]
    /\ grants' = grants \cup
        {[voter |-> s, term |-> rf[s].currentTerm + 1, candidate |-> s]}
    /\ UNCHANGED <<elections, voteRequests, voteReplies, logVars, copyVars, windows>>

(* startElection after the unlock: the arguments are read in a second      *)
(* critical section and one goroutine per other peer sends them            *)
SendRequestVotes(s) ==
    /\ Up(s)
    /\ ticker[s] = "candidate"
    /\ LET args == GenRequestVoteArgs(rf[s], s)
           id == Len(elections[s]) + 1
       IN  /\ elections' = [elections EXCEPT ![s] =
                Append(@, [Term |-> args.Term, voteCount |-> 1])]
           /\ voteRequests' = voteRequests \cup
                {[from |-> s, to |-> i, election |-> id, args |-> args] :
                    i \in {j \in Server \ {s} : Reachable(s, j)}}
    /\ ticker' = [ticker EXCEPT ![s] = "idle"]
    /\ UNCHANGED <<rf, voteReplies, logVars, histVars>>

(* the RequestVote handler *)
ReceiveRequestVote(m) ==
    /\ Up(m.to)
    /\ rf' = [rf EXCEPT ![m.to] = RequestVote(@, m.args)]
    /\ voteRequests' = voteRequests \ {m}
    /\ voteReplies' = voteReplies \cup
        {[from |-> m.from, to |-> m.to, election |-> m.election,
          reply |-> RequestVoteReply(rf[m.to], m.args)]}
    /\ grants' = IF GrantsVote(rf[m.to], m.args)
                 THEN grants \cup {[voter |-> m.to, term |-> m.args.Term,
                                    candidate |-> m.args.CandidateId]}
                 ELSE grants
    /\ UNCHANGED <<ticker, elections, logVars, copyVars, windows>>

(* the goroutine of startElection once its Call has returned true *)
ReceiveVoteReply(m) ==
    LET s == m.from
        election == elections[s][m.election]
        wins == CountsVote(rf[s], m.reply) /\ Majority(election.voteCount + 1)
    IN  /\ Up(s)
        /\ rf' = [rf EXCEPT ![s] = HandleVoteReply(@, m.reply, election.voteCount)]
        /\ voteReplies' = voteReplies \ {m}
        /\ elections' = IF CountsVote(rf[s], m.reply)
                        THEN [elections EXCEPT ![s][m.election].voteCount = @ + 1]
                        ELSE elections
        /\ Leads(s, rf[s], wins)
        /\ Through("staleElection", wins /\ election.Term # rf[s].currentTerm)
        /\ UNCHANGED <<ticker, voteRequests, logVars, grants>>

-----------------------------------------------------------------------------
(* Heartbeats and log replication *)

(* A step of goroutine c of calls: the record changes to d *)
Advance(calls, c, d) == (calls \ {c}) \cup {d}

(* one turn of the heartbeat loop *)
Heartbeat(s) ==
    /\ Up(s)
    /\ rf[s].role = "Leader"
    /\ rounds[s] < MaxRounds[s]
    /\ rounds' = [rounds EXCEPT ![s] = @ + 1]
    /\ appendCalls' = appendCalls \cup
        {[from |-> s, to |-> i, round |-> rounds[s] + 1, pc |-> "spawned",
          args |-> Nil, reply |-> Nil] : i \in Server \ {s}}
    /\ UNCHANGED <<rf, voteVars, snapCalls, submitted, starts, panicked, histVars>>

(* The next section of goroutine c indexes logs out of range. *)
CallPanics(c) ==
    CASE c.pc = "spawned" -> GenAppendEntriesPanics(rf[c.from], c.to)
      [] c.pc = "reply" -> HandleAppendEntriesPanics(rf[c.from], c.to, c.reply)
      [] OTHER -> FALSE

Panic(c) ==
    /\ Up(c.from)
    /\ CallPanics(c)
    /\ panicked' = panicked \cup {c.from}
    /\ UNCHANGED <<rf, voteVars, rounds, appendCalls, snapCalls, submitted, starts,
                   histVars>>

(* genAppendEntries, first in the goroutine: the peer may have lost the     *)
(* leadership of the round meanwhile                                       *)
PrepareAppend(c) ==
    /\ c.pc = "spawned" /\ Up(c.from)
    /\ ~CallPanics(c)
    /\ appendCalls' = Advance(appendCalls, c,
            IF NeedsSnapshot(rf[c.from], c.to)
            THEN [c EXCEPT !.pc = "snapshot"]
            ELSE [c EXCEPT !.pc = "ready",
                           !.args = GenAppendEntries(rf[c.from], c.from, c.to)])
    /\ UNCHANGED <<rf, voteVars, rounds, snapCalls, submitted, starts, panicked,
                   histVars>>

(* the isLeader test in the goroutine, then the RPC is sent, or            *)
(* handleInstallSnapshot started, or nothing                               *)
SendAppend(c) ==
    /\ c.pc \in {"ready", "snapshot"} /\ Up(c.from)
    /\ LET isLeader == rf[c.from].role = "Leader"
       IN  /\ appendCalls' = IF /\ isLeader /\ c.pc = "ready"
                                /\ Reachable(c.from, c.to)
                             THEN Advance(appendCalls, c, [c EXCEPT !.pc = "request"])
                             ELSE appendCalls \ {c}
           /\ snapCalls' = IF isLeader /\ c.pc = "snapshot"
                           THEN snapCalls \cup {[c EXCEPT !.pc = "spawned"]}
                           ELSE snapCalls
           /\ Through("staleArgs", /\ isLeader /\ c.pc = "ready"
                                   /\ c.args.Term # rf[c.from].currentTerm)
    /\ UNCHANGED <<rf, voteVars, rounds, submitted, starts, panicked, grants, copyVars>>

(* entries of the leader's own term are cut off *)
CutsBack(peer, args) ==
    /\ AcceptsEntries(peer, args)
    /\ \E n \in 1..Len(peer.logs) :
        /\ n > Len(AppendEntries(peer, args).logs)
        /\ peer.logs[n].Term = args.Term

(* the AppendEntries handler (AppendEntriesPanics needs a snapshot) *)
ReceiveAppend(c) ==
    /\ c.pc = "request" /\ Up(c.to)
    /\ rf' = [rf EXCEPT ![c.to] = AppendEntries(@, c.args)]
    /\ appendCalls' = Advance(appendCalls, c,
            [c EXCEPT !.pc = "reply", !.reply = AppendEntriesReply(rf[c.to], c.args)])
    /\ Stores(c.to, AppendEntries(rf[c.to], c.args), AcceptsEntries(rf[c.to], c.args))
    /\ Through("cutBack", CutsBack(rf[c.to], c.args))
    /\ UNCHANGED <<voteVars, rounds, snapCalls, submitted, starts, panicked, grants,
                   leaderLog>>

(* handleAppendEntries *)
ReceiveAppendReply(c) ==
    /\ c.pc = "reply" /\ Up(c.from)
    /\ ~CallPanics(c)
    /\ rf' = [rf EXCEPT ![c.from] = HandleAppendEntries(@, c.from, c.to, c.args, c.reply)]
    /\ appendCalls' = appendCalls \ {c}
    /\ Through("staleReply", /\ rf[c.from].role = "Leader"
                             /\ c.args.Term # rf[c.from].currentTerm
                             /\ c.reply.Term <= rf[c.from].currentTerm)
    /\ UNCHANGED <<voteVars, rounds, snapCalls, submitted, starts, panicked, grants,
                   copyVars>>

(* Start, its GetState section *)
StartReadsTerm(s, command) ==
    /\ Up(s)
    /\ command \notin submitted
    /\ rf[s].role = "Leader"
    /\ submitted' = submitted \cup {command}
    /\ starts' = starts \cup
        {[server |-> s, term |-> rf[s].currentTerm, command |-> command]}
    /\ UNCHANGED <<rf, voteVars, rounds, appendCalls, snapCalls, panicked, histVars>>

(* Start, its append section: the peer may have lost the leadership *)
StartAppends(p) ==
    LET s == p.server
        leads == rf[s].role = "Leader" /\ rf[s].currentTerm = p.term
    IN  /\ Up(s)
        /\ rf' = [rf EXCEPT ![s] = AppendCommand(@, p.term, p.command)]
        /\ starts' = starts \ {p}
        /\ Leads(s, AppendCommand(rf[s], p.term, p.command), leads)
        /\ Through("staleStart", ~leads)
        /\ UNCHANGED <<voteVars, rounds, appendCalls, snapCalls, submitted, panicked,
                       grants>>

-----------------------------------------------------------------------------
(* handleInstallSnapshot.  The arguments are read under the lock, the      *)
(* leadership is tested again, and all that follows the reply is unlocked. *)

PrepareSnapshot(c) ==
    /\ c.pc = "spawned" /\ Up(c.from)
    /\ snapCalls' = Advance(snapCalls, c,
            [c EXCEPT !.pc = "ready",
                      !.args = GenInstallSnapshotArgs(rf[c.from], c.from)])
    /\ UNCHANGED <<rf, voteVars, rounds, appendCalls, submitted, starts, panicked,
                   histVars>>

SendSnapshot(c) ==
    /\ c.pc = "ready" /\ Up(c.from)
    /\ snapCalls' = IF rf[c.from].role = "Leader" /\ Reachable(c.from, c.to)
                    THEN Advance(snapCalls, c, [c EXCEPT !.pc = "request"])
                    ELSE snapCalls \ {c}
    /\ UNCHANGED <<rf, voteVars, rounds, appendCalls, submitted, starts, panicked,
                   histVars>>

(* the InstallSnapshot handler *)
ReceiveSnapshot(c) ==
    /\ c.pc = "request" /\ Up(c.to)
    /\ rf' = [rf EXCEPT ![c.to] = InstallSnapshot(@, c.args)]
    /\ snapCalls' = Advance(snapCalls, c,
            [c EXCEPT !.pc = "reply", !.reply = InstallSnapshotReply(rf[c.to], c.args)])
    /\ UNCHANGED <<voteVars, rounds, appendCalls, submitted, starts, panicked, histVars>>

(* if rf.role != Leader || rf.currentTerm != args.Term { return } *)
CheckSnapshotReply(c) ==
    /\ c.pc = "reply" /\ Up(c.from)
    /\ snapCalls' = IF /\ rf[c.from].role = "Leader"
                       /\ rf[c.from].currentTerm = c.args.Term
                    THEN Advance(snapCalls, c, [c EXCEPT !.pc = "checked"])
                    ELSE snapCalls \ {c}
    /\ UNCHANGED <<rf, voteVars, rounds, appendCalls, submitted, starts, panicked,
                   histVars>>

(* if reply.Term > rf.currentTerm *)
CompareSnapshotReply(c) ==
    /\ c.pc = "checked" /\ Up(c.from)
    /\ snapCalls' = Advance(snapCalls, c,
            IF c.reply.Term > rf[c.from].currentTerm
            THEN [c EXCEPT !.pc = "setTerm"]
            ELSE [c EXCEPT !.pc = "delivered"])
    /\ UNCHANGED <<rf, voteVars, rounds, appendCalls, submitted, starts, panicked,
                   histVars>>

(* if rf.nextIndex[server] <= args.LastIncludedIndex *)
CompareSnapshotIndex(c) ==
    /\ c.pc = "delivered" /\ Up(c.from)
    /\ snapCalls' = IF BehindSnapshot(rf[c.from], c.to, c.args)
                    THEN Advance(snapCalls, c, [c EXCEPT !.pc = "setNext"])
                    ELSE snapCalls \ {c}
    /\ UNCHANGED <<rf, voteVars, rounds, appendCalls, submitted, starts, panicked,
                   histVars>>

(* rf.nextIndex[server] = args.LastIncludedIndex + 1 *)
SnapshotSetsNext(c) ==
    /\ c.pc = "setNext" /\ Up(c.from)
    /\ rf' = [rf EXCEPT ![c.from].nextIndex[c.to] = c.args.LastIncludedIndex + 1]
    /\ snapCalls' = Advance(snapCalls, c, [c EXCEPT !.pc = "setMatch"])
    /\ UNCHANGED <<voteVars, rounds, appendCalls, submitted, starts, panicked, histVars>>

(* rf.matchIndex[server] = args.LastIncludedIndex *)
SnapshotSetsMatch(c) ==
    /\ c.pc = "setMatch" /\ Up(c.from)
    /\ rf' = [rf EXCEPT ![c.from].matchIndex[c.to] = c.args.LastIncludedIndex]
    /\ snapCalls' = snapCalls \ {c}
    /\ UNCHANGED <<voteVars, rounds, appendCalls, submitted, starts, panicked, histVars>>

(* rf.currentTerm = reply.Term *)
SnapshotSetsTerm(c) ==
    /\ c.pc = "setTerm" /\ Up(c.from)
    /\ rf' = [rf EXCEPT ![c.from].currentTerm = c.reply.Term]
    /\ snapCalls' = Advance(snapCalls, c, [c EXCEPT !.pc = "setRole"])
    /\ Through("unlockedStepDown", TRUE)
    /\ UNCHANGED <<voteVars, rounds, appendCalls, submitted, starts, panicked, grants,
                   copyVars>>

(* rf.convertRole(Follower) *)
SnapshotSetsRole(c) ==
    /\ c.pc = "setRole" /\ Up(c.from)
    /\ rf' = [rf EXCEPT ![c.from] = ConvertRole(@, "Follower")]
    /\ snapCalls' = Advance(snapCalls, c, [c EXCEPT !.pc = "setVote"])
    /\ UNCHANGED <<voteVars, rounds, appendCalls, submitted, starts, panicked, histVars>>

(* rf.votedFor = -1 *)
SnapshotSetsVote(c) ==
    /\ c.pc = "setVote" /\ Up(c.from)
    /\ rf' = [rf EXCEPT ![c.from].votedFor = -1]
    /\ snapCalls' = snapCalls \ {c}
    /\ UNCHANGED <<voteVars, rounds, appendCalls, submitted, starts, panicked, histVars>>

-----------------------------------------------------------------------------

PeerStep(s) ==
    \/ ElectionTimeout(s)
    \/ StartElection(s)
    \/ SendRequestVotes(s)
    \/ Heartbeat(s)
    \/ \E command \in Command : StartReadsTerm(s, command)

AppendStep(c) ==
    \/ PrepareAppend(c)
    \/ Panic(c)
    \/ SendAppend(c)
    \/ ReceiveAppend(c)
    \/ ReceiveAppendReply(c)

SnapshotStep(c) ==
    \/ PrepareSnapshot(c)
    \/ SendSnapshot(c)
    \/ ReceiveSnapshot(c)
    \/ CheckSnapshotReply(c)
    \/ CompareSnapshotReply(c)
    \/ CompareSnapshotIndex(c)
    \/ SnapshotSetsNext(c)
    \/ SnapshotSetsMatch(c)
    \/ SnapshotSetsTerm(c)
    \/ SnapshotSetsRole(c)
    \/ SnapshotSetsVote(c)

Next ==
    \/ \E s \in Server : PeerStep(s)
    \/ \E m \in voteRequests : ReceiveRequestVote(m)
    \/ \E m \in voteReplies : ReceiveVoteReply(m)
    \/ \E p \in starts : StartAppends(p)
    \/ \E c \in appendCalls : AppendStep(c)
    \/ \E c \in snapCalls : SnapshotStep(c)

Spec == Init /\ [][Next]_vars

-----------------------------------------------------------------------------

VoteRequest ==
    [from : Server, to : Server, election : Nat, args : RequestVoteArgs]

VoteReply ==
    [from : Server, to : Server, election : Nat,
     reply : RequestVoteReplies]

Goroutine(pcs, args, replies) ==
    [from : Server, to : Server, round : Nat, pc : pcs, args : args, reply : replies]

AppendCall ==
    Goroutine({"spawned", "snapshot"}, {Nil}, {Nil})
        \cup Goroutine({"ready", "request"}, AppendEntriesArgs, {Nil})
        \cup Goroutine({"reply"}, AppendEntriesArgs, AppendEntriesReplies)

SnapCall ==
    Goroutine({"spawned"}, {Nil}, {Nil})
        \cup Goroutine({"ready", "request"}, InstallSnapshotArgs, {Nil})
        \cup Goroutine({"reply", "checked", "delivered", "setNext", "setMatch",
                        "setTerm", "setRole", "setVote"},
                       InstallSnapshotArgs, [Term : Nat])

CopiesTyped ==
    /\ DOMAIN leaderLog \subseteq Nat
    /\ \A t \in DOMAIN leaderLog : leaderLog[t] \in Seq(LogEntry)
    /\ acks \subseteq [peer : Server, term : Nat, length : Nat]

(* Every variable has its type: a goroutine has arguments once it has built *)
(* them and a reply once its RPC is answered.                              *)
TypeOK ==
    /\ rf \in [Server -> Peer]
    /\ ticker \in [Server -> {"idle", "timeout", "candidate"}]
    /\ elections \in [Server -> Seq([Term : Nat, voteCount : Nat])]
    /\ voteRequests \subseteq VoteRequest
    /\ voteReplies \subseteq VoteReply
    /\ rounds \in [Server -> Nat]
    /\ appendCalls \subseteq AppendCall
    /\ snapCalls \subseteq SnapCall
    /\ submitted \subseteq Command
    /\ starts \subseteq [server : Server, term : Nat, command : Command]
    /\ panicked \subseteq Server
    /\ grants \subseteq [voter : Server, term : Nat, candidate : Server]
    /\ CopiesTyped
    /\ windows \subseteq Window

-----------------------------------------------------------------------------
(* Safety of elections *)

Leader(s) == rf[s].role = "Leader"

(* A peer casts at most one vote per term: RequestVote and startElection    *)
(* never let votedFor move from one candidate to another within a term,    *)
(* although RequestVote clears votedFor when the candidate's log is old.   *)
(* The one exception is the unlocked step-down of handleInstallSnapshot,   *)
(* which can forget a vote or a term.                                      *)
VoteOnce ==
    "unlockedStepDown" \notin windows =>
        \A g, h \in grants :
            (g.voter = h.voter /\ g.term = h.term) => g.candidate = h.candidate

(* voteCount counts each vote once: an election never counts more votes    *)
(* than the candidate's own and those other peers cast for it in its term, *)
(* however replies are delayed into later elections.                       *)
VoteCountSound ==
    \A s \in Server : \A n \in DOMAIN elections[s] :
        elections[s][n].voteCount <=
            1 + Cardinality({v \in Server \ {s} :
                    [voter |-> v, term |-> elections[s][n].Term, candidate |-> s]
                        \in grants})

(* At most one leader per term, as the tests demand (checkOneLeader,       *)
(* "term %d has %d (>1) leaders").                                         *)
ElectionSafety ==
    \A s, t \in Server :
        Leader(s) /\ Leader(t) /\ rf[s].currentTerm = rf[t].currentTerm => s = t

(* Two leaders of one term need a leader made by votes of an older term     *)
(* (the reply goroutine of startElection does not compare terms) or an     *)
(* unlocked step-down: nothing else in the election code lets them happen. *)
ElectionSafetyButWindows ==
    windows \cap {"staleElection", "unlockedStepDown"} = {} => ElectionSafety

-----------------------------------------------------------------------------
(* Safety of the log *)

Committed(s) == 1..Min({rf[s].commitIndex, LastLogicalIndex(rf[s])})

(* No two peers commit different commands at one index (checkLogs, "some    *)
(* server has already committed a different value for this entry!").       *)
StateMachineSafety ==
    \A s, t \in Server : \A n \in Committed(s) \cap Committed(t) :
        Entry(rf[s], n).Command = Entry(rf[t], n).Command

(* What the leader of the highest term counts as committed is in the logs  *)
(* of a majority: handleAppendEntries looks for the N that most followers  *)
(* have.                                                                   *)
CommittedOnMajority ==
    \A s \in Server : \A n \in Committed(s) :
        (Leader(s) /\ \A t \in Server : rf[t].currentTerm <= rf[s].currentTerm) =>
            Majority(Cardinality({t \in Server :
                /\ n <= LastLogicalIndex(rf[t])
                /\ Entry(rf[t], n) = Entry(rf[s], n)}))

(* Logs that agree on the term of an index agree up to it: AppendEntries'  *)
(* test of PrevLogTerm makes every log a copy of a leader's.               *)
LogMatching ==
    \A s, t \in Server :
        \A n \in 1..Min({LastLogicalIndex(rf[s]), LastLogicalIndex(rf[t])}) :
            Entry(rf[s], n).Term = Entry(rf[t], n).Term =>
                \A k \in 1..n : Entry(rf[s], k) = Entry(rf[t], k)

(* With every window avoided the replicated log is safe: the windows listed *)
(* above are the only ways in which this implementation loses the          *)
(* guarantees of its log.                                                  *)
LogSafetyButWindows ==
    windows = {} => LogMatching /\ StateMachineSafety /\ CommittedOnMajority

(* What a peer has committed stays in its log, in its place, and stays      *)
(* committed: no AppendEntries, however late, and no new leader replaces   *)
(* it (applyLogs hands it to the service without looking back).            *)
CommittedKept ==
    [][windows' = {} =>
        \A s \in Server :
            /\ rf[s].commitIndex <= rf'[s].commitIndex
            /\ \A n \in Committed(s) : n \in Committed(s)' /\ Entry(rf'[s], n) = Entry(rf[s], n)
      ]_vars

(* While a peer is Leader its nextIndex stays within its log, so           *)
(* genAppendEntries and the scan of handleAppendEntries index logs in      *)
(* range: only a goroutine that outlives its leadership can panic, or one  *)
(* that handles the answer to a call of an older term.                     *)
LeaderIndexInRange ==
    windows \cap {"staleReply", "unlockedStepDown"} = {} =>
        \A s \in Server : Leader(s) =>
            \A i \in Server : rf[s].nextIndex[i] <= LastLogicalIndex(rf[s]) + 1
=============================================================================
