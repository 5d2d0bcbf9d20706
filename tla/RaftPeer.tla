------------------------------ MODULE RaftPeer ------------------------------
(***************************************************************************)
(* The Raft struct of one peer (raft/raft.go) as a record, and the         *)
(* critical sections of its handlers as operators on that record: what one *)
(* acquisition of rf.mu does to the struct, and the reply it fills in.     *)
(* The modules that run peers (RaftCluster, RaftHeart, RaftApply,          *)
(* RaftPersist, RaftCatchUp) interleave these sections; nothing here is a  *)
(* step by itself.                                                         *)
(*                                                                         *)
(* Left out of the record: mu, peers, persister, applyCh, dead, me (a      *)
(* parameter here), lastUpdate (a timeout may fire whenever the role       *)
(* allows) and heartChan, which RaftHeart adds.                            *)
(***************************************************************************)
EXTENDS Integers, Sequences, FiniteSets, FiniteSetsExt

CONSTANTS
    Server,     \* the peers
    Command,    \* the commands the service submits
    Nil         \* the nil command of logs[0], and the nil snapshot

ASSUME ServerAssumption == IsFiniteSet(Server) /\ -1 \notin Server
ASSUME NilAssumption == Nil \notin Command

Role == {"Follower", "Candidate", "Leader"}

LogEntry == [Term : Nat, Command : Command \cup {Nil}]

Peer ==
    [currentTerm : Nat, votedFor : Server \cup {-1}, logs : Seq(LogEntry),
     commitIndex : Int, lastApplied : Int,
     nextIndex : [Server -> Int], matchIndex : [Server -> Int], role : Role,
     lastIncludedIndex : Int, lastIncludedTerm : Int]

RequestVoteArgs ==
    [Term : Nat, CandidateId : Server, LastLogIndex : Int, LastLogTerm : Nat]

AppendEntriesArgs ==
    [Term : Nat, LeaderId : Server, PrevLogIndex : Nat, PrevLogTerm : Nat,
     Entries : Seq(LogEntry), LeaderCommit : Int]

InstallSnapshotArgs ==
    [Term : Nat, LeaderId : Server, LastIncludedIndex : Int, LastIncludedTerm : Int]

RequestVoteReplies == [Term : Nat, VoteGranted : BOOLEAN]

AppendEntriesReplies ==
    [Term : Nat, Success : BOOLEAN, ConflictIndex : Int, ConflictTerm : Nat]

(* Make, on an empty persister *)
Make ==
    [currentTerm |-> 0, votedFor |-> -1,
     logs |-> <<[Term |-> 0, Command |-> Nil]>>,
     commitIndex |-> 0, lastApplied |-> 0,
     nextIndex |-> [i \in Server |-> 0], matchIndex |-> [i \in Server |-> 0],
     role |-> "Follower", lastIncludedIndex |-> 0, lastIncludedTerm |-> 0]

-----------------------------------------------------------------------------
(* Log indices.  logs is 0-based in the code: logs[i] is Entry(rf, i).     *)

LastStorageIndex(rf) == Len(rf.logs) - 1

LastLogicalIndex(rf) == Len(rf.logs) - 1 + rf.lastIncludedIndex

StorageIndex(rf, logicalIndex) == logicalIndex - rf.lastIncludedIndex

LogicalIndex(rf, storageIndex) == storageIndex + rf.lastIncludedIndex

Entry(rf, storageIndex) == rf.logs[storageIndex + 1]

LastLogTerm(rf) == Entry(rf, LastStorageIndex(rf)).Term

(* Mutant: any log is up to date. *)
AnyLogUpToDate(rf, prevLogTerm, prevLogIndex) == TRUE

IsLogUpToDate(rf, prevLogTerm, prevLogIndex) ==
    IF prevLogTerm = LastLogTerm(rf)
    THEN prevLogIndex >= LastLogicalIndex(rf)
    ELSE prevLogTerm > LastLogTerm(rf)

Majority(count) == count > Cardinality(Server) \div 2

-----------------------------------------------------------------------------
(* Roles and terms *)

ConvertRole(rf, role) ==
    IF role = "Leader"
    THEN [rf EXCEPT !.role = role,
                    !.nextIndex = [i \in Server |-> LastLogicalIndex(rf) + 1],
                    !.matchIndex = [i \in Server |-> -1]]
    ELSE [rf EXCEPT !.role = role]

(* Mutant: votedFor is reset to 0, a peer's number, instead of -1. *)
StepDownVotingZero(rf, term) ==
    [ConvertRole(rf, "Follower") EXCEPT !.currentTerm = term, !.votedFor = 0]

(* A newer term is adopted as a follower that has not voted in it. *)
StepDown(rf, term) ==
    [ConvertRole(rf, "Follower") EXCEPT !.currentTerm = term, !.votedFor = -1]

ObserveTerm(rf, term) ==
    IF term > rf.currentTerm THEN StepDown(rf, term) ELSE rf

-----------------------------------------------------------------------------
(* Elections *)

(* the locked section of startElection *)
BecomeCandidate(rf, me) ==
    [ConvertRole(rf, "Candidate") EXCEPT !.currentTerm = @ + 1, !.votedFor = me]

GenRequestVoteArgs(rf, me) ==
    [Term |-> rf.currentTerm, CandidateId |-> me,
     LastLogIndex |-> LastLogicalIndex(rf), LastLogTerm |-> LastLogTerm(rf)]

(* Mutant: votedFor is not tested. *)
RefusesOldTermOnly(rf, args) == args.Term < rf.currentTerm

RefusesVote(rf, args) ==
    \/ args.Term < rf.currentTerm
    \/ /\ args.Term = rf.currentTerm
       /\ rf.votedFor \notin {-1, args.CandidateId}

GrantsVote(rf, args) ==
    /\ ~RefusesVote(rf, args)
    /\ IsLogUpToDate(rf, args.LastLogTerm, args.LastLogIndex)

RequestVote(rf, args) ==
    IF RefusesVote(rf, args) THEN rf
    ELSE [ObserveTerm(rf, args.Term) EXCEPT
             !.votedFor = IF GrantsVote(rf, args) THEN args.CandidateId ELSE -1]

RequestVoteReply(rf, args) ==
    [Term |-> RequestVote(rf, args).currentTerm,
     VoteGranted |-> GrantsVote(rf, args)]

(* Mutant: every answer to a candidate counts as a vote. *)
CountsAnyReply(rf, reply) == rf.role = "Candidate"

(* The reply goroutine of startElection: voteCount is the counter its      *)
(* closure shares with the other goroutines of the same election.          *)
CountsVote(rf, reply) == rf.role = "Candidate" /\ reply.VoteGranted

(* Mutant: a refusal completes the majority as well. *)
HandleVoteReplyUnread(rf, reply, voteCount) ==
    IF rf.role = "Candidate" /\ Majority(voteCount + 1) THEN ConvertRole(rf, "Leader")
    ELSE ObserveTerm(rf, reply.Term)

HandleVoteReply(rf, reply, voteCount) ==
    IF CountsVote(rf, reply)
    THEN IF Majority(voteCount + 1) THEN ConvertRole(rf, "Leader") ELSE rf
    ELSE ObserveTerm(rf, reply.Term)

-----------------------------------------------------------------------------
(* Log replication: the leader *)

NeedsSnapshot(rf, server) == rf.nextIndex[server] - 1 < rf.lastIncludedIndex

(* logs[index] and logs[nextIndex:] are out of range *)
GenAppendEntriesPanics(rf, server) ==
    /\ ~NeedsSnapshot(rf, server)
    /\ StorageIndex(rf, rf.nextIndex[server] - 1) > LastStorageIndex(rf)

GenAppendEntries(rf, me, server) ==
    LET index == StorageIndex(rf, rf.nextIndex[server] - 1)
    IN  [Term |-> rf.currentTerm, LeaderId |-> me,
         PrevLogIndex |-> rf.nextIndex[server] - 1,
         PrevLogTerm |-> Entry(rf, index).Term,
         Entries |-> SubSeq(rf.logs, index + 2, Len(rf.logs)),
         LeaderCommit |-> rf.commitIndex]

(* nextIndex after a rejection: the newest own entry of the conflicting    *)
(* term if there is one, else the follower's hint.  (The first alternative *)
(* stores a storage index, as the code does.)                              *)
BackedUpNextIndex(rf, server, reply) ==
    LET start == StorageIndex(rf, rf.nextIndex[server] - 1)
        older == {i \in 0..start : Entry(rf, i).Term <= reply.ConflictTerm}
    IN  IF /\ reply.ConflictTerm # 0
           /\ older # {}
           /\ Entry(rf, Max(older)).Term = reply.ConflictTerm
        THEN Max(older) + 1
        ELSE reply.ConflictIndex

(* the scan reads logs[start] *)
HandleAppendEntriesPanics(rf, server, reply) ==
    /\ rf.role = "Leader"
    /\ reply.Term <= rf.currentTerm
    /\ ~reply.Success
    /\ reply.ConflictTerm # 0
    /\ StorageIndex(rf, rf.nextIndex[server] - 1) > LastStorageIndex(rf)

(* Mutant: a follower that lacks just the entry n is counted. *)
MatchCountOffByOne(rf, me, n) ==
    IF Entry(rf, StorageIndex(rf, n)).Term = rf.currentTerm
    THEN 1 + Cardinality({i \in Server \ {me} : rf.matchIndex[i] >= n - 1})
    ELSE 1

MatchCount(rf, me, n) ==
    IF Entry(rf, StorageIndex(rf, n)).Term = rf.currentTerm
    THEN 1 + Cardinality({i \in Server \ {me} : rf.matchIndex[i] >= n})
    ELSE 1

Committable(rf, me) ==
    {n \in (rf.commitIndex + 1)..LastLogicalIndex(rf) :
        Majority(MatchCount(rf, me, n))}

CommitMatched(rf, me) ==
    IF Committable(rf, me) = {} THEN rf
    ELSE [rf EXCEPT !.commitIndex = Max(Committable(rf, me))]

(* Mutant: nextIndex moves one past the end of the log. *)
HandleAppendEntriesSkips(rf, me, server, args, reply) ==
    IF rf.role # "Leader" THEN rf
    ELSE IF reply.Term > rf.currentTerm THEN StepDown(rf, reply.Term)
    ELSE IF ~reply.Success
    THEN [rf EXCEPT !.nextIndex[server] = BackedUpNextIndex(rf, server, reply)]
    ELSE CommitMatched(
            [rf EXCEPT !.nextIndex[server] = LastLogicalIndex(rf) + 2,
                       !.matchIndex[server] = args.PrevLogIndex + Len(args.Entries)],
            me)

HandleAppendEntries(rf, me, server, args, reply) ==
    IF rf.role # "Leader" THEN rf
    ELSE IF reply.Term > rf.currentTerm THEN StepDown(rf, reply.Term)
    ELSE IF ~reply.Success
    THEN [rf EXCEPT !.nextIndex[server] = BackedUpNextIndex(rf, server, reply)]
    ELSE CommitMatched(
            [rf EXCEPT !.nextIndex[server] = LastLogicalIndex(rf) + 1,
                       !.matchIndex[server] = args.PrevLogIndex + Len(args.Entries)],
            me)

(* the locked section of Start: the term was read in an earlier section *)
AppendCommand(rf, term, command) ==
    [rf EXCEPT !.logs = Append(@, [Term |-> term, Command |-> command])]

-----------------------------------------------------------------------------
(* Log replication: the follower *)

PrevBeyondLog(rf, args) == args.PrevLogIndex > LastLogicalIndex(rf)

PrevConflicts(rf, args) ==
    LET index == StorageIndex(rf, args.PrevLogIndex)
    IN  index > 0 /\ Entry(rf, index).Term # args.PrevLogTerm

AcceptsEntries(rf, args) ==
    /\ args.Term >= rf.currentTerm
    /\ ~PrevBeyondLog(rf, args)
    /\ ~PrevConflicts(rf, args)

(* logs[:index+1] with index+1 < 0 *)
AppendEntriesPanics(rf, args) ==
    AcceptsEntries(rf, args) /\ StorageIndex(rf, args.PrevLogIndex) < -1

(* The log is cut right after PrevLogIndex whatever follows it there. *)
StoreEntries(rf, args) ==
    [rf EXCEPT !.logs =
        SubSeq(@, 1, StorageIndex(rf, args.PrevLogIndex) + 1) \o args.Entries]

FollowCommit(rf, leaderCommit) ==
    IF leaderCommit > rf.commitIndex
    THEN [rf EXCEPT !.commitIndex = Min({leaderCommit, LastLogicalIndex(rf)})]
    ELSE rf

AppendEntries(rf, args) ==
    IF args.Term < rf.currentTerm THEN rf
    ELSE LET heard == ConvertRole(ObserveTerm(rf, args.Term), "Follower")
         IN  IF AcceptsEntries(rf, args)
             THEN FollowCommit(StoreEntries(heard, args), args.LeaderCommit)
             ELSE heard

(* The first index of the run of terms >= ConflictTerm that ends at index. *)
FirstOfConflict(rf, index) ==
    1 + Max({0} \cup {i \in 1..index : Entry(rf, i).Term < Entry(rf, index).Term})

AppendEntriesReply(rf, args) ==
    LET index == StorageIndex(rf, args.PrevLogIndex)
        reply(t, s, i, c) ==
            [Term |-> t, Success |-> s, ConflictIndex |-> i, ConflictTerm |-> c]
    IN  CASE args.Term < rf.currentTerm -> reply(rf.currentTerm, FALSE, 0, 0)
          [] args.Term >= rf.currentTerm /\ PrevBeyondLog(rf, args) ->
                reply(args.Term, FALSE, LastLogicalIndex(rf), 0)
          [] args.Term >= rf.currentTerm /\ ~PrevBeyondLog(rf, args)
                                         /\ PrevConflicts(rf, args) ->
                reply(args.Term, FALSE,
                      LogicalIndex(rf, FirstOfConflict(rf, index)),
                      Entry(rf, index).Term)
          [] AcceptsEntries(rf, args) -> reply(args.Term, TRUE, 0, 0)

-----------------------------------------------------------------------------
(* Snapshots of the own service *)

(* Mutant: the entry at index stays behind the marker. *)
TrimTooLittle(rf, index) ==
    LET term == Entry(rf, StorageIndex(rf, index)).Term
    IN  [rf EXCEPT
            !.logs = <<[Term |-> term, Command |-> Nil]>> \o
                     SubSeq(@, StorageIndex(rf, index) + 1, Len(@)),
            !.lastIncludedIndex = index,
            !.lastIncludedTerm = term]

(* Snapshot: the log from index on stays, its first entry as the marker *)
TrimLogs(rf, index) ==
    LET term == Entry(rf, StorageIndex(rf, index)).Term
    IN  [rf EXCEPT
            !.logs = <<[Term |-> term, Command |-> Nil]>> \o
                     SubSeq(@, StorageIndex(rf, index) + 2, Len(@)),
            !.lastIncludedIndex = index,
            !.lastIncludedTerm = term]

-----------------------------------------------------------------------------
(* Snapshots sent to a follower *)

GenInstallSnapshotArgs(rf, me) ==
    [Term |-> rf.currentTerm, LeaderId |-> me,
     LastIncludedIndex |-> rf.lastIncludedIndex,
     LastIncludedTerm |-> rf.lastIncludedTerm]

(* Mutant: what is applied beyond the last snapshot does not count. *)
DiscardsOlderSnapshot(rf, args) == args.LastIncludedIndex <= rf.lastIncludedIndex

DiscardsSnapshot(rf, args) ==
    \/ args.LastIncludedIndex <= rf.lastIncludedIndex
    \/ args.LastIncludedIndex <= rf.lastApplied

(* The log that stays behind the installed snapshot.  logs[0] keeps no     *)
(* command; its term is LastIncludedTerm in one branch and 0 in the other. *)
LogBehindSnapshot(rf, args) ==
    IF LastLogicalIndex(rf) <= args.LastIncludedIndex
    THEN <<[Term |-> args.LastIncludedTerm, Command |-> Nil]>>
    ELSE <<[Term |-> 0, Command |-> Nil]>> \o
         SubSeq(rf.logs, StorageIndex(rf, args.LastIncludedIndex) + 2, Len(rf.logs))

(* Mutant: commitIndex is left behind the snapshot. *)
InstallSnapshotUncommitted(rf, args) ==
    IF args.Term < rf.currentTerm THEN rf
    ELSE LET heard == ObserveTerm(rf, args.Term)
         IN  IF DiscardsSnapshot(rf, args) THEN heard
             ELSE [heard EXCEPT
                      !.logs = LogBehindSnapshot(rf, args),
                      !.lastIncludedIndex = args.LastIncludedIndex,
                      !.lastIncludedTerm = args.LastIncludedTerm,
                      !.lastApplied = args.LastIncludedIndex]

InstallSnapshot(rf, args) ==
    IF args.Term < rf.currentTerm THEN rf
    ELSE LET heard == ObserveTerm(rf, args.Term)
         IN  IF DiscardsSnapshot(rf, args) THEN heard
             ELSE [heard EXCEPT
                      !.logs = LogBehindSnapshot(rf, args),
                      !.lastIncludedIndex = args.LastIncludedIndex,
                      !.lastIncludedTerm = args.LastIncludedTerm,
                      !.lastApplied = args.LastIncludedIndex,
                      !.commitIndex = Max({@, args.LastIncludedIndex})]

(* reply.Term stays 0 when the terms are equal *)
InstallSnapshotReply(rf, args) ==
    [Term |-> IF args.Term = rf.currentTerm THEN 0
              ELSE Max({args.Term, rf.currentTerm})]

(* handleInstallSnapshot after the reply: the follower's indices are raised *)
BehindSnapshot(rf, server, args) == rf.nextIndex[server] <= args.LastIncludedIndex
=============================================================================
