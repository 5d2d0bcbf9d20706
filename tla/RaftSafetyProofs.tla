-------------------------- MODULE RaftSafetyProofs --------------------------
(***************************************************************************)
(* Every action of RaftCluster, taken through none of the windows it       *)
(* names, is one of the kinds of step that RaftLogProofs shows to keep the *)
(* replicated log safe and what is committed.                              *)
(***************************************************************************)
EXTENDS RaftClusterProofs, RaftLogProofs

(* Most facts are first-order; the ones with arithmetic name SMTT. *)
USE ZenonT(30)

-----------------------------------------------------------------------------
(* What the critical sections of RaftPeer do to log, commitIndex and role *)

(* Reacting to a term is idle, ... *)
LEMMA ObserveIdle ==
    ASSUME NEW p \in Unsnapped, NEW term \in Nat
    PROVE  Idle(p, ObserveTerm(p, term))
BY IdleReflexive DEF ObserveTerm, StepDown, ConvertRole, Idle, Unsnapped, Peer

(* ... so is voting, ... *)
LEMMA VoteIdle ==
    ASSUME NEW p \in Unsnapped, NEW args \in RequestVoteArgs
    PROVE  Idle(p, RequestVote(p, args))
<1>1. args.Term \in Nat
  BY DEF RequestVoteArgs
<1>2. PICK o : o = ObserveTerm(p, args.Term)
  OBVIOUS
<1>3. Idle(p, o) /\ o \in Peer
  BY <1>1, <1>2, ObserveIdle, ObserveTermQuiet, IdleReflexive DEF Quiet, Unsnapped
<1>4. PICK v : v = IF GrantsVote(p, args) THEN args.CandidateId ELSE -1
  OBVIOUS
<1>5. Idle(p, [o EXCEPT !.votedFor = v])
  BY <1>3 DEF Idle, Peer
<1> QED
  BY <1>2, <1>4, <1>5, IdleReflexive DEF RequestVote

(* ... becoming a Candidate, ... *)
LEMMA CandidateIdle ==
    ASSUME NEW p \in Unsnapped, NEW me \in Server
    PROVE  Idle(p, BecomeCandidate(p, me))
<1>1. p.currentTerm + 1 > p.currentTerm
  BY SMTT(30) DEF Unsnapped, Peer
<1> QED
  BY <1>1 DEF BecomeCandidate, ConvertRole, Idle, Unsnapped, Peer

(* ... and counting a vote that completes no majority. *)
LEMMA VoteReplyIdle ==
    ASSUME NEW p \in Unsnapped, NEW reply \in RequestVoteReplies, NEW voteCount,
           ~(CountsVote(p, reply) /\ Majority(voteCount + 1))
    PROVE  Idle(p, HandleVoteReply(p, reply, voteCount))
<1>1. reply.Term \in Nat
  BY DEF RequestVoteReplies
<1> QED
  BY <1>1, ObserveIdle, IdleReflexive DEF HandleVoteReply

(* A new Leader has matched nothing. *)
LEMMA WinFields ==
    ASSUME NEW p \in Unsnapped, NEW reply, NEW voteCount,
           CountsVote(p, reply), Majority(voteCount + 1)
    PROVE  LET q == HandleVoteReply(p, reply, voteCount)
           IN  /\ p.role = "Candidate" /\ q.role = "Leader" /\ q.currentTerm = p.currentTerm
               /\ q.logs = p.logs /\ q.commitIndex = p.commitIndex
               /\ \A i \in Server : q.matchIndex[i] = -1
BY DEF HandleVoteReply, CountsVote, ConvertRole, Unsnapped, Peer

(* Refusing entries is idle in a peer that does not lead their term. *)
LEMMA RefuseIdle ==
    ASSUME NEW p \in Unsnapped, NEW args \in AppendEntriesArgs, ~AcceptsEntries(p, args),
           args.Term = p.currentTerm => p.role # "Leader"
    PROVE  Idle(p, AppendEntries(p, args))
<1>1. args.Term \in Nat /\ p.currentTerm \in Nat /\ p \in Peer
  BY DEF AppendEntriesArgs, Unsnapped, Peer
<1>2. CASE args.Term < p.currentTerm
  BY <1>2, IdleReflexive DEF AppendEntries
<1>3. CASE args.Term > p.currentTerm
  BY <1>1, <1>3 DEF AppendEntries, ObserveTerm, StepDown, ConvertRole, Idle, Peer
<1>4. CASE args.Term = p.currentTerm
  BY <1>1, <1>4 DEF AppendEntries, ObserveTerm, ConvertRole, Idle, Peer
<1> QED
  BY <1>1, <1>2, <1>3, <1>4, SMTT(30)

(* The beginning of a log with other entries put after it. *)
LEMMA SpliceProperties ==
    ASSUME NEW S, NEW l \in Seq(S), NEW n \in 1..Len(l), NEW e \in Seq(S)
    PROVE  LET m == SubSeq(l, 1, n) \o e
           IN  /\ m \in Seq(S) /\ Len(m) = n + Len(e)
               /\ \A k \in 1..n : m[k] = l[k]
               /\ \A j \in 1..Len(e) : m[n + j] = e[j]
<1>1. Len(l) \in Nat /\ Len(e) \in Nat /\ n \in Nat /\ \A k \in 1..n : l[k] \in S
  BY SMTT(30)
<1>2. PICK f : f = SubSeq(l, 1, n)
  OBVIOUS
<1>3. f \in Seq(S) /\ Len(f) = n /\ \A k \in 1..n : f[k] = l[k]
  BY <1>1, <1>2, SMTT(30)
<1>4. f \o e \in Seq(S) /\ Len(f \o e) = n + Len(e)
  BY <1>3, SMTT(30)
<1>5. \A k \in 1..n : (f \o e)[k] = l[k]
  BY <1>1, <1>3, SMTT(30)
<1>6. \A j \in 1..Len(e) : (f \o e)[n + j] = e[j]
  BY <1>1, <1>3, SMTT(30)
<1> QED
  BY <1>2, <1>4, <1>5, <1>6

(* The log of a peer that accepts entries: its own up to PrevLogIndex, then *)
(* the entries, nothing after them.                                        *)
LEMMA AcceptFields ==
    ASSUME NEW p \in Unsnapped, NEW args \in AppendEntriesArgs, AcceptsEntries(p, args)
    PROVE  LET q == AppendEntries(p, args)
               prev == args.PrevLogIndex + 1
               m == q.logs
           IN  /\ p.currentTerm <= args.Term /\ q.currentTerm = args.Term
               /\ q.role = "Follower"
               /\ prev <= Len(p.logs) /\ (prev > 1 => p.logs[prev].Term = args.PrevLogTerm)
               /\ m \in Seq(LogEntry) /\ Len(m) = prev + Len(args.Entries)
               /\ \A k \in 1..prev : m[k] = p.logs[k]
               /\ \A j \in 1..Len(args.Entries) : m[prev + j] = args.Entries[j]
               /\ \/ q.commitIndex = p.commitIndex
                  \/ /\ q.commitIndex <= args.LeaderCommit /\ q.commitIndex < Len(m)
                     /\ p.commitIndex < q.commitIndex \/ q.commitIndex = Len(m) - 1
<1> DEFINE prev == args.PrevLogIndex + 1
           h == ConvertRole(ObserveTerm(p, args.Term), "Follower")
           m == SubSeq(p.logs, 1, prev) \o args.Entries
           e == [h EXCEPT !.logs = m]
<1>1. /\ args.Term \in Nat /\ args.PrevLogIndex \in Nat /\ args.Entries \in Seq(LogEntry)
      /\ Len(args.Entries) \in Nat /\ args.LeaderCommit \in Int
  BY LenProperties DEF AppendEntriesArgs
<1>2. /\ p \in Peer /\ p.currentTerm \in Nat /\ p.logs \in Seq(LogEntry)
      /\ p.commitIndex \in Int /\ p.lastIncludedIndex = 0 /\ Len(p.logs) \in Nat
      /\ \A k \in 1..Len(p.logs) : p.logs[k] \in LogEntry
  BY LenProperties, ElementOfSeq DEF Unsnapped, Peer
<1>3. /\ p.currentTerm <= args.Term /\ prev <= Len(p.logs)
      /\ prev > 1 => p.logs[prev].Term = args.PrevLogTerm
  BY <1>1, <1>2, SMTT(30) DEF AcceptsEntries, PrevBeyondLog, PrevConflicts, LastLogicalIndex,
                    StorageIndex, Entry
<1>4. /\ h \in Peer /\ h.role = "Follower" /\ h.currentTerm = args.Term /\ h.logs = p.logs
      /\ h.commitIndex = p.commitIndex /\ h.lastIncludedIndex = 0
  <2>1. PICK o : o = ObserveTerm(p, args.Term)
    OBVIOUS
  <2>2. /\ o \in Peer /\ o.currentTerm = args.Term /\ o.logs = p.logs
        /\ o.commitIndex = p.commitIndex /\ o.lastIncludedIndex = 0
    <3>1. CASE args.Term > p.currentTerm
      BY <1>1, <1>2, <2>1, <3>1 DEF ObserveTerm, StepDown, ConvertRole, Peer, Role
    <3>2. CASE args.Term = p.currentTerm
      BY <1>2, <2>1, <3>2, SMTT(30) DEF ObserveTerm
    <3> QED
      BY <1>1, <1>2, <1>3, <3>1, <3>2, SMTT(30)
  <2> QED
    BY <2>1, <2>2 DEF ConvertRole, Peer, Role
<1>5. /\ m \in Seq(LogEntry) /\ Len(m) = prev + Len(args.Entries)
      /\ \A k \in 1..prev : m[k] = p.logs[k]
      /\ \A j \in 1..Len(args.Entries) : m[prev + j] = args.Entries[j]
  <2>1. prev \in 1..Len(p.logs)
    BY <1>1, <1>2, <1>3, SMTT(30)
  <2> HIDE DEF prev
  <2> QED
    BY <1>1, <1>2, <2>1, SpliceProperties, SMTT(30)
<1>6. StoreEntries(h, args) = e
  <2>1. StorageIndex(h, args.PrevLogIndex) = args.PrevLogIndex
    BY <1>1, <1>4, SMTT(30) DEF StorageIndex
  <2> QED
    BY <1>4, <2>1 DEF StoreEntries
<1> HIDE DEF prev, h, m
<1>7. /\ e.role = "Follower" /\ e.currentTerm = args.Term /\ e.logs = m
      /\ e.commitIndex = p.commitIndex /\ e.lastIncludedIndex = 0 /\ e \in Peer
  <2>1. ASSUME NEW x \in Peer, NEW y \in Seq(LogEntry)
        PROVE  LET z == [x EXCEPT !.logs = y]
               IN  /\ z.role = x.role /\ z.currentTerm = x.currentTerm /\ z.logs = y
                   /\ z.commitIndex = x.commitIndex
                   /\ z.lastIncludedIndex = x.lastIncludedIndex /\ z \in Peer
    BY DEF Peer
  <2> HIDE DEF e
  <2>2. e = [h EXCEPT !.logs = m] /\ m \in Seq(LogEntry)
    BY <1>5 DEF e
  <2> QED
    BY <1>4, <2>1, <2>2
<1> HIDE DEF e
<1>8. AppendEntries(p, args) = FollowCommit(e, args.LeaderCommit)
  BY <1>1, <1>2, <1>3, <1>6, SMTT(30) DEF AppendEntries, h
<1>9. Len(m) \in Nat /\ prev \in Nat
  BY <1>1, <1>5, SMTT(30) DEF prev
<1>10. /\ LastLogicalIndex(e) = Len(m) - 1
       /\ Min({args.LeaderCommit, Len(m) - 1}) = IF args.LeaderCommit <= Len(m) - 1
                                                 THEN args.LeaderCommit ELSE Len(m) - 1
  <2>1. LastLogicalIndex(e) = Len(m) - 1
    BY <1>7, <1>9, SMTT(30) DEF LastLogicalIndex
  <2>2. args.LeaderCommit \in Int /\ Len(m) - 1 \in Int
    BY <1>1, <1>9, SMTT(30)
  <2> QED
    BY <2>1, <2>2, MaxMinOfTwo
<1>11. LET q == AppendEntries(p, args)
       IN  /\ q.role = "Follower" /\ q.currentTerm = args.Term /\ q.logs = m
           /\ \/ q.commitIndex = p.commitIndex
              \/ /\ q.commitIndex <= args.LeaderCommit /\ q.commitIndex < Len(m)
                 /\ p.commitIndex < q.commitIndex \/ q.commitIndex = Len(m) - 1
  <2>1. CASE args.LeaderCommit > p.commitIndex
    <3>1. AppendEntries(p, args) =
            [e EXCEPT !.commitIndex = Min({args.LeaderCommit, Len(m) - 1})]
      BY <1>7, <1>8, <1>10, <2>1 DEF FollowCommit
    <3>2. PICK n : n = Min({args.LeaderCommit, Len(m) - 1})
      OBVIOUS
    <3>3. /\ n <= args.LeaderCommit /\ n < Len(m)
          /\ p.commitIndex < n \/ n = Len(m) - 1
      BY <1>1, <1>2, <1>9, <1>10, <2>1, <3>2, SMTT(30)
    <3>4. LET q == [e EXCEPT !.commitIndex = n]
          IN  /\ q.role = e.role /\ q.currentTerm = e.currentTerm /\ q.logs = e.logs
              /\ q.commitIndex = n
      BY <1>7 DEF Peer
    <3> QED
      BY <1>7, <3>1, <3>2, <3>3, <3>4
  <2>2. CASE ~(args.LeaderCommit > p.commitIndex)
    BY <1>7, <1>8, <2>2 DEF FollowCommit
  <2> QED
    BY <2>1, <2>2
<1> QED
  BY <1>3, <1>5, <1>11 DEF prev

(* An answer that is late, or negative, is idle. *)
LEMMA ReplyIdle ==
    ASSUME NEW p \in Unsnapped, NEW me, NEW server, NEW args,
           NEW reply \in AppendEntriesReplies,
           ~(p.role = "Leader" /\ reply.Term <= p.currentTerm /\ reply.Success)
    PROVE  Idle(p, HandleAppendEntries(p, me, server, args, reply))
<1>1. p \in Peer /\ reply.Term \in Nat /\ p.currentTerm \in Nat
  BY DEF AppendEntriesReplies, Unsnapped, Peer
<1>2. CASE p.role # "Leader"
  BY <1>2, IdleReflexive DEF HandleAppendEntries
<1>3. CASE p.role = "Leader" /\ reply.Term > p.currentTerm
  BY <1>1, <1>3 DEF HandleAppendEntries, StepDown, ConvertRole, Idle, Peer
<1>4. CASE p.role = "Leader" /\ ~(reply.Term > p.currentTerm) /\ ~reply.Success
  <2>1. PICK next : next = [p.nextIndex EXCEPT ![server] = BackedUpNextIndex(p, server, reply)]
    OBVIOUS
  <2>2. HandleAppendEntries(p, me, server, args, reply) = [p EXCEPT !.nextIndex = next]
    BY <1>1, <1>4, <2>1 DEF HandleAppendEntries, Peer
  <2> QED
    BY <1>1, <2>2 DEF Idle, Peer
<1> QED
  BY <1>1, <1>2, <1>3, <1>4, SMTT(30)

(* The commit loop: commitIndex moves to an entry of the current term that *)
(* a majority has matched.                                                 *)
LEMMA CommitMatchedFields ==
    ASSUME NEW p \in Unsnapped, NEW me \in Server, ~Majority(1)
    PROVE  LET q == CommitMatched(p, me)
           IN  /\ q.role = p.role /\ q.currentTerm = p.currentTerm /\ q.logs = p.logs
               /\ q.matchIndex = p.matchIndex
               /\ \/ q.commitIndex = p.commitIndex
                  \/ /\ q.commitIndex > p.commitIndex
                     /\ q.commitIndex >= 1 =>
                         /\ q.commitIndex + 1 \in 1..Len(p.logs)
                         /\ p.logs[q.commitIndex + 1].Term = p.currentTerm
                         /\ Majority(1 + Cardinality({i \in Server \ {me} :
                                                        p.matchIndex[i] >= q.commitIndex}))
<1>1. p \in Peer /\ p.commitIndex \in Int /\ p.lastIncludedIndex = 0 /\ Len(p.logs) \in Nat
  BY LenProperties DEF Unsnapped, Peer
<1>2. CASE Committable(p, me) = {}
  BY <1>2 DEF CommitMatched
<1>3. CASE Committable(p, me) # {}
  <2>1. PICK n : n = Max(Committable(p, me))
    OBVIOUS
  <2>2. LastLogicalIndex(p) = Len(p.logs) - 1 /\ LastLogicalIndex(p) \in Int
    BY <1>1, SMTT(30) DEF LastLogicalIndex
  <2>3. n \in Committable(p, me)
    <3>1. p.commitIndex + 1 \in Int
      BY <1>1, SMTT(30)
    <3>2. Committable(p, me) \in SUBSET ((p.commitIndex + 1)..LastLogicalIndex(p))
      BY DEF Committable
    <3> QED
      BY <1>3, <2>1, <2>2, <3>1, <3>2, MaxOfIndices
  <2>4. n \in (p.commitIndex + 1)..LastLogicalIndex(p) /\ Majority(MatchCount(p, me, n))
    BY <2>3 DEF Committable
  <2>5. n \in Int /\ n > p.commitIndex /\ n <= Len(p.logs) - 1
    BY <1>1, <2>2, <2>4, SMTT(30)
  <2>6. Entry(p, StorageIndex(p, n)) = p.logs[n + 1]
    BY <1>1, <2>5, SMTT(30) DEF Entry, StorageIndex
  <2>7. /\ p.logs[n + 1].Term = p.currentTerm
        /\ Majority(1 + Cardinality({i \in Server \ {me} : p.matchIndex[i] >= n}))
    BY <2>4, <2>6 DEF MatchCount
  <2>8. n >= 1 => n + 1 \in 1..Len(p.logs)
    BY <1>1, <2>5, SMTT(30)
  <2>9. LET q == [p EXCEPT !.commitIndex = n]
        IN  /\ q.role = p.role /\ q.currentTerm = p.currentTerm /\ q.logs = p.logs
            /\ q.matchIndex = p.matchIndex /\ q.commitIndex = n
    BY <1>1 DEF Peer
  <2>10. CommitMatched(p, me) = [p EXCEPT !.commitIndex = n]
    BY <1>3, <2>1 DEF CommitMatched
  <2> QED
    BY <2>5, <2>7, <2>8, <2>9, <2>10
<1> QED
  BY <1>2, <1>3

(* A positive answer of server raises its matchIndex, and commits. *)
CountsAnswer(p, q, me, server, args) ==
    /\ q.role = "Leader" /\ q.currentTerm = p.currentTerm /\ q.logs = p.logs
    /\ args.PrevLogIndex + Len(args.Entries) \in Int
    /\ \A i \in Server :
        \/ q.matchIndex[i] = p.matchIndex[i]
        \/ i = server /\ q.matchIndex[i] = args.PrevLogIndex + Len(args.Entries)
    /\ \/ q.commitIndex = p.commitIndex
       \/ /\ q.commitIndex > p.commitIndex
          /\ q.commitIndex >= 1 =>
              /\ q.commitIndex + 1 \in 1..Len(p.logs)
              /\ p.logs[q.commitIndex + 1].Term = p.currentTerm
              /\ Majority(1 + Cardinality({i \in Server \ {me} :
                                             q.matchIndex[i] >= q.commitIndex}))

LEMMA ReplyFields ==
    ASSUME NEW p \in Unsnapped, NEW me \in Server, NEW server \in Server,
           NEW args \in AppendEntriesArgs, NEW reply, ~Majority(1),
           p.role = "Leader", ~(reply.Term > p.currentTerm), reply.Success
    PROVE  CountsAnswer(p, HandleAppendEntries(p, me, server, args, reply), me, server, args)
<1>1. /\ p \in Peer /\ p.nextIndex \in [Server -> Int] /\ p.matchIndex \in [Server -> Int]
      /\ Len(p.logs) > 0 /\ p.lastIncludedIndex = 0 /\ p.logs \in Seq(LogEntry)
  BY DEF Unsnapped, Peer
<1>2. PICK last : last = LastLogicalIndex(p) + 1
  OBVIOUS
<1>3. PICK n : n = args.PrevLogIndex + Len(args.Entries)
  OBVIOUS
<1>4. last \in Int /\ n \in Int
  BY <1>1, <1>2, <1>3, LenProperties, SMTT(30) DEF LastLogicalIndex, AppendEntriesArgs
<1>5. PICK next : next = [p.nextIndex EXCEPT ![server] = last]
  OBVIOUS
<1>6. PICK match : match = [p.matchIndex EXCEPT ![server] = n]
  OBVIOUS
<1>7. PICK r : r = [p EXCEPT !.nextIndex = next, !.matchIndex = match]
  OBVIOUS
<1>8. next \in [Server -> Int] /\ match \in [Server -> Int]
  BY <1>1, <1>4, <1>5, <1>6
<1>9. /\ r \in Unsnapped /\ r.role = p.role /\ r.currentTerm = p.currentTerm
      /\ r.logs = p.logs /\ r.commitIndex = p.commitIndex /\ r.matchIndex = match
  BY <1>1, <1>7, <1>8 DEF Unsnapped, Peer
<1>10. HandleAppendEntries(p, me, server, args, reply) = CommitMatched(r, me)
  BY <1>1, <1>2, <1>3, <1>5, <1>6, <1>7 DEF HandleAppendEntries, Peer
<1>11. \A i \in Server : match[i] = p.matchIndex[i] \/ (i = server /\ match[i] = n)
  BY <1>1, <1>6
<1>12. PICK q : q = CommitMatched(r, me)
  OBVIOUS
<1>13. /\ q.role = r.role /\ q.currentTerm = r.currentTerm /\ q.logs = r.logs
       /\ q.matchIndex = r.matchIndex
       /\ \/ q.commitIndex = r.commitIndex
          \/ /\ q.commitIndex > r.commitIndex
             /\ q.commitIndex >= 1 =>
                 /\ q.commitIndex + 1 \in 1..Len(r.logs)
                 /\ r.logs[q.commitIndex + 1].Term = r.currentTerm
                 /\ Majority(1 + Cardinality({i \in Server \ {me} :
                                                r.matchIndex[i] >= q.commitIndex}))
  BY <1>9, <1>12, CommitMatchedFields
<1> QED
  BY <1>3, <1>4, <1>9, <1>10, <1>11, <1>12, <1>13 DEF CountsAnswer

(* Start puts one entry at the end of the log. *)
LEMMA AppendCommandFields ==
    ASSUME NEW p \in Unsnapped, NEW term \in Nat, NEW command \in Command
    PROVE  LET q == AppendCommand(p, term, command)
               m == q.logs
           IN  /\ q.role = p.role /\ q.currentTerm = p.currentTerm
               /\ q.commitIndex = p.commitIndex /\ q.matchIndex = p.matchIndex
               /\ m \in Seq(LogEntry) /\ Len(m) = Len(p.logs) + 1
               /\ Agree(p.logs, m, Len(p.logs)) /\ m[Len(m)].Term = term
<1>1. p \in Peer /\ p.logs \in Seq(LogEntry) /\ Len(p.logs) \in Nat
  BY LenProperties DEF Unsnapped, Peer
<1>2. PICK e : e = [Term |-> term, Command |-> command]
  OBVIOUS
<1>3. e \in LogEntry /\ e.Term = term
  BY <1>2 DEF LogEntry
<1>4. PICK m : m = Append(p.logs, e)
  OBVIOUS
<1>5. /\ m \in Seq(LogEntry) /\ Len(m) = Len(p.logs) + 1
      /\ \A i \in 1..Len(p.logs) : m[i] = p.logs[i]
      /\ m[Len(m)] = e
  BY <1>1, <1>3, <1>4, AppendProperties, SMTT(30)
<1>6. Agree(p.logs, m, Len(p.logs))
  BY <1>1, <1>5, SMTT(30) DEF Agree
<1>7. AppendCommand(p, term, command) = [p EXCEPT !.logs = m]
  BY <1>2, <1>4 DEF AppendCommand
<1>8. LET q == [p EXCEPT !.logs = m]
      IN  /\ q.role = p.role /\ q.currentTerm = p.currentTerm /\ q.logs = m
          /\ q.commitIndex = p.commitIndex /\ q.matchIndex = p.matchIndex
  BY <1>1 DEF Peer
<1> QED
  BY <1>3, <1>5, <1>6, <1>7, <1>8

(* genAppendEntries sends what follows PrevLogIndex, to the end of the log. *)
LEMMA GenAppendEntriesFields ==
    ASSUME NEW p \in Unsnapped, NEW me \in Server, NEW server \in Server,
           ~NeedsSnapshot(p, server), ~GenAppendEntriesPanics(p, server)
    PROVE  LET args == GenAppendEntries(p, me, server)
               prev == args.PrevLogIndex + 1
           IN  /\ args.Term = p.currentTerm /\ args.LeaderCommit = p.commitIndex
               /\ prev \in 1..Len(p.logs) /\ p.logs[prev].Term = args.PrevLogTerm
               /\ prev + Len(args.Entries) = Len(p.logs)
               /\ \A j \in 1..Len(args.Entries) : args.Entries[j] = p.logs[prev + j]
<1>1. /\ p.logs \in Seq(LogEntry) /\ Len(p.logs) \in Nat /\ p.lastIncludedIndex = 0
      /\ p.nextIndex \in [Server -> Int]
      /\ \A k \in 1..Len(p.logs) : p.logs[k] \in LogEntry
  BY LenProperties, ElementOfSeq DEF Unsnapped, Peer
<1>2. PICK n : n = p.nextIndex[server]
  OBVIOUS
<1>3. /\ n \in 1..Len(p.logs) /\ StorageIndex(p, n - 1) = n - 1
  BY <1>1, <1>2, SMTT(30) DEF NeedsSnapshot, GenAppendEntriesPanics, StorageIndex, LastStorageIndex
<1>4. PICK e : e = SubSeq(p.logs, n + 1, Len(p.logs))
  OBVIOUS
<1>5. n + Len(e) = Len(p.logs) /\ \A j \in 1..Len(e) : e[j] = p.logs[n + j]
  <2>1. PICK i : i = n + 1
    OBVIOUS
  <2>2. i \in Int /\ Len(p.logs) \in Int /\ \A k \in i..Len(p.logs) : p.logs[k] \in LogEntry
    BY <1>1, <1>3, <2>1, SMTT(30)
  <2>3. /\ Len(e) = IF i <= Len(p.logs) THEN Len(p.logs) - i + 1 ELSE 0
        /\ \A j \in 1..(Len(p.logs) - i + 1) : e[j] = p.logs[i + j - 1]
    BY <1>4, <2>1, <2>2, SubSeqProperties, SMTT(30)
  <2>4. n + Len(e) = Len(p.logs) /\ Len(e) = Len(p.logs) - i + 1
    BY <1>1, <1>3, <2>1, <2>3, SMTT(30)
  <2>5. ASSUME NEW j \in 1..Len(e) PROVE e[j] = p.logs[n + j]
    BY <1>1, <1>3, <2>1, <2>3, <2>4, SMTT(30)
  <2> QED
    BY <2>4, <2>5
<1>6. PICK args : args = GenAppendEntries(p, me, server)
  OBVIOUS
<1>7. /\ args.Term = p.currentTerm /\ args.LeaderCommit = p.commitIndex
      /\ args.PrevLogIndex = n - 1 /\ args.PrevLogTerm = Entry(p, n - 1).Term
      /\ args.Entries = SubSeq(p.logs, n - 1 + 2, Len(p.logs))
  BY <1>2, <1>3, <1>6 DEF GenAppendEntries
<1>8. args.PrevLogIndex + 1 = n /\ Entry(p, n - 1) = p.logs[n] /\ args.Entries = e
  <2>1. n - 1 + 1 = n /\ n - 1 + 2 = n + 1
    BY <1>3, SMTT(30)
  <2> QED
    BY <1>4, <1>7, <2>1 DEF Entry
<1> QED
  BY <1>3, <1>5, <1>6, <1>7, <1>8

(* A snapshot of a peer that has none is discarded. *)
LEMMA InstallIdle ==
    ASSUME NEW p \in Unsnapped, NEW args \in InstallSnapshotArgs, args.LastIncludedIndex = 0
    PROVE  Idle(p, InstallSnapshot(p, args))
<1>1. args.Term \in Nat /\ DiscardsSnapshot(p, args)
  BY SMTT(30) DEF InstallSnapshotArgs, Unsnapped, DiscardsSnapshot
<1> QED
  BY <1>1, ObserveIdle, IdleReflexive DEF InstallSnapshot

(* handleInstallSnapshot sets nextIndex, and matchIndex to 0. *)
LEMMA SnapshotSetsIdle ==
    ASSUME NEW p \in Unsnapped, NEW server \in Server, NEW n
    PROVE  /\ Idle(p, [p EXCEPT !.nextIndex[server] = n])
           /\ Idle(p, [p EXCEPT !.matchIndex[server] = 0])
<1>1. p \in Peer /\ p.nextIndex \in [Server -> Int] /\ p.matchIndex \in [Server -> Int]
  BY DEF Unsnapped, Peer
<1>2. PICK next : next = [p.nextIndex EXCEPT ![server] = n]
  OBVIOUS
<1>3. PICK match : match = [p.matchIndex EXCEPT ![server] = 0]
  OBVIOUS
<1>4. /\ [p EXCEPT !.nextIndex[server] = n] = [p EXCEPT !.nextIndex = next]
      /\ [p EXCEPT !.matchIndex[server] = 0] = [p EXCEPT !.matchIndex = match]
  BY <1>1, <1>2, <1>3 DEF Peer
<1>5. \A i \in Server : match[i] >= 1 => match[i] = p.matchIndex[i]
  BY <1>1, <1>3, SMTT(30)
<1>6. Idle(p, [p EXCEPT !.nextIndex = next])
  BY <1>1 DEF Idle, Peer
<1>7. Idle(p, [p EXCEPT !.matchIndex = match])
  BY <1>1, <1>5 DEF Idle, Peer
<1> QED
  BY <1>4, <1>6, <1>7

-----------------------------------------------------------------------------
(* Steps in which nobody stores entries *)

(* What every step is to do: the invariant holds after it, and what a peer  *)
(* has committed stays.                                                    *)
Sound == Safe' /\ \A s \in Server : Kept(s)

(* An idle peer keeps what it has committed. *)
(* Who keeps its entries and commits nothing keeps what it has committed. *)
LEMMA PrefixKept ==
    ASSUME Steady, Safe, NEW s \in Server, rf'[s].commitIndex = rf[s].commitIndex,
           \A j \in 1..Len(rf[s].logs) :
                j \in 1..Len(rf'[s].logs) /\ rf'[s].logs[j] = rf[s].logs[j]
    PROVE  Kept(s)
<1>1. rf[s].commitIndex \in Int
  BY DEF Steady, LogsTyped
<1>2. ASSUME NEW n \in 1..rf[s].commitIndex PROVE n + 1 \in 1..Len(rf[s].logs)
  <2>1. DecidedIn(rf[s].logs, n + 1, rf[s].currentTerm)
    BY DEF Safe, PeerInv, CommitOK
  <2> QED
    BY <2>1 DEF DecidedIn, Has
<1> QED
  BY <1>1, <1>2, SMTT(30) DEF Kept

LEMMA IdleKept ==
    ASSUME Steady, Safe, NEW s \in Server, Idle(rf[s], rf'[s])
    PROVE  Kept(s)
<1>1. rf'[s].logs = rf[s].logs /\ rf'[s].commitIndex = rf[s].commitIndex
  BY DEF Idle
<1> QED
  BY <1>1, PrefixKept

(* All peers idle and nobody votes. *)
LEMMA QuietIdles ==
    ASSUME Steady, Safe, \A s \in Server : Idle(rf[s], rf'[s]) /\ Quiet(rf[s], rf'[s]),
           UNCHANGED <<copyVars, grants, voteRequests>>,
           \A c \in appendCalls' : c \in appendCalls \/ CallOK(c)'
    PROVE  Sound
<1>1. \A g \in grants' : g.candidate \in Server
  BY DEF Steady, VotesTyped
<1>2. ASSUME NEW g \in grants', Campaigns(g)' PROVE g \in grants /\ Campaigns(g)
  <2>1. PICK p : p = rf[g.candidate]
    OBVIOUS
  <2>2. PICK q : q = rf'[g.candidate]
    OBVIOUS
  <2>3. q.role = "Candidate" /\ q.currentTerm = g.term /\ Idle(p, q) /\ Quiet(p, q)
    BY <1>1, <1>2, <2>1, <2>2 DEF Campaigns
  <2>4. p.role = "Candidate" /\ p.currentTerm = g.term
    BY <2>3 DEF Idle, Quiet
  <2> QED
    BY <1>2, <2>1, <2>4 DEF Campaigns
<1>3. Safe'
  BY <1>1, <1>2, IdleStep
<1> QED
  BY <1>3, IdleKept DEF Sound

LEMMA OneIdles ==
    ASSUME Typed, Steady, Safe, NEW s \in Server, NEW q, Idle(rf[s], q), Quiet(rf[s], q),
           rf' = [rf EXCEPT ![s] = q], UNCHANGED <<copyVars, grants, voteRequests>>,
           \A c \in appendCalls' : c \in appendCalls \/ CallOK(c)'
    PROVE  Sound
<1>1. q \in Unsnapped /\ \A t \in Server : rf[t] \in Unsnapped
  BY DEF Quiet, Typed
<1>2. rf'[s] = q /\ \A t \in Server \ {s} : rf'[t] = rf[t]
  BY <1>1, PeerChanges
<1>3. \A t \in Server : Idle(rf[t], rf'[t]) /\ Quiet(rf[t], rf'[t])
  BY <1>1, <1>2, IdleReflexive, QuietReflexive
<1> QED
  BY <1>3, QuietIdles

(* No peer changes. *)
LEMMA NoneChanges ==
    ASSUME Typed, Steady, Safe, UNCHANGED <<rf, copyVars, grants, voteRequests>>,
           \A c \in appendCalls' : c \in appendCalls \/ CallOK(c)'
    PROVE  Sound
<1>1. \A s \in Server : Idle(rf[s], rf'[s]) /\ Quiet(rf[s], rf'[s])
  BY IdleReflexive, QuietReflexive DEF Typed
<1> QED
  BY <1>1, QuietIdles

(* The steps that leave peers and messages alone. *)
LEMMA OtherSound ==
    ASSUME Typed, Steady, Safe,
           \/ \E s \in Server : \/ ElectionTimeout(s)
                               \/ \E command \in Command : StartReadsTerm(s, command)
           \/ \E c \in appendCalls : Panic(c)
           \/ \E c \in snapCalls : \/ PrepareSnapshot(c) \/ SendSnapshot(c)
                                   \/ CheckSnapshotReply(c) \/ CompareSnapshotReply(c)
                                   \/ CompareSnapshotIndex(c)
           \/ UNCHANGED vars
    PROVE  Sound
<1>1. UNCHANGED <<rf, copyVars, grants, voteRequests, appendCalls>>
  BY DEF ElectionTimeout, StartReadsTerm, Panic, PrepareSnapshot, SendSnapshot,
     CheckSnapshotReply, CompareSnapshotReply, CompareSnapshotIndex, vars, voteVars, logVars,
     histVars
<1> QED
  BY <1>1, NoneChanges

(* A heartbeat round is begun. *)
LEMMA HeartbeatSound ==
    ASSUME Typed, Steady, Safe, NEW s \in Server, Heartbeat(s)
    PROVE  Sound
<1>1. /\ UNCHANGED <<rf, copyVars, grants, voteRequests>>
      /\ appendCalls' = appendCalls \cup
            {[from |-> s, to |-> i, round |-> rounds[s] + 1, pc |-> "spawned",
              args |-> Nil, reply |-> Nil] : i \in Server \ {s}}
  BY DEF Heartbeat, voteVars, histVars
<1>2. ASSUME NEW c \in appendCalls' PROVE c \in appendCalls \/ CallOK(c)'
  <2> SUFFICES ASSUME c.pc = "spawned", c.from # c.to PROVE CallOK(c)'
    BY <1>1, SMTT(30)
  <2> QED
    BY DEF CallOK
<1> QED
  BY <1>1, <1>2, NoneChanges

(* Snapshots of peers that have none change nothing; the unlocked resets    *)
(* are windows.                                                            *)
LEMMA SnapshotSound ==
    ASSUME Typed, Steady, Safe, UnlockedInv, windows' = {}, NEW c \in snapCalls,
           SnapshotStep(c)
    PROVE  Sound
<1>1. c.from \in Server /\ c.to \in Server
  BY SnapCallFields
<1>2. rf[c.from] \in Unsnapped /\ rf[c.to] \in Unsnapped
  BY <1>1 DEF Typed
<1>3. CASE \/ PrepareSnapshot(c) \/ SendSnapshot(c) \/ CheckSnapshotReply(c)
           \/ CompareSnapshotReply(c) \/ CompareSnapshotIndex(c)
  BY <1>3, OtherSound
<1>4. CASE ReceiveSnapshot(c)
  <2>1. /\ rf' = [rf EXCEPT ![c.to] = InstallSnapshot(rf[c.to], c.args)]
        /\ UNCHANGED <<copyVars, grants, voteRequests, appendCalls>> /\ c.pc = "request"
    BY <1>4 DEF ReceiveSnapshot, voteVars, histVars
  <2>2. c.args \in InstallSnapshotArgs /\ c.args.LastIncludedIndex = 0
    BY <2>1, SnapCallFields
  <2> QED
    BY <1>1, <1>2, <2>1, <2>2, InstallIdle, InstallSnapshotQuiet, OneIdles
<1>5. CASE SnapshotSetsNext(c) \/ SnapshotSetsMatch(c)
  <2>1. c.args \in InstallSnapshotArgs /\ c.args.LastIncludedIndex = 0
    BY <1>5, SnapCallFields DEF SnapshotSetsNext, SnapshotSetsMatch
  <2>2. PICK q \in {[rf[c.from] EXCEPT !.nextIndex[c.to] = 1],
                    [rf[c.from] EXCEPT !.matchIndex[c.to] = 0]} :
            /\ rf' = [rf EXCEPT ![c.from] = q]
            /\ UNCHANGED <<copyVars, grants, voteRequests, appendCalls>>
    BY <1>5, <2>1, SMTT(30) DEF SnapshotSetsNext, SnapshotSetsMatch, voteVars, histVars
  <2>3. Idle(rf[c.from], q) /\ Quiet(rf[c.from], q)
    <3>0. 0 \in Int /\ 1 \in Int
      BY SMTT(30)
    <3>1. CASE q = [rf[c.from] EXCEPT !.nextIndex[c.to] = 1]
      BY <1>1, <1>2, <3>0, <3>1, SnapshotSetsIdle, SnapshotSetsQuiet
    <3>2. CASE q = [rf[c.from] EXCEPT !.matchIndex[c.to] = 0]
      BY <1>1, <1>2, <3>0, <3>2, SnapshotSetsIdle, SnapshotSetsQuiet
    <3> QED
      BY <3>1, <3>2
  <2> QED
    BY <1>1, <2>2, <2>3, OneIdles
<1>6. CASE SnapshotSetsTerm(c)
  BY <1>6 DEF SnapshotSetsTerm, Through
<1>7. CASE SnapshotSetsRole(c) \/ SnapshotSetsVote(c)
  BY <1>7 DEF SnapshotSetsRole, SnapshotSetsVote, histVars, UnlockedInv
<1> QED
  BY <1>3, <1>4, <1>5, <1>6, <1>7 DEF SnapshotStep

-----------------------------------------------------------------------------
(* Elections *)

(* Nobody has voted for s in the term it goes on to, and its own log has    *)
(* what it has stored.                                                     *)
LEMMA StartElectionSound ==
    ASSUME Typed, Steady, Safe, NEW s \in Server, StartElection(s)
    PROVE  Sound
<1>1. PICK x : x = rf[s].currentTerm + 1
  OBVIOUS
<1>2. /\ rf' = [rf EXCEPT ![s] = BecomeCandidate(rf[s], s)]
      /\ grants' = grants \cup {Vote(s, x, s)}
      /\ UNCHANGED <<copyVars, voteRequests, appendCalls>>
  BY <1>1 DEF StartElection, Vote, logVars
<1>3. \A t \in Server : rf[t] \in Unsnapped
  BY DEF Typed
<1>4. /\ BecomeCandidate(rf[s], s) \in Unsnapped /\ Idle(rf[s], BecomeCandidate(rf[s], s))
      /\ BecomeCandidate(rf[s], s).currentTerm = x
  BY <1>1, <1>3, BecomeCandidateType, CandidateIdle
<1>5. rf'[s] = BecomeCandidate(rf[s], s) /\ \A t \in Server \ {s} : rf'[t] = rf[t]
  BY <1>2, <1>4, PeerChanges
<1>6. \A t \in Server : Idle(rf[t], rf'[t])
  BY <1>4, <1>5, IdleReflexive
<1>7. \A g \in grants' : g.candidate \in Server
  BY DEF Steady, VotesTyped
<1>8. ASSUME NEW g \in grants, g.candidate = s PROVE g.term # x
  <2>1. g.term \in Nat /\ g.voter \in Server /\ rf[s].currentTerm \in Nat
    BY DEF Steady, VotesTyped, LogsTyped
  <2>2. g.term <= rf[s].currentTerm
    <3>1. CASE g.voter = s
      BY <3>1 DEF Steady, VoteInv
    <3>2. CASE g.voter # s
      BY <1>8, <3>2 DEF Steady, VoteInv
    <3> QED
      BY <3>1, <3>2
  <2> QED
    BY <1>1, <2>1, <2>2, SMTT(30)
<1>9. ASSUME NEW g \in grants', Campaigns(g)'
      PROVE  \/ g \in grants /\ Campaigns(g)
             \/ \A t \in DOMAIN leaderLog : \A k \in 1..Len(leaderLog[t]) :
                    Choosable(t, k) => GrantOK(g, t, k)
  <2>1. CASE g = Vote(s, x, s)
    <3>1. g.voter = s /\ g.candidate = s
      BY <2>1 DEF Vote
    <3> QED
      BY <3>1 DEF GrantOK, Safe, ChoiceInv, ChoiceOK
  <2>2. CASE g \in grants
    <3>1. g.candidate # s
      BY <1>4, <1>5, <1>8, <1>9, <2>2 DEF Campaigns
    <3> QED
      BY <1>5, <1>7, <1>9, <2>2, <3>1 DEF Campaigns
  <2> QED
    BY <1>2, <2>1, <2>2
<1>10. Safe'
  BY <1>2, <1>6, <1>7, <1>9, IdleStep
<1> QED
  BY <1>6, <1>10, IdleKept DEF Sound

(* The arguments are read from the log. *)
LEMMA SendRequestVotesSound ==
    ASSUME Typed, Steady, Safe, NEW s \in Server, SendRequestVotes(s)
    PROVE  Sound
<1>1. PICK args : args = GenRequestVoteArgs(rf[s], s)
  OBVIOUS
<1>2. /\ UNCHANGED <<rf, copyVars, grants, appendCalls>>
      /\ \A m \in voteRequests' : m \in voteRequests \/ (m.from = s /\ m.args = args)
  BY <1>1, SMTT(30) DEF SendRequestVotes, logVars, histVars
<1>3. \A m \in voteRequests' : m \in voteRequests \/ RequestOK(m)'
  BY <1>1, <1>2, SMTT(30) DEF RequestOK, GenRequestVoteArgs
<1>4. \A t \in Server : Idle(rf[t], rf'[t])
  BY <1>2, IdleReflexive
<1>5. \A g \in grants' : g.candidate \in Server /\ (Campaigns(g)' => g \in grants /\ Campaigns(g))
  BY <1>2 DEF Steady, VotesTyped, Campaigns
<1>6. Safe'
  BY <1>2, <1>3, <1>4, <1>5, IdleStep
<1> QED
  BY <1>4, <1>6, IdleKept DEF Sound

(* Who votes after storing a choosable position knows it to be in the log  *)
(* of a candidate whose log is as up to date as its own.                   *)
LEMMA VoterKnows ==
    ASSUME Steady, Safe, NEW v \in Server, NEW w \in Server,
           NEW args, IsLogUpToDate(rf[v], args.LastLogTerm, args.LastLogIndex),
           args.LastLogIndex = LastLogicalIndex(rf[w]),
           args.LastLogTerm = LastLogTerm(rf[w]),
           NEW t \in DOMAIN leaderLog, NEW k \in 1..Len(leaderLog[t]), Choosable(t, k),
           Acked(v, t, k)
    PROVE  Has(rf[w].logs, t, k)
<1>1. PICK l : l = rf[v].logs
  OBVIOUS
<1>2. PICK m : m = rf[w].logs
  OBVIOUS
<1>3. /\ l \in Seq(LogEntry) /\ Len(l) \in Nat /\ Len(l) > 0 /\ rf[v].lastIncludedIndex = 0
      /\ m \in Seq(LogEntry) /\ Len(m) \in Nat /\ Len(m) > 0 /\ rf[w].lastIncludedIndex = 0
      /\ LogsTyped /\ LedgerInv
  BY <1>1, <1>2 DEF Steady, Safe, LogsTyped
<1>4. Copied(l) /\ Copied(m)
  BY <1>1, <1>2 DEF Safe, PeerInv, LogOK
<1>5. ChoiceOK(t, k) /\ OwnEntry(t, k)
  BY DEF Safe, ChoiceInv, Choosable
<1>6. Has(l, t, k) /\ \A y \in DOMAIN leaderLog : y > t => Has(leaderLog[y], t, k)
  BY <1>1, <1>5 DEF ChoiceOK
<1>7. \/ m[Len(m)].Term = l[Len(l)].Term /\ Len(m) >= Len(l)
      \/ m[Len(m)].Term > l[Len(l)].Term
  BY <1>1, <1>2, <1>3, SMTT(30)
     DEF IsLogUpToDate, LastLogTerm, LastLogicalIndex, LastStorageIndex, Entry
<1> QED
  BY <1>2, <1>3, <1>4, <1>5, <1>6, <1>7, UpToDate

LEMMA ReceiveRequestVoteSound ==
    ASSUME Typed, Steady, Safe, NEW m \in voteRequests, ReceiveRequestVote(m)
    PROVE  Sound
<1>1. CallInv
  BY DEF Steady
<1>2. /\ m.from \in Server /\ m.to \in Server /\ m.args \in RequestVoteArgs
      /\ voteRequests' = voteRequests \ {m}
      /\ grants' = IF GrantsVote(rf[m.to], m.args)
                   THEN grants \cup {Vote(m.to, m.args.Term, m.from)} ELSE grants
      /\ rf'[m.to] = RequestVote(rf[m.to], m.args)
      /\ \A t \in Server \ {m.to} : rf'[t] = rf[t]
  BY <1>1, ReceiveRequestVoteEffect
<1>3. m.to # m.from
  BY <1>1 DEF CallInv
<1>4. UNCHANGED <<copyVars, appendCalls>>
  BY DEF ReceiveRequestVote, logVars
<1>5. rf[m.to] \in Unsnapped
  BY <1>2 DEF Typed
<1>6. \A t \in Server : Idle(rf[t], rf'[t])
  BY <1>2, <1>5, VoteIdle, IdleReflexive
<1>7. \A g \in grants' : g.candidate \in Server
  BY DEF Steady, VotesTyped
<1>8. \/ /\ rf'[m.to].currentTerm = rf[m.to].currentTerm
         /\ rf'[m.to].role = rf[m.to].role
      \/ rf'[m.to].role = "Follower"
  <2>1. PICK p \in Unsnapped : p = rf[m.to]
    BY <1>5
  <2>2. PICK args \in RequestVoteArgs : args = m.args
    BY <1>2
  <2>3. PICK q : q = RequestVote(p, args)
    OBVIOUS
  <2>4. (q.currentTerm = p.currentTerm /\ q.role = p.role) \/ q.role = "Follower"
    BY <2>3, RequestVoteType
  <2> QED
    BY <1>2, <2>1, <2>2, <2>3, <2>4
<1>9. ASSUME NEW g \in grants', Campaigns(g)'
      PROVE  \/ g \in grants /\ Campaigns(g)
             \/ \A t \in DOMAIN leaderLog : \A k \in 1..Len(leaderLog[t]) :
                    Choosable(t, k) => GrantOK(g, t, k)
  <2>1. CASE g \in grants
    <3>1. CASE g.candidate = m.to
      BY <1>8, <1>9, <2>1, <3>1 DEF Campaigns
    <3>2. CASE g.candidate # m.to
      BY <1>2, <1>7, <1>9, <2>1, <3>2 DEF Campaigns
    <3> QED
      BY <3>1, <3>2
  <2>2. CASE g \notin grants
    <3>1. /\ g.voter = m.to /\ g.term = m.args.Term /\ g.candidate = m.from
          /\ GrantsVote(rf[m.to], m.args)
      BY <1>2, <2>2, SMTT(30) DEF Vote
    <3>2. rf[m.from].currentTerm = m.args.Term /\ rf[m.from].role = "Candidate"
      BY <1>2, <1>3, <1>9, <3>1 DEF Campaigns
    <3>3. /\ m.args.LastLogIndex = LastLogicalIndex(rf[m.from])
          /\ m.args.LastLogTerm = LastLogTerm(rf[m.from])
      BY <3>2 DEF Safe, SentInv, RequestOK
    <3>4. IsLogUpToDate(rf[m.to], m.args.LastLogTerm, m.args.LastLogIndex)
      BY <3>1 DEF GrantsVote
    <3> QED
      BY <1>2, <3>1, <3>3, <3>4, VoterKnows DEF GrantOK
  <2> QED
    BY <2>1, <2>2
<1>10. grants \subseteq grants'
  BY <1>2
<1>11. Safe'
  BY <1>2, <1>4, <1>6, <1>7, <1>9, <1>10, IdleStep
<1> QED
  BY <1>6, <1>11, IdleKept DEF Sound

(* A peer that wins an election has a majority in its term. *)
LEMMA ReceiveVoteReplySound ==
    ASSUME Typed, Steady, Safe, LeaderInv', NEW m \in voteReplies, ReceiveVoteReply(m)
    PROVE  Sound
<1>1. PICK s : s = m.from
  OBVIOUS
<1>2. PICK count : count = elections[s][m.election].voteCount
  OBVIOUS
<1>3. PICK q : q = HandleVoteReply(rf[s], m.reply, count)
  OBVIOUS
<1>4. s \in Server /\ m.reply \in RequestVoteReplies /\ count \in Nat
  BY <1>1, <1>2, ReceiveVoteReplyEffect
<1>5. PICK wins : wins = (CountsVote(rf[s], m.reply) /\ Majority(count + 1))
  OBVIOUS
<1>6. /\ rf' = [rf EXCEPT ![s] = q] /\ Leads(s, rf[s], wins)
      /\ UNCHANGED <<grants, voteRequests, appendCalls>>
  BY <1>1, <1>2, <1>3, <1>5 DEF ReceiveVoteReply, logVars
<1>7. rf[s] \in Unsnapped
  BY <1>4 DEF Typed
<1>8. CASE ~(CountsVote(rf[s], m.reply) /\ Majority(count + 1))
  <2>1. Idle(rf[s], q) /\ Quiet(rf[s], q)
    BY <1>3, <1>4, <1>7, <1>8, VoteReplyIdle, HandleVoteReplyType
  <2>2. UNCHANGED copyVars
    BY <1>5, <1>6, <1>8 DEF Leads, Stores, copyVars
  <2> QED
    BY <1>4, <1>6, <2>1, <2>2, OneIdles
<1>9. CASE CountsVote(rf[s], m.reply) /\ Majority(count + 1)
  <2>1. PICK x : x = rf[s].currentTerm
    OBVIOUS
  <2>2. PICK l : l = rf[s].logs
    OBVIOUS
  <2>3. /\ q \in Unsnapped /\ rf[s].role = "Candidate" /\ q.role = "Leader"
        /\ q.currentTerm = x /\ q.logs = l /\ q.commitIndex = rf[s].commitIndex
        /\ \A i \in Server : q.matchIndex[i] = -1
    <3>1. q \in Unsnapped
      BY <1>3, <1>4, <1>7, <1>9, HandleVoteReplyType
    <3> QED
      BY <1>3, <1>7, <1>9, <2>1, <2>2, <3>1, WinFields, SMTT(30)
  <2>4. rf'[s] = q /\ \A t \in Server \ {s} : rf'[t] = rf[t]
    BY <1>4, <1>6, <2>3, PeerChanges
  <2>5. Elected(s, x)
    BY <1>4, <1>6, <2>3, <2>4, SMTT(30) DEF LeaderInv, Elected, Voters
  <2>6. /\ leaderLog' = [t \in DOMAIN leaderLog \cup {x} |-> IF t = x THEN l ELSE leaderLog[t]]
        /\ acks' = acks \cup {[peer |-> s, term |-> x, length |-> Len(l)]}
    BY <1>5, <1>6, <1>9, <2>1, <2>2 DEF Leads, Stores
  <2>7. \A i \in Server : ~(rf'[s].matchIndex[i] >= 1)
    BY <2>3, <2>4, SMTT(30)
  <2>8. Wins(s, x, l)
    BY <1>6, <2>1, <2>2, <2>3, <2>4, <2>5, <2>6, <2>7 DEF Wins, Leader
  <2>9. Safe'
    BY <1>4, <2>8, WinStep
  <2>10. \A t \in Server : Kept(t)
    BY <2>2, <2>3, <2>4, PrefixKept
  <2> QED
    BY <2>9, <2>10 DEF Sound
<1> QED
  BY <1>8, <1>9

-----------------------------------------------------------------------------
(* Log replication *)

LEMMA CallSame ==
    ASSUME NEW d, CallOK(d), UNCHANGED <<rf, copyVars, grants>>
    PROVE  CallOK(d)'
<1>1. rf' = rf /\ leaderLog' = leaderLog /\ acks' = acks /\ grants' = grants
  BY DEF copyVars
<1>2. \A s, x : Elected(s, x)' <=> Elected(s, x)
  BY <1>1 DEF Elected, Voters
<1>3. \A v, t, k : Acked(v, t, k)' <=> Acked(v, t, k)
  BY <1>1 DEF Acked
<1>4. \A args, l : Segment(args, l)' <=> Segment(args, l)
  <2>1. \A l, k, x : DecidedIn(l, k, x)' <=> DecidedIn(l, k, x)
    BY <1>1, <1>3, SMTT(30) DEF DecidedIn, Chosen, OwnEntry, Has, Quorum
  <2> QED
    BY <2>1 DEF Segment
<1> QED
  BY <1>1, <1>2, <1>3, <1>4 DEF CallOK

(* genAppendEntries hands on its own log up to the end. *)
LEMMA OwnSegment ==
    ASSUME Typed, Safe, NEW s \in Server, NEW server \in Server,
           ~NeedsSnapshot(rf[s], server), ~GenAppendEntriesPanics(rf[s], server)
    PROVE  /\ Segment(GenAppendEntries(rf[s], s, server), rf[s].logs)
           /\ GenAppendEntries(rf[s], s, server).Term = rf[s].currentTerm
<1>1. PICK args : args = GenAppendEntries(rf[s], s, server)
  OBVIOUS
<1>2. PICK l : l = rf[s].logs
  OBVIOUS
<1>3. rf[s] \in Unsnapped
  BY DEF Typed
<1>4. /\ args.Term = rf[s].currentTerm /\ args.LeaderCommit = rf[s].commitIndex
      /\ l[args.PrevLogIndex + 1].Term = args.PrevLogTerm
      /\ args.PrevLogIndex + 1 + Len(args.Entries) = Len(l)
      /\ \A j \in 1..Len(args.Entries) : args.Entries[j] = l[args.PrevLogIndex + 1 + j]
  BY <1>1, <1>2, <1>3, GenAppendEntriesFields
<1>5. \A n \in 1..args.LeaderCommit : DecidedIn(l, n + 1, args.Term)
  BY <1>2, <1>4 DEF Safe, PeerInv, CommitOK
<1>6. Len(l) \in Nat
  BY <1>2, <1>3, LenProperties DEF Unsnapped, Peer
<1>7. Len(l) <= Len(l) /\ \A k \in 1..Len(l) : l[k].Term < args.Term => k <= Len(l)
  BY <1>6, SMTT(30)
<1>8. Segment(args, l)
  BY <1>4, <1>5, <1>7 DEF Segment
<1> QED
  BY <1>1, <1>2, <1>4, <1>8

LEMMA PrepareAppendSound ==
    ASSUME Typed, Steady, Safe, NEW c \in appendCalls, PrepareAppend(c)
    PROVE  Sound
<1>1. PICK d : d = IF NeedsSnapshot(rf[c.from], c.to) THEN [c EXCEPT !.pc = "snapshot"]
                   ELSE [c EXCEPT !.pc = "ready",
                                  !.args = GenAppendEntries(rf[c.from], c.from, c.to)]
  OBVIOUS
<1>2. /\ UNCHANGED <<rf, copyVars, grants, voteRequests>> /\ appendCalls' = (appendCalls \ {c}) \cup {d}
      /\ ~GenAppendEntriesPanics(rf[c.from], c.to)
  BY <1>1 DEF PrepareAppend, CallPanics, Advance, voteVars, histVars
<1>3. /\ c.from \in Server /\ c.to \in Server
      /\ c = [from |-> c.from, to |-> c.to, round |-> c.round, pc |-> c.pc,
              args |-> c.args, reply |-> c.reply]
  BY AppendCallFields
<1>4. c.from # c.to
  BY DEF Safe, SentInv, CallOK
<1>5. CallOK(d)
  <2>1. CASE NeedsSnapshot(rf[c.from], c.to)
    <3>1. d.from = c.from /\ d.to = c.to /\ d.pc = "snapshot"
      BY <1>1, <1>3, <2>1
    <3> QED
      BY <1>4, <3>1 DEF CallOK
  <2>2. CASE ~NeedsSnapshot(rf[c.from], c.to)
    <3>1. /\ d.from = c.from /\ d.to = c.to /\ d.pc = "ready"
          /\ d.args = GenAppendEntries(rf[c.from], c.from, c.to)
      BY <1>1, <1>3, <2>2
    <3>2. Segment(d.args, rf[c.from].logs) /\ d.args.Term = rf[c.from].currentTerm
      BY <1>2, <1>3, <2>2, <3>1, OwnSegment
    <3>3. rf[c.from].currentTerm <= rf[c.from].currentTerm
      BY <1>3, SMTT(30) DEF Steady, LogsTyped
    <3> QED
      BY <1>4, <3>1, <3>2, <3>3 DEF CallOK
  <2> QED
    BY <2>1, <2>2
<1>6. CallOK(d)'
  BY <1>2, <1>5, CallSame
<1> QED
  BY <1>2, <1>6, NoneChanges

(* Arguments that are not stale are a part of the log of the leader. *)
LEMMA SendAppendSound ==
    ASSUME Typed, Steady, Safe, windows' = {}, NEW c \in appendCalls, SendAppend(c)
    PROVE  Sound
<1>1. PICK d : d = [c EXCEPT !.pc = "request"]
  OBVIOUS
<1>2. /\ c.from \in Server
      /\ c = [from |-> c.from, to |-> c.to, round |-> c.round, pc |-> c.pc,
              args |-> c.args, reply |-> c.reply]
  BY AppendCallFields
<1>3. d.from = c.from /\ d.to = c.to /\ d.args = c.args /\ d.pc = "request"
  BY <1>1, <1>2
<1>4. /\ UNCHANGED <<rf, copyVars, grants, voteRequests>>
      /\ \A b \in appendCalls' :
            \/ b \in appendCalls
            \/ b = d /\ c.pc = "ready" /\ rf[c.from].role = "Leader"
      /\ c.pc = "ready" /\ rf[c.from].role = "Leader" => c.args.Term = rf[c.from].currentTerm
  BY <1>1 DEF SendAppend, Through, Advance, voteVars, histVars
<1>5. ASSUME c.pc = "ready", rf[c.from].role = "Leader" PROVE CallOK(d)'
  <2>1. PICK x : x = rf[c.from].currentTerm
    OBVIOUS
  <2>2. c.from # c.to /\ c.args.Term = x /\ Segment(c.args, rf[c.from].logs)
    BY <1>4, <1>5, <2>1 DEF Safe, SentInv, CallOK
  <2>3. x \in DOMAIN leaderLog /\ leaderLog[x] = rf[c.from].logs
    BY <1>2, <1>5, <2>1 DEF Safe, PeerInv, LeadOK, Leader
  <2>4. Elected(c.from, x)
    BY <1>2, <1>5, <2>1 DEF Steady, LeaderInv, Elected
  <2>5. x <= rf[c.from].currentTerm
    BY <1>2, <2>1, SMTT(30) DEF Steady, LogsTyped
  <2>6. CallOK(d)
    BY <1>3, <2>2, <2>3, <2>4, <2>5 DEF CallOK
  <2> QED
    BY <1>4, <2>6, CallSame
<1> QED
  BY <1>4, <1>5, NoneChanges

(* A command is appended to the log of the leader in the term Start read. *)
LEMMA StartAppendsSound ==
    ASSUME Typed, Steady, Safe, windows' = {}, NEW p \in starts, StartAppends(p)
    PROVE  Sound
<1>1. PICK s : s = p.server
  OBVIOUS
<1>2. PICK q : q = AppendCommand(rf[s], p.term, p.command)
  OBVIOUS
<1>3. s \in Server /\ p.term \in Nat /\ p.command \in Command
  BY <1>1 DEF Typed, TypeOK
<1>4. /\ rf' = [rf EXCEPT ![s] = q] /\ Leads(s, q, TRUE)
      /\ UNCHANGED <<grants, voteRequests, appendCalls>>
      /\ rf[s].role = "Leader" /\ rf[s].currentTerm = p.term
  BY <1>1, <1>2 DEF StartAppends, Through, voteVars
<1>5. rf[s] \in Unsnapped
  BY <1>3 DEF Typed
<1>6. q \in Unsnapped
  BY <1>2, <1>3, <1>5, AppendCommandQuiet DEF Quiet
<1>7. rf'[s] = q /\ \A t \in Server \ {s} : rf'[t] = rf[t]
  BY <1>3, <1>4, <1>6, PeerChanges
<1>8. PICK x : x = rf[s].currentTerm
  OBVIOUS
<1>9. PICK l : l = rf[s].logs
  OBVIOUS
<1>10. PICK m : m = q.logs
  OBVIOUS
<1>11. /\ q.role = "Leader" /\ q.currentTerm = x
       /\ q.commitIndex = rf[s].commitIndex /\ q.matchIndex = rf[s].matchIndex
       /\ m \in Seq(LogEntry) /\ Len(m) = Len(l) + 1
       /\ Agree(l, m, Len(l)) /\ m[Len(m)].Term = x
  BY <1>2, <1>3, <1>4, <1>5, <1>8, <1>9, <1>10, AppendCommandFields
<1>12. /\ leaderLog' = [t \in DOMAIN leaderLog \cup {x} |-> IF t = x THEN m ELSE leaderLog[t]]
       /\ acks' = acks \cup {[peer |-> s, term |-> x, length |-> Len(m)]}
  BY <1>4, <1>10, <1>11 DEF Leads, Stores
<1>13. Extends(s, x, l, m)
  BY <1>4, <1>7, <1>8, <1>9, <1>10, <1>11, <1>12 DEF Extends, Leader
<1>14. Safe'
  BY <1>3, <1>13, ExtendStep
<1>15. \A j \in 1..Len(l) : j \in 1..Len(m) /\ m[j] = l[j]
  <2>1. Len(l) \in Nat
    BY <1>3, <1>9 DEF Steady, LogsTyped
  <2> QED
    BY <1>11, <2>1, SMTT(30) DEF Agree
<1>16. \A t \in Server : Kept(t)
  BY <1>7, <1>9, <1>10, <1>11, <1>15, PrefixKept
<1> QED
  BY <1>14, <1>16 DEF Sound

(* Success answers exactly the entries that were accepted. *)
LEMMA RefusedReply ==
    ASSUME NEW p \in Unsnapped, NEW args \in AppendEntriesArgs, ~AcceptsEntries(p, args)
    PROVE  AppendEntriesReply(p, args).Success = FALSE
<1>1. args.Term \in Nat /\ p.currentTerm \in Nat
  BY DEF AppendEntriesArgs, Unsnapped, Peer
<1>2. args.Term < p.currentTerm \/ args.Term >= p.currentTerm
  BY <1>1, SMTT(30)
<1> QED
  BY <1>2 DEF AppendEntriesReply, AcceptsEntries

(* A peer accepts entries of a leader and stores them, without cutting off *)
(* entries of that leader, or refuses them and is not that leader.         *)
LEMMA AcceptSound ==
    ASSUME Typed, Steady, Safe, windows' = {}, NEW c \in appendCalls, ReceiveAppend(c),
           AcceptsEntries(rf[c.to], c.args)
    PROVE  Sound
<1>1. PICK v : v = c.to
  OBVIOUS
<1>2. PICK q : q = AppendEntries(rf[v], c.args)
  OBVIOUS
<1>3. PICK x : x = c.args.Term
  OBVIOUS
<1>4. PICK l : l = rf[v].logs
  OBVIOUS
<1>5. PICK m : m = q.logs
  OBVIOUS
<1>6. /\ c.pc = "request" /\ rf' = [rf EXCEPT ![v] = q] /\ Stores(v, q, TRUE)
      /\ leaderLog' = leaderLog /\ grants' = grants /\ voteRequests' = voteRequests
      /\ appendCalls' = (appendCalls \ {c}) \cup
            {[c EXCEPT !.pc = "reply", !.reply = AppendEntriesReply(rf[v], c.args)]}
      /\ ~CutsBack(rf[v], c.args)
  BY <1>1, <1>2 DEF ReceiveAppend, Advance, Through, voteVars
<1>7. /\ v \in Server /\ c.args \in AppendEntriesArgs
      /\ c = [from |-> c.from, to |-> c.to, round |-> c.round, pc |-> c.pc,
              args |-> c.args, reply |-> c.reply]
  BY <1>1, <1>6, AppendCallFields
<1>8. rf[v] \in Unsnapped
  BY <1>7 DEF Typed
<1>9. q \in Unsnapped
  BY <1>2, <1>7, <1>8, AppendEntriesQuiet DEF Quiet
<1>10. rf'[v] = q /\ \A t \in Server \ {v} : rf'[t] = rf[t]
  BY <1>6, <1>7, <1>9, PeerChanges
<1>11. /\ rf[v].currentTerm <= x /\ q.currentTerm = x /\ q.role = "Follower"
       /\ c.args.PrevLogIndex + 1 <= Len(l)
       /\ c.args.PrevLogIndex + 1 > 1 => l[c.args.PrevLogIndex + 1].Term = c.args.PrevLogTerm
       /\ m \in Seq(LogEntry) /\ Len(m) = c.args.PrevLogIndex + 1 + Len(c.args.Entries)
       /\ \A k \in 1..(c.args.PrevLogIndex + 1) : m[k] = l[k]
       /\ \A j \in 1..Len(c.args.Entries) : m[c.args.PrevLogIndex + 1 + j] = c.args.Entries[j]
       /\ \/ q.commitIndex = rf[v].commitIndex
          \/ /\ q.commitIndex <= c.args.LeaderCommit /\ q.commitIndex < Len(m)
             /\ rf[v].commitIndex < q.commitIndex \/ q.commitIndex = Len(m) - 1
  BY <1>1, <1>2, <1>3, <1>4, <1>5, <1>7, <1>8, AcceptFields
<1>12. x \in DOMAIN leaderLog /\ Segment(c.args, leaderLog[x])
  BY <1>3, <1>6 DEF Safe, SentInv, CallOK
<1>13. \A k \in 1..Len(l) : l[k].Term = x => k <= Len(m)
  <2>1. Len(m) \in Nat /\ Len(l) \in Nat
    BY <1>4, <1>8, <1>11, LenProperties DEF Unsnapped, Peer
  <2>2. \A k \in 1..Len(l) : l[k].Term = x => ~(k > Len(m))
    BY <1>1, <1>2, <1>3, <1>4, <1>5, <1>6 DEF CutsBack
  <2> QED
    BY <2>1, <2>2, SMTT(30)
<1>14. Stored(v, c.args, l, m)
  BY <1>3, <1>4, <1>11, <1>12, <1>13 DEF Stored
<1>15. \A b \in appendCalls' : \/ b \in appendCalls
                               \/ /\ b.from = c.from /\ b.to = v
                                  /\ b.args = c.args /\ b.pc = "reply"
  BY <1>1, <1>6, <1>7
<1>16. acks' = acks \cup {[peer |-> v, term |-> x, length |-> Len(m)]}
  BY <1>5, <1>6, <1>11 DEF Stores
<1>17. Accepts(c, v, x, l, m)
  BY <1>1, <1>3, <1>5, <1>6, <1>10, <1>11, <1>14, <1>15, <1>16 DEF Accepts
<1>18. Safe' /\ Kept(v)
  BY <1>17, AcceptStep
<1>19. \A t \in Server \ {v} : Kept(t)
  BY <1>10, IdleReflexive, IdleKept
<1> QED
  BY <1>18, <1>19 DEF Sound

LEMMA RefuseSound ==
    ASSUME Typed, Steady, Safe, NEW c \in appendCalls, ReceiveAppend(c),
           ~AcceptsEntries(rf[c.to], c.args)
    PROVE  Sound
<1>1. PICK v : v = c.to
  OBVIOUS
<1>2. PICK q : q = AppendEntries(rf[v], c.args)
  OBVIOUS
<1>3. PICK d : d = [c EXCEPT !.pc = "reply", !.reply = AppendEntriesReply(rf[v], c.args)]
  OBVIOUS
<1>4. /\ c.pc = "request" /\ rf' = [rf EXCEPT ![v] = q] /\ UNCHANGED <<copyVars, grants, voteRequests>>
      /\ appendCalls' = (appendCalls \ {c}) \cup {d}
  BY <1>1, <1>2, <1>3 DEF ReceiveAppend, Stores, Advance, voteVars, copyVars
<1>5. /\ c.from \in Server /\ v \in Server /\ c.args \in AppendEntriesArgs
      /\ c = [from |-> c.from, to |-> c.to, round |-> c.round, pc |-> c.pc,
              args |-> c.args, reply |-> c.reply]
  BY <1>1, <1>4, AppendCallFields
<1>6. /\ d.from = c.from /\ d.to = v /\ d.pc = "reply" /\ d.args = c.args
      /\ d.reply = AppendEntriesReply(rf[v], c.args)
  BY <1>1, <1>3, <1>5
<1>7. rf[v] \in Unsnapped
  BY <1>5 DEF Typed
<1>8. c.from # v /\ c.args.Term <= rf[c.from].currentTerm /\ Elected(c.from, c.args.Term)
  BY <1>1, <1>4 DEF Safe, SentInv, CallOK
<1>9. ASSUME c.args.Term = rf[v].currentTerm, rf[v].role = "Leader" PROVE FALSE
  <2>1. Elected(v, c.args.Term)
    BY <1>5, <1>9 DEF Steady, LeaderInv, Elected
  <2> QED
    BY <1>5, <1>8, <2>1, OneElected DEF Steady
<1>10. Idle(rf[v], q) /\ Quiet(rf[v], q)
  BY <1>1, <1>2, <1>5, <1>7, <1>9, RefuseIdle, AppendEntriesQuiet
<1>11. d.reply.Success = FALSE
  BY <1>1, <1>5, <1>6, <1>7, RefusedReply
<1>12. rf'[c.from] = rf[c.from]
  BY <1>4, <1>5, <1>8, <1>10, PeerChanges DEF Quiet
<1>13. CallOK(d)'
  BY <1>6, <1>8, <1>11, <1>12 DEF CallOK
<1> QED
  BY <1>4, <1>5, <1>10, <1>13, OneIdles

(* A leader counts an answer to a call of its term, or ignores it. *)
LEMMA ReceiveAppendReplySound ==
    ASSUME Typed, Steady, Safe, windows' = {}, NEW c \in appendCalls, ReceiveAppendReply(c)
    PROVE  Sound
<1>1. PICK s : s = c.from
  OBVIOUS
<1>2. PICK q : q = HandleAppendEntries(rf[s], s, c.to, c.args, c.reply)
  OBVIOUS
<1>3. /\ c.pc = "reply" /\ rf' = [rf EXCEPT ![s] = q]
      /\ UNCHANGED <<copyVars, grants, voteRequests>> /\ appendCalls' \subseteq appendCalls
      /\ ~(rf[s].role = "Leader" /\ c.args.Term # rf[s].currentTerm
            /\ c.reply.Term <= rf[s].currentTerm)
  BY <1>1, <1>2 DEF ReceiveAppendReply, Through, voteVars
<1>4. /\ s \in Server /\ c.to \in Server /\ c.args \in AppendEntriesArgs
      /\ c.reply \in AppendEntriesReplies
  BY <1>1, <1>3, AppendCallFields
<1>5. rf[s] \in Unsnapped /\ rf[s].currentTerm \in Nat /\ c.reply.Term \in Nat
  BY <1>4 DEF Typed, Unsnapped, Peer, AppendEntriesReplies
<1>6. Quiet(rf[s], q)
  BY <1>2, <1>4, <1>5, HandleAppendEntriesQuiet
<1>7. CASE ~(rf[s].role = "Leader" /\ c.reply.Term <= rf[s].currentTerm /\ c.reply.Success)
  <2>1. Idle(rf[s], q)
    BY <1>2, <1>4, <1>5, <1>7, ReplyIdle
  <2> QED
    BY <1>3, <1>4, <1>6, <2>1, OneIdles
<1>8. CASE rf[s].role = "Leader" /\ c.reply.Term <= rf[s].currentTerm /\ c.reply.Success
  <2>1. PICK x : x = rf[s].currentTerm
    OBVIOUS
  <2>2. PICK l : l = rf[s].logs
    OBVIOUS
  <2>3. c.args.Term = x /\ ~(c.reply.Term > rf[s].currentTerm)
    BY <1>3, <1>5, <1>8, <2>1, SMTT(30)
  <2>4. s # c.to
    BY <1>1 DEF Safe, SentInv, CallOK
  <2>5. ~Majority(1)
    BY <1>4, <2>4 DEF Steady, QuorumsShared
  <2>6. CountsAnswer(rf[s], q, s, c.to, c.args)
    BY <1>2, <1>4, <1>5, <1>8, <2>3, <2>5, ReplyFields
  <2>7. rf'[s] = q /\ \A t \in Server \ {s} : rf'[t] = rf[t]
    BY <1>3, <1>4, <1>6, PeerChanges DEF Quiet
  <2>8. leaderLog' = leaderLog /\ acks' = acks
    BY <1>3 DEF copyVars
  <2>9. Commits(c, s, x, l)
    BY <1>1, <1>3, <1>8, <2>1, <2>2, <2>3, <2>6, <2>7, <2>8 DEF Commits, CountsAnswer, Leader
  <2>10. Safe' /\ Kept(s)
    BY <1>4, <2>9, CommitStep
  <2>11. \A t \in Server \ {s} : Kept(t)
    BY <2>7, IdleReflexive, IdleKept
  <2> QED
    BY <2>10, <2>11 DEF Sound
<1> QED
  BY <1>7, <1>8

-----------------------------------------------------------------------------
(* Every step *)

LEMMA StepSound ==
    ASSUME Typed, Steady, Safe, UnlockedInv, LeaderInv', windows' = {}, [Next]_vars
    PROVE  Sound
<1>1. ASSUME NEW s \in Server, PeerStep(s) PROVE Sound
  BY <1>1, OtherSound, StartElectionSound, SendRequestVotesSound, HeartbeatSound DEF PeerStep
<1>2. ASSUME NEW c \in appendCalls, AppendStep(c) PROVE Sound
  BY <1>2, OtherSound, PrepareAppendSound, SendAppendSound, AcceptSound, RefuseSound,
     ReceiveAppendReplySound DEF AppendStep
<1>3. ASSUME NEW m \in voteRequests, ReceiveRequestVote(m) PROVE Sound
  BY <1>3, ReceiveRequestVoteSound
<1>4. ASSUME NEW m \in voteReplies, ReceiveVoteReply(m) PROVE Sound
  BY <1>4, ReceiveVoteReplySound
<1>5. ASSUME NEW p \in starts, StartAppends(p) PROVE Sound
  BY <1>5, StartAppendsSound
<1>6. ASSUME NEW c \in snapCalls, SnapshotStep(c) PROVE Sound
  BY <1>6, SnapshotSound
<1>7. ASSUME UNCHANGED vars PROVE Sound
  BY <1>7, OtherSound
<1> QED
  BY <1>1, <1>2, <1>3, <1>4, <1>5, <1>6, <1>7 DEF Next

(* The logs, votes and calls have their types in every typed state. *)
LEMMA LogTypes == Typed => LogsTyped
<1> SUFFICES ASSUME Typed PROVE LogsTyped
  OBVIOUS
<1>1. ASSUME NEW l \in Seq(LogEntry)
      PROVE  Len(l) \in Nat /\ \A k \in 1..Len(l) : l[k].Term \in Nat
  <2>1. \A k \in 1..Len(l) : l[k] \in LogEntry
    BY ElementOfSeq
  <2> QED
    BY <2>1, LenProperties DEF LogEntry
<1>2. ASSUME NEW s \in Server
      PROVE  /\ rf[s] \in Unsnapped /\ rf[s].currentTerm \in Nat
             /\ rf[s].lastIncludedIndex = 0
             /\ rf[s].logs \in Seq(LogEntry) /\ Len(rf[s].logs) > 0
             /\ rf[s].commitIndex \in Int /\ rf[s].role \in Role
             /\ \A i \in Server : rf[s].matchIndex[i] \in Int
  <2>1. PICK p : p = rf[s]
    OBVIOUS
  <2>2. p \in Unsnapped
    BY <2>1 DEF Typed
  <2>3. /\ p.currentTerm \in Nat /\ p.lastIncludedIndex = 0 /\ p.logs \in Seq(LogEntry)
        /\ Len(p.logs) > 0 /\ p.commitIndex \in Int /\ p.role \in Role
        /\ \A i \in Server : p.matchIndex[i] \in Int
    BY <2>2 DEF Unsnapped, Peer
  <2> QED
    BY <2>1, <2>2, <2>3
<1>3. \A t \in DOMAIN leaderLog : t \in Nat /\ leaderLog[t] \in Seq(LogEntry)
  BY DEF Typed, TypeOK, CopiesTyped
<1>4. \A a \in acks : a.peer \in Server /\ a.term \in Nat /\ a.length \in Nat
  BY DEF Typed, TypeOK, CopiesTyped
<1> QED
  BY <1>1, <1>2, <1>3, <1>4 DEF LogsTyped

LEMMA VoteTypesHold == Typed => VotesTyped
<1> SUFFICES ASSUME Typed PROVE VotesTyped
  OBVIOUS
<1>1. grants \subseteq [voter : Server, term : Nat, candidate : Server]
  BY DEF Typed, TypeOK
<1>2. voteRequests \subseteq VoteRequest
  BY DEF Typed, TypeOK
<1>3. \A m \in voteRequests : m.election \in DOMAIN elections[m.from]
  BY DEF Typed
<1> QED
  BY <1>1, <1>2, <1>3 DEF VotesTyped, VoteRequest

LEMMA TypesNext == Typed' => LogsTyped' /\ VotesTyped'
BY LogTypes, VoteTypesHold, PTL

LEMMA InitSafe == Init => Safe
<1> SUFFICES ASSUME Init PROVE Safe
  OBVIOUS
<1>1. PICK l : l = Make.logs
  OBVIOUS
<1>2. Len(l) = 1 /\ l[1].Term = 0
  BY <1>1 DEF Make
<1>3. /\ \A s \in Server : /\ rf[s].logs = l /\ rf[s].currentTerm = 0
                           /\ rf[s].role = "Follower" /\ rf[s].commitIndex = 0
      /\ DOMAIN leaderLog = {0} /\ leaderLog[0] = l
      /\ acks = {} /\ grants = {} /\ voteRequests = {} /\ appendCalls = {}
  BY <1>1 DEF Init, Make
<1>4. Agree(l, l, 1) /\ \A k \in 1..Len(l) : k = 1
  BY <1>2, SMTT(30) DEF Agree
<1>5. Copied(l) /\ \A k \in 1..Len(l) : l[k].Term = 0
  BY <1>2, <1>3, <1>4, SMTT(30) DEF Copied
<1>6. LedgerInv
  BY <1>3, <1>5, SMTT(30) DEF LedgerInv, LedgerOK
<1>7. PeerInv
  BY <1>3, <1>5, SMTT(30) DEF PeerInv, LogOK, LeadOK, CommitOK, Leader
<1>8. AckInv /\ SentInv
  BY <1>3 DEF AckInv, SentInv
<1>9. ChoiceInv
  BY <1>3, SMTT(30) DEF ChoiceInv, ChoiceOK, Acked
<1> QED
  BY <1>6, <1>7, <1>8, <1>9 DEF Safe

-----------------------------------------------------------------------------
(* What the invariant says of the logs *)

LEMMA CommittedIndex ==
    ASSUME LogsTyped, NEW s \in Server, NEW n
    PROVE  /\ LastLogicalIndex(rf[s]) = Len(rf[s].logs) - 1
           /\ n \in Committed(s) <=>
                n \in Nat /\ n >= 1 /\ n <= rf[s].commitIndex /\ n + 1 \in 1..Len(rf[s].logs)
<1>1. /\ Len(rf[s].logs) \in Nat /\ rf[s].lastIncludedIndex = 0 /\ rf[s].commitIndex \in Int
  BY DEF LogsTyped
<1>2. LastLogicalIndex(rf[s]) = Len(rf[s].logs) - 1
  BY <1>1, SMTT(30) DEF LastLogicalIndex
<1>3. Len(rf[s].logs) - 1 \in Int
  BY <1>1, SMTT(30)
<1>4. PICK a : a = rf[s].commitIndex
  OBVIOUS
<1>5. PICK b : b = Len(rf[s].logs) - 1
  OBVIOUS
<1>6. Committed(s) = 1..(IF a <= b THEN a ELSE b)
  <2>1. Min({a, b}) = IF a <= b THEN a ELSE b
    BY <1>1, <1>3, <1>4, <1>5, MaxMinOfTwo
  <2> QED
    BY <1>2, <1>4, <1>5, <2>1 DEF Committed
<1> QED
  BY <1>1, <1>2, <1>4, <1>5, <1>6, SMTT(30)

CountsCommitted ==
    \A s \in Server : \A n \in Nat :
        n >= 1 /\ n <= rf[s].commitIndex /\ n + 1 \in 1..Len(rf[s].logs) => n \in Committed(s)

LEMMA CommittedIndexNext == LogsTyped' => CountsCommitted'
<1>1. LogsTyped => CountsCommitted
  BY CommittedIndex DEF CountsCommitted
<1> QED
  BY <1>1, PTL

LEMMA MatchingLogs ==
    ASSUME LogsTyped, Safe PROVE LogMatching
<1> SUFFICES ASSUME NEW s \in Server, NEW t \in Server,
                    NEW n \in 1..Min({LastLogicalIndex(rf[s]), LastLogicalIndex(rf[t])}),
                    Entry(rf[s], n).Term = Entry(rf[t], n).Term, NEW k \in 1..n
             PROVE  Entry(rf[s], k) = Entry(rf[t], k)
  BY DEF LogMatching
<1>1. PICK l : l = rf[s].logs
  OBVIOUS
<1>2. PICK m : m = rf[t].logs
  OBVIOUS
<1>3. /\ l \in Seq(LogEntry) /\ m \in Seq(LogEntry) /\ Len(l) \in Nat /\ Len(m) \in Nat
  BY <1>1, <1>2 DEF LogsTyped
<1>4. Copied(l) /\ Copied(m)
  BY <1>1, <1>2 DEF Safe, PeerInv, LogOK
<1>5. LastLogicalIndex(rf[s]) = Len(l) - 1 /\ LastLogicalIndex(rf[t]) = Len(m) - 1
  BY <1>1, <1>2, CommittedIndex
<1>6. Len(l) - 1 \in Int /\ Len(m) - 1 \in Int
  BY <1>3, SMTT(30)
<1>7. n \in 1..(IF Len(l) - 1 <= Len(m) - 1 THEN Len(l) - 1 ELSE Len(m) - 1)
  BY <1>5, <1>6, MaxMinOfTwo
<1>8. n + 1 \in 1..Len(l) /\ n + 1 \in 1..Len(m) /\ k + 1 \in 1..(n + 1)
  BY <1>3, <1>7, SMTT(30)
<1>9. l[n + 1].Term = m[n + 1].Term
  BY <1>1, <1>2 DEF Entry
<1>10. Agree(l, m, n + 1)
  BY <1>3, <1>4, <1>8, <1>9, CopiesAgree
<1> QED
  BY <1>1, <1>2, <1>8, <1>10 DEF Agree, Entry

(* Two chosen positions agree on all positions before. *)
LEMMA ChosenAgree ==
    ASSUME LogsTyped, Safe, NEW t, NEW i, Chosen(t, i), NEW u, NEW j, Chosen(u, j),
           NEW k \in Nat, k >= 1, k <= i, k <= j, t <= u
    PROVE  leaderLog[t][k] = leaderLog[u][k]
<1>1. /\ OwnEntry(t, i) /\ t \in DOMAIN leaderLog /\ i \in 1..Len(leaderLog[t])
      /\ u \in DOMAIN leaderLog
  BY DEF Chosen, OwnEntry
<1>2. t \in Nat /\ u \in Nat /\ Len(leaderLog[t]) \in Nat /\ leaderLog[u] \in Seq(LogEntry)
  BY <1>1 DEF LogsTyped
<1>3. CASE t = u
  BY <1>3
<1>4. CASE t < u
  <2>1. Choosable(t, i)
    BY ChosenChoosable
  <2>2. Has(leaderLog[u], t, i)
    BY <1>1, <1>4, <2>1 DEF Safe, ChoiceInv, ChoiceOK
  <2>3. Copied(leaderLog[u])
    BY <1>1 DEF Safe, LedgerInv, LedgerOK
  <2>4. Agree(leaderLog[u], leaderLog[t], i)
    BY <1>1, <1>2, <2>2, <2>3, HasAll
  <2>5. k \in 1..i
    BY <1>1, <1>2, SMTT(30)
  <2> QED
    BY <2>4, <2>5 DEF Agree
<1> QED
  BY <1>2, <1>3, <1>4, SMTT(30)

LEMMA SafeStateMachines ==
    ASSUME LogsTyped, Safe PROVE StateMachineSafety
<1> SUFFICES ASSUME NEW s \in Server, NEW t \in Server,
                    NEW n \in Committed(s) \cap Committed(t)
             PROVE  Entry(rf[s], n) = Entry(rf[t], n)
  BY DEF StateMachineSafety
<1>1. n \in Nat /\ n >= 1 /\ n <= rf[s].commitIndex /\ n <= rf[t].commitIndex
  BY CommittedIndex
<1>2. n \in 1..rf[s].commitIndex /\ n \in 1..rf[t].commitIndex
  BY <1>1, SMTT(30) DEF LogsTyped
<1>3. /\ DecidedIn(rf[s].logs, n + 1, rf[s].currentTerm)
      /\ DecidedIn(rf[t].logs, n + 1, rf[t].currentTerm)
  BY <1>2 DEF Safe, PeerInv, CommitOK
<1>4. PICK k \in Nat : k = n + 1
  BY <1>1, SMTT(30)
<1>5. PICK x \in DOMAIN leaderLog :
        /\ \E i \in k..Len(leaderLog[x]) : Chosen(x, i)
        /\ Has(rf[s].logs, x, k)
  BY <1>3, <1>4 DEF DecidedIn
<1>6. PICK y \in DOMAIN leaderLog :
        /\ \E i \in k..Len(leaderLog[y]) : Chosen(y, i)
        /\ Has(rf[t].logs, y, k)
  BY <1>3, <1>4 DEF DecidedIn
<1>7. PICK i : Chosen(x, i) /\ k <= i
  BY <1>5, SMTT(30)
<1>8. PICK j : Chosen(y, j) /\ k <= j
  BY <1>6, SMTT(30)
<1>9. k >= 1 /\ x \in Nat /\ y \in Nat
  BY <1>1, <1>4, <1>5, <1>6, SMTT(30) DEF LogsTyped
<1>10. leaderLog[x][k] = leaderLog[y][k]
  <2>1. CASE x <= y
    BY <1>7, <1>8, <1>9, <2>1, ChosenAgree, SMTT(30)
  <2>2. CASE y <= x
    BY <1>7, <1>8, <1>9, <2>2, ChosenAgree, SMTT(30)
  <2> QED
    BY <1>9, <2>1, <2>2, SMTT(30)
<1> QED
  BY <1>4, <1>5, <1>6, <1>10 DEF Has, Entry

(* The peers that stored what was decided still have it. *)
LEMMA CommittedStored ==
    ASSUME LogsTyped, QuorumsGrow, Safe PROVE CommittedOnMajority
<1> SUFFICES ASSUME NEW s \in Server, NEW n \in Committed(s)
             PROVE  Majority(Cardinality({t \in Server :
                        /\ n <= LastLogicalIndex(rf[t])
                        /\ Entry(rf[t], n) = Entry(rf[s], n)}))
  BY DEF CommittedOnMajority
<1>1. n \in Nat /\ n >= 1 /\ n <= rf[s].commitIndex
  BY CommittedIndex
<1>2. n \in 1..rf[s].commitIndex
  BY <1>1, SMTT(30) DEF LogsTyped
<1>3. DecidedIn(rf[s].logs, n + 1, rf[s].currentTerm)
  BY <1>2 DEF Safe, PeerInv, CommitOK
<1>4. PICK k \in Nat : k = n + 1
  BY <1>1, SMTT(30)
<1>5. PICK x \in DOMAIN leaderLog :
        /\ \E i \in k..Len(leaderLog[x]) : Chosen(x, i)
        /\ Has(rf[s].logs, x, k)
  BY <1>3, <1>4 DEF DecidedIn
<1>6. PICK i : Chosen(x, i) /\ k <= i
  BY <1>5, SMTT(30)
<1>7. PICK Q \in Quorum : \A v \in Q : Acked(v, x, i)
  BY <1>6 DEF Chosen
<1>8. Q \in SUBSET Server /\ Majority(Cardinality(Q))
  BY <1>7 DEF Quorum
<1>9. ASSUME NEW v \in Q
      PROVE  n <= LastLogicalIndex(rf[v]) /\ Entry(rf[v], n) = Entry(rf[s], n)
  <2>1. v \in Server
    BY <1>8
  <2>2. OwnEntry(x, i) /\ i \in 1..Len(leaderLog[x]) /\ Choosable(x, i)
    BY <1>6, ChosenChoosable DEF Chosen, OwnEntry
  <2>3. Has(rf[v].logs, x, i)
    BY <1>5, <1>7, <2>1, <2>2 DEF Safe, ChoiceInv, ChoiceOK
  <2>4. /\ Len(rf[v].logs) \in Nat /\ rf[v].logs \in Seq(LogEntry)
        /\ Len(leaderLog[x]) \in Nat /\ Copied(rf[v].logs)
    BY <1>5, <2>1 DEF LogsTyped, Safe, PeerInv, LogOK
  <2>5. Agree(rf[v].logs, leaderLog[x], i)
    BY <2>2, <2>3, <2>4, HasAll
  <2>6. k \in 1..i /\ i \in Nat /\ i <= Len(rf[v].logs)
    BY <1>1, <1>4, <1>6, <2>2, <2>4, <2>5, SMTT(30) DEF Agree
  <2>7. rf[v].logs[k] = leaderLog[x][k]
    BY <2>5, <2>6 DEF Agree
  <2>8. LastLogicalIndex(rf[v]) = Len(rf[v].logs) - 1
    BY <2>1, CommittedIndex
  <2>9. n <= Len(rf[v].logs) - 1
    BY <1>1, <1>4, <2>4, <2>6, SMTT(30)
  <2> QED
    BY <1>4, <1>5, <2>7, <2>8, <2>9 DEF Has, Entry
<1>10. PICK B : B = {t \in Server : /\ n <= LastLogicalIndex(rf[t])
                                    /\ Entry(rf[t], n) = Entry(rf[s], n)}
  OBVIOUS
<1>11. B \in SUBSET Server /\ Q \subseteq B
  BY <1>8, <1>9, <1>10
<1> QED
  BY <1>8, <1>10, <1>11 DEF QuorumsGrow

(* A peer that keeps what it committed keeps it where it was. *)
LEMMA KeptCommitted ==
    ASSUME LogsTyped, LogsTyped', NEW s \in Server, Kept(s)
    PROVE  /\ rf[s].commitIndex <= rf'[s].commitIndex
           /\ \A n \in Committed(s) : n \in Committed(s)' /\ Entry(rf'[s], n) = Entry(rf[s], n)
<1>1. ASSUME NEW n \in Committed(s)
      PROVE  n \in Committed(s)' /\ Entry(rf'[s], n) = Entry(rf[s], n)
  <2>1. n \in Nat /\ n >= 1 /\ n <= rf[s].commitIndex
    BY CommittedIndex
  <2>2. n \in 1..rf[s].commitIndex /\ rf[s].commitIndex \in Int /\ rf'[s].commitIndex \in Int
    BY <2>1, SMTT(30) DEF LogsTyped
  <2>3. /\ n + 1 \in 1..Len(rf'[s].logs) /\ rf'[s].logs[n + 1] = rf[s].logs[n + 1]
        /\ rf[s].commitIndex <= rf'[s].commitIndex
    BY <2>2 DEF Kept
  <2>4. n \in Committed(s)'
    <3>1. n <= rf'[s].commitIndex
      BY <2>1, <2>2, <2>3, SMTT(30)
    <3> QED
      BY <2>1, <2>3, <3>1, CommittedIndexNext DEF CountsCommitted
  <2> QED
    BY <2>3, <2>4 DEF Entry
<1> QED
  BY <1>1 DEF Kept
=============================================================================
