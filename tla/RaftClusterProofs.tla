-------------------------- MODULE RaftClusterProofs --------------------------
(***************************************************************************)
(* Type correctness of RaftCluster and the index ranges of its Leaders,    *)
(* for every number of peers, every network and every bound.  It rests on  *)
(* what the critical sections of RaftPeer do to the struct of a peer that  *)
(* holds no snapshot: they keep it well-formed, and all but the election   *)
(* code leave the vote alone unless the term grows.                        *)
(***************************************************************************)
EXTENDS RaftElectionInv, WellFoundedInduction, TLAPS

(* Most facts are first-order; the ones with arithmetic name SMTT. *)
USE ZenonT(30)

-----------------------------------------------------------------------------
(* Sequences, such as logs and lists of entries *)

(* A sequence is a function on the positions up to its length. *)
LEMMA LenProperties ==
    ASSUME NEW S, NEW seq \in Seq(S)
    PROVE  Len(seq) \in Nat /\ seq \in [1..Len(seq) -> S] /\ DOMAIN seq = 1..Len(seq)
BY SMTT(30)

(* What stands at a position belongs to the set the sequence is over. *)
LEMMA ElementOfSeq ==
    ASSUME NEW S, NEW seq \in Seq(S), NEW n \in 1..Len(seq) PROVE seq[n] \in S
BY SMTT(30)

(* A slice of a log or of the entries of a request. *)
LEMMA SubSeqProperties ==
    ASSUME NEW S, NEW s, NEW m \in Int, NEW n \in Int, \A i \in m..n : s[i] \in S
    PROVE  /\ SubSeq(s, m, n) \in Seq(S)
           /\ Len(SubSeq(s, m, n)) = IF m <= n THEN n - m + 1 ELSE 0
           /\ \A i \in 1..(n - m + 1) : SubSeq(s, m, n)[i] = s[m + i - 1]
BY SMTT(30)

(* Entries put after a log. *)
LEMMA ConcatProperties ==
    ASSUME NEW S, NEW s \in Seq(S), NEW t \in Seq(S)
    PROVE  /\ s \o t \in Seq(S)
           /\ Len(s \o t) = Len(s) + Len(t)
           /\ \A i \in 1..(Len(s) + Len(t)) :
                (s \o t)[i] = IF i <= Len(s) THEN s[i] ELSE t[i - Len(s)]
BY SMTT(30)

(* One entry put after a log. *)
LEMMA AppendProperties ==
    ASSUME NEW S, NEW seq \in Seq(S), NEW e \in S
    PROVE  /\ Append(seq, e) \in Seq(S)
           /\ Len(Append(seq, e)) = Len(seq) + 1
           /\ \A i \in 1..Len(seq) : Append(seq, e)[i] = seq[i]
           /\ Append(seq, e)[Len(seq) + 1] = e
BY SMTT(30)

(* One element of a sequence replaced. *)
LEMMA ExceptSeq ==
    ASSUME NEW S, NEW seq \in Seq(S), NEW i \in 1..Len(seq), NEW e \in S
    PROVE  [seq EXCEPT ![i] = e] \in Seq(S) /\ Len([seq EXCEPT ![i] = e]) = Len(seq)
BY SMTT(30)

-----------------------------------------------------------------------------
(* Max, as FiniteSetsExt chooses it, on the sets of indices used here *)

NatPairs == {p \in Nat \X Nat : p[1] < p[2]}

(* The usual order of the naturals is well founded. *)
LEMMA NatPairsWellFounded == IsWellFoundedOn(NatPairs, Nat)
BY NatLessThanWellFounded DEF OpToRel, NatPairs

(* A nonempty set of log indices has a greatest element, and Max is it:     *)
(* what the descending scans of handleAppendEntries and AppendEntries find. *)
LEMMA MaxOfIndices ==
    ASSUME NEW a \in Int, NEW b \in Int, NEW S \in SUBSET (a..b), S # {}
    PROVE  /\ Max(S) \in S
           /\ \A y \in S : Max(S) >= y
<1> DEFINE T == {b - x : x \in S}
<1>1. T \subseteq Nat /\ T # {}
  <2>1. T \subseteq Nat
    BY SMTT(30)
  <2>2. T # {}
    OBVIOUS
  <2> QED
    BY <2>1, <2>2
<1>2. PICK t \in T : \A y \in T : <<y, t>> \notin NatPairs
  <2> HIDE DEF T
  <2> QED BY <1>1, NatPairsWellFounded, WFMin
<1>3. ASSUME NEW y \in T PROVE t <= y
  <2> HIDE DEF T
  <2>1. y \in Nat /\ t \in Nat
    BY <1>1
  <2>2. ~(y < t)
    BY <1>2, <2>1 DEF NatPairs
  <2> QED
    BY <2>1, <2>2, SMTT(30)
<1>4. PICK x \in S : t = b - x
  BY <1>2
<1>5. ASSUME NEW y \in S PROVE x >= y
  <2>1. t <= b - y
    BY <1>3
  <2> QED
    BY <1>4, <2>1, SMTT(30)
<1> QED
  BY <1>5 DEF Max

(* Max and Min of two indices *)
LEMMA MaxMinOfTwo ==
    ASSUME NEW a \in Int, NEW b \in Int
    PROVE  /\ Max({a, b}) = IF a >= b THEN a ELSE b
           /\ Min({a, b}) = IF a <= b THEN a ELSE b
BY SMTT(30) DEF Max, Min

-----------------------------------------------------------------------------
(* A peer whose service has taken no snapshot: logs[0] is there and the    *)
(* logical indices are the storage indices.                                *)
Unsnapped == {p \in Peer : Len(p.logs) > 0 /\ p.lastIncludedIndex = 0}

(* A step from p to q that takes no part in an election: the term grows,   *)
(* and then the peer is a Follower without a vote, or term and vote stay   *)
(* and the role does unless the peer becomes a Follower.  Only a Follower  *)
(* can lose entries of its log.                                            *)
Quiet(p, q) ==
    /\ q \in Unsnapped
    /\ \/ /\ q.currentTerm = p.currentTerm /\ q.votedFor = p.votedFor
          /\ q.role \in {p.role, "Follower"}
       \/ /\ q.currentTerm > p.currentTerm /\ q.votedFor = -1
          /\ q.role = "Follower"
    /\ q.role # "Follower" => Len(q.logs) >= Len(p.logs)

(* Make returns a well-formed peer. *)
LEMMA MakeUnsnapped == Make \in Unsnapped
BY NilAssumption, SMTT(30) DEF Make, Unsnapped, Peer, LogEntry, Role

(* Adopting a newer term is quiet. *)
LEMMA StepDownQuiet ==
    ASSUME NEW p \in Unsnapped, NEW term \in Nat, term > p.currentTerm
    PROVE  Quiet(p, StepDown(p, term))
BY DEF Unsnapped, Peer, Role, Quiet, StepDown, ConvertRole

(* The reaction to any term is quiet. *)
LEMMA ObserveTermQuiet ==
    ASSUME NEW p \in Unsnapped, NEW term \in Nat
    PROVE  /\ Quiet(p, ObserveTerm(p, term))
           /\ ObserveTerm(p, term).currentTerm = Max({p.currentTerm, term})
           /\ ObserveTerm(p, term).logs = p.logs
           /\ ObserveTerm(p, term).nextIndex = p.nextIndex
<1>1. p.currentTerm \in Nat
  BY DEF Unsnapped, Peer
<1>2. CASE term > p.currentTerm
  <2>1. ObserveTerm(p, term) = StepDown(p, term)
    BY <1>2 DEF ObserveTerm
  <2>2. /\ StepDown(p, term).currentTerm = term
        /\ StepDown(p, term).logs = p.logs
        /\ StepDown(p, term).nextIndex = p.nextIndex
    BY DEF StepDown, ConvertRole, Unsnapped, Peer
  <2> QED
    BY <1>1, <1>2, <2>1, <2>2, StepDownQuiet, MaxMinOfTwo, SMTT(30)
<1>3. CASE ~(term > p.currentTerm)
  BY <1>1, <1>3, MaxMinOfTwo, SMTT(30) DEF ObserveTerm, Quiet, Unsnapped
<1> QED
  BY <1>2, <1>3

-----------------------------------------------------------------------------
(* Elections *)

(* logs[0] is always there, so the last index and term are defined. *)
LEMMA LastLogType ==
    ASSUME NEW p \in Unsnapped
    PROVE  /\ LastLogicalIndex(p) \in Nat
           /\ LastLogicalIndex(p) = Len(p.logs) - 1
           /\ LastStorageIndex(p) = Len(p.logs) - 1
           /\ LastLogTerm(p) \in Nat
           /\ \A n \in 0..LastLogicalIndex(p) : Entry(p, n) \in LogEntry
<1>1. p.logs \in Seq(LogEntry) /\ Len(p.logs) \in Nat \ {0} /\ p.lastIncludedIndex = 0
  BY LenProperties, SMTT(30) DEF Unsnapped, Peer
<1>2. \A n \in 1..Len(p.logs) : p.logs[n] \in LogEntry
  BY <1>1, ElementOfSeq
<1>3. p.logs[Len(p.logs)].Term \in Nat
  BY <1>1, <1>2, SMTT(30) DEF LogEntry
<1> QED
  BY <1>1, <1>2, <1>3, SMTT(30)
     DEF LastLogicalIndex, LastStorageIndex, LastLogTerm, Entry

(* startElection *)
LEMMA BecomeCandidateType ==
    ASSUME NEW p \in Unsnapped, NEW me \in Server
    PROVE  LET q == BecomeCandidate(p, me)
           IN  /\ q \in Unsnapped
               /\ q.currentTerm = p.currentTerm + 1
               /\ q.votedFor = me
               /\ q.role = "Candidate"
               /\ q.logs = p.logs
<1>1. ConvertRole(p, "Candidate") = [p EXCEPT !.role = "Candidate"]
  BY DEF ConvertRole
<1> DEFINE term == p.currentTerm + 1
<1>2. term \in Nat
  BY SMTT(30) DEF Unsnapped, Peer
<1>3. BecomeCandidate(p, me) =
        [p EXCEPT !.role = "Candidate", !.currentTerm = term, !.votedFor = me]
  BY <1>1 DEF BecomeCandidate, Unsnapped, Peer
<1> HIDE DEF term
<1>4. LET q == BecomeCandidate(p, me)
      IN  /\ q \in Unsnapped /\ q.currentTerm = term /\ q.votedFor = me
          /\ q.role = "Candidate" /\ q.logs = p.logs
  BY <1>2, <1>3 DEF Unsnapped, Peer, Role
<1> QED
  BY <1>4 DEF term

(* genRequestVoteArgs *)
LEMMA GenRequestVoteArgsType ==
    ASSUME NEW p \in Unsnapped, NEW me \in Server
    PROVE  /\ GenRequestVoteArgs(p, me) \in RequestVoteArgs
           /\ GenRequestVoteArgs(p, me).Term = p.currentTerm
           /\ GenRequestVoteArgs(p, me).CandidateId = me
<1>1. p.currentTerm \in Nat /\ LastLogicalIndex(p) \in Int /\ LastLogTerm(p) \in Nat
  BY LastLogType, SMTT(30) DEF Unsnapped, Peer
<1> QED
  BY <1>1 DEF GenRequestVoteArgs, RequestVoteArgs

(* RequestVote keeps the peer well-formed; it never changes the vote of     *)
(* the current term from one candidate to another, and the log not at all. *)
LEMMA RequestVoteType ==
    ASSUME NEW p \in Unsnapped, NEW args \in RequestVoteArgs
    PROVE  LET q == RequestVote(p, args)
           IN  /\ q \in Unsnapped
               /\ q.logs = p.logs
               /\ q.nextIndex = p.nextIndex
               /\ RequestVoteReply(p, args) \in RequestVoteReplies
               /\ RequestVoteReply(p, args).VoteGranted = GrantsVote(p, args)
               /\ \/ /\ q.currentTerm = p.currentTerm /\ q.role = p.role
                     /\ ~GrantsVote(p, args) => 
                            \/ q.votedFor = p.votedFor
                            \/ /\ q.votedFor = -1
                               /\ args.Term = p.currentTerm
                               /\ p.votedFor \in {-1, args.CandidateId}
                     /\ GrantsVote(p, args) =>
                            /\ q.votedFor = args.CandidateId
                            /\ args.Term = p.currentTerm
                            /\ p.votedFor \in {-1, args.CandidateId}
                  \/ /\ q.currentTerm > p.currentTerm /\ q.role = "Follower"
                     /\ q.currentTerm = args.Term
                     /\ q.votedFor = IF GrantsVote(p, args)
                                     THEN args.CandidateId ELSE -1
<1> DEFINE o == ObserveTerm(p, args.Term)
           q == RequestVote(p, args)
<1>1. /\ p.currentTerm \in Nat /\ args.Term \in Nat /\ args.CandidateId \in Server
      /\ p.votedFor \in Server \cup {-1}
      /\ GrantsVote(p, args) \in BOOLEAN
  BY DEF Unsnapped, Peer, RequestVoteArgs, GrantsVote
<1>2. CASE RefusesVote(p, args)
  <2>1. q = p /\ ~GrantsVote(p, args)
    BY <1>2 DEF RequestVote, GrantsVote
  <2> QED
    BY <1>1, <2>1 DEF RequestVoteReply, RequestVoteReplies
<1>3. CASE ~RefusesVote(p, args)
  <2> DEFINE v == IF GrantsVote(p, args) THEN args.CandidateId ELSE -1
  <2>1. q = [o EXCEPT !.votedFor = v]
    BY <1>3 DEF RequestVote
  <2>2. /\ Quiet(p, o) /\ o.currentTerm = Max({p.currentTerm, args.Term})
        /\ o.logs = p.logs /\ o.nextIndex = p.nextIndex
    BY <1>1, ObserveTermQuiet
  <2>3. /\ args.Term >= p.currentTerm
        /\ args.Term = p.currentTerm => p.votedFor \in {-1, args.CandidateId}
        /\ o.currentTerm = args.Term
    BY <1>1, <1>3, <2>2, MaxMinOfTwo, SMTT(30) DEF RefusesVote
  <2>4. args.Term = p.currentTerm => o = p
    BY <1>1, SMTT(30) DEF ObserveTerm
  <2>5. v \in Server \cup {-1}
    BY <1>1
  <2> HIDE DEF v, o, q
  <2>6. /\ q \in Unsnapped /\ q.votedFor = v /\ q.logs = p.logs
        /\ q.nextIndex = p.nextIndex
        /\ q.currentTerm = o.currentTerm /\ q.role = o.role
    BY <2>1, <2>2, <2>5 DEF Quiet, Unsnapped, Peer
  <2>7. o.currentTerm > p.currentTerm => o.role = "Follower"
    BY <1>1, <2>2, SMTT(30) DEF Quiet
  <2>8. args.Term = p.currentTerm \/ args.Term > p.currentTerm
    BY <1>1, <2>3, SMTT(30)
  <2>9. RequestVoteReply(p, args) \in RequestVoteReplies
    BY <1>1, <2>6, <2>3 DEF RequestVoteReply, RequestVoteReplies, q
  <2> USE DEF v, q
  <2> QED
    BY <1>1, <2>3, <2>4, <2>6, <2>7, <2>8, <2>9 DEF RequestVoteReply
<1> QED
  BY <1>2, <1>3

(* The reply goroutine of startElection: the peer becomes Leader of its     *)
(* current term, from Candidate, with a majority; else the step is quiet.  *)
LEMMA HandleVoteReplyType ==
    ASSUME NEW p \in Unsnapped, NEW reply \in RequestVoteReplies, NEW voteCount \in Nat
    PROVE  LET q == HandleVoteReply(p, reply, voteCount)
           IN  \/ /\ CountsVote(p, reply) /\ Majority(voteCount + 1)
                  /\ q \in Unsnapped
                  /\ q.currentTerm = p.currentTerm /\ q.votedFor = p.votedFor
                  /\ p.role = "Candidate" /\ q.role = "Leader"
                  /\ q.logs = p.logs
                  /\ q.nextIndex = [i \in Server |-> LastLogicalIndex(p) + 1]
               \/ /\ ~(CountsVote(p, reply) /\ Majority(voteCount + 1))
                  /\ Quiet(p, q)
                  /\ q.nextIndex = p.nextIndex
<1>1. CASE CountsVote(p, reply) /\ Majority(voteCount + 1)
  <2>1. HandleVoteReply(p, reply, voteCount) = ConvertRole(p, "Leader")
    BY <1>1 DEF HandleVoteReply
  <2>2. LastLogicalIndex(p) \in Nat
    BY LastLogType
  <2>3. LET q == ConvertRole(p, "Leader")
        IN  /\ q \in Unsnapped
            /\ q.currentTerm = p.currentTerm /\ q.votedFor = p.votedFor
            /\ q.role = "Leader" /\ q.logs = p.logs
            /\ q.nextIndex = [i \in Server |-> LastLogicalIndex(p) + 1]
    <3> DEFINE next == [i \in Server |-> LastLogicalIndex(p) + 1]
               match == [i \in Server |-> -1]
    <3>1. next \in [Server -> Int] /\ match \in [Server -> Int]
      BY <2>2, SMTT(30)
    <3>2. ConvertRole(p, "Leader") =
            [p EXCEPT !.role = "Leader", !.nextIndex = next, !.matchIndex = match]
      BY DEF ConvertRole
    <3> HIDE DEF next, match
    <3>3. LET q == ConvertRole(p, "Leader")
          IN  /\ q \in Unsnapped
              /\ q.currentTerm = p.currentTerm /\ q.votedFor = p.votedFor
              /\ q.role = "Leader" /\ q.logs = p.logs /\ q.nextIndex = next
      BY <3>1, <3>2 DEF Unsnapped, Peer, Role
    <3> QED
      BY <3>3 DEF next
  <2> QED
    BY <1>1, <2>1, <2>3 DEF CountsVote
<1>2. CASE CountsVote(p, reply) /\ ~Majority(voteCount + 1)
  <2>1. HandleVoteReply(p, reply, voteCount) = p
    BY <1>2 DEF HandleVoteReply
  <2> QED
    BY <1>2, <2>1, SMTT(30) DEF Quiet, Unsnapped, Peer
<1>3. CASE ~CountsVote(p, reply)
  <2>1. HandleVoteReply(p, reply, voteCount) = ObserveTerm(p, reply.Term)
    BY <1>3 DEF HandleVoteReply
  <2> QED
    BY <1>3, <2>1, ObserveTermQuiet DEF RequestVoteReplies
<1> QED
  BY <1>1, <1>2, <1>3

-----------------------------------------------------------------------------
(* Log replication *)

(* genAppendEntries, when it neither panics nor asks for a snapshot, sends *)
(* what follows an entry the peer has.                                     *)
LEMMA GenAppendEntriesType ==
    ASSUME NEW p \in Unsnapped, NEW me \in Server, NEW server \in Server,
           ~NeedsSnapshot(p, server), ~GenAppendEntriesPanics(p, server)
    PROVE  LET args == GenAppendEntries(p, me, server)
           IN  /\ args \in AppendEntriesArgs
               /\ args.Term = p.currentTerm
               /\ args.PrevLogIndex \in 0..LastLogicalIndex(p)
<1> DEFINE prev == p.nextIndex[server] - 1
           args == GenAppendEntries(p, me, server)
           entries == SubSeq(p.logs, prev + 2, Len(p.logs))
<1>1. /\ p.currentTerm \in Nat /\ p.commitIndex \in Int /\ p.lastIncludedIndex = 0
      /\ p.nextIndex \in [Server -> Int] /\ p.logs \in Seq(LogEntry)
      /\ Len(p.logs) \in Nat
  BY LenProperties DEF Unsnapped, Peer
<1>2. prev \in Int /\ StorageIndex(p, prev) = prev
  BY <1>1, SMTT(30) DEF StorageIndex
<1>3. prev \in 0..LastLogicalIndex(p)
  BY <1>1, <1>2, LastLogType, SMTT(30) DEF NeedsSnapshot, GenAppendEntriesPanics
<1>4. Entry(p, prev) \in LogEntry
  BY <1>3, LastLogType
<1>5. entries \in Seq(LogEntry)
  <2>1. \A i \in (prev + 2)..Len(p.logs) : p.logs[i] \in LogEntry
    BY <1>1, <1>2, <1>3, ElementOfSeq, LastLogType, SMTT(30)
  <2> QED
    BY <1>1, <1>2, <2>1, SubSeqProperties, SMTT(30)
<1>6. args = [Term |-> p.currentTerm, LeaderId |-> me, PrevLogIndex |-> prev,
              PrevLogTerm |-> Entry(p, prev).Term, Entries |-> entries,
              LeaderCommit |-> p.commitIndex]
  BY <1>2 DEF GenAppendEntries
<1>7. Entry(p, prev).Term \in Nat
  BY <1>4 DEF LogEntry
<1>8. prev \in Nat
  BY <1>3, LastLogType, SMTT(30)
<1> HIDE DEF prev, args, entries
<1>9. args \in AppendEntriesArgs /\ args.Term = p.currentTerm /\ args.PrevLogIndex = prev
  BY <1>1, <1>5, <1>6, <1>7, <1>8 DEF AppendEntriesArgs
<1> QED
  BY <1>3, <1>9 DEF args

(* The AppendEntries handler is quiet, and it leaves a Follower behind      *)
(* unless it is stale.                                                     *)
LEMMA AppendEntriesQuiet ==
    ASSUME NEW p \in Unsnapped, NEW args \in AppendEntriesArgs
    PROVE  LET q == AppendEntries(p, args)
           IN  /\ Quiet(p, q)
               /\ q = p \/ q.role = "Follower"
<1> DEFINE o == ObserveTerm(p, args.Term)
           h == ConvertRole(o, "Follower")
           e == StoreEntries(h, args)
           f == FollowCommit(e, args.LeaderCommit)
<1>1. /\ p.currentTerm \in Nat /\ args.Term \in Nat /\ args.PrevLogIndex \in Nat
      /\ args.Entries \in Seq(LogEntry) /\ args.LeaderCommit \in Int
      /\ p.logs \in Seq(LogEntry) /\ Len(p.logs) \in Nat \ {0} /\ p.lastIncludedIndex = 0
  BY LenProperties, SMTT(30) DEF Unsnapped, Peer, AppendEntriesArgs
<1>2. CASE args.Term < p.currentTerm
  <2>1. AppendEntries(p, args) = p
    BY <1>2 DEF AppendEntries
  <2> QED
    BY <2>1, <1>1, SMTT(30) DEF Quiet
<1>3. CASE ~(args.Term < p.currentTerm)
  <2>1. Quiet(p, o) /\ o.logs = p.logs
    BY <1>1, ObserveTermQuiet
  <2> HIDE DEF o
  <2>2. /\ h \in Unsnapped /\ h.role = "Follower" /\ h.logs = p.logs
        /\ h.currentTerm = o.currentTerm /\ h.votedFor = o.votedFor
    BY <2>1 DEF ConvertRole, Quiet, Unsnapped, Peer, Role
  <2> HIDE DEF h
  <2>3. Quiet(p, h)
    BY <2>1, <2>2 DEF Quiet
  <2>4. CASE ~AcceptsEntries(p, args)
    <3>1. AppendEntries(p, args) = h
      BY <1>3, <2>4 DEF AppendEntries, h, o
    <3> QED
      BY <2>2, <2>3, <3>1
  <2>5. CASE AcceptsEntries(p, args)
    <3>1. AppendEntries(p, args) = f
      BY <1>3, <2>5 DEF AppendEntries, h, o
    <3>2. args.PrevLogIndex + 1 \in 1..Len(p.logs)
      BY <1>1, <2>5, LastLogType, SMTT(30) DEF AcceptsEntries, PrevBeyondLog
    <3> DEFINE kept == SubSeq(p.logs, 1, args.PrevLogIndex + 1)
    <3>3. kept \in Seq(LogEntry) /\ Len(kept) > 0
      <4>1. \A i \in 1..(args.PrevLogIndex + 1) : p.logs[i] \in LogEntry
        BY <1>1, <3>2, ElementOfSeq, SMTT(30)
      <4> QED
        BY <1>1, <3>2, <4>1, SubSeqProperties, SMTT(30)
    <3> HIDE DEF kept
    <3> DEFINE log == kept \o args.Entries
    <3>4. log \in Seq(LogEntry) /\ Len(log) > 0
      BY <1>1, <3>3, ConcatProperties, LenProperties, SMTT(30)
    <3>5. e = [h EXCEPT !.logs = log]
      <4>1. StorageIndex(h, args.PrevLogIndex) + 1 = args.PrevLogIndex + 1
        BY <1>1, <2>2, SMTT(30) DEF StorageIndex, Unsnapped
      <4>2. SubSeq(h.logs, 1, StorageIndex(h, args.PrevLogIndex) + 1) = kept
        BY <2>2, <4>1 DEF kept
      <4> QED
        BY <4>2 DEF StoreEntries
    <3> HIDE DEF log
    <3>6. /\ e \in Unsnapped /\ e.role = h.role /\ e.currentTerm = h.currentTerm
          /\ e.votedFor = h.votedFor
      BY <2>2, <3>4, <3>5 DEF Unsnapped, Peer
    <3> HIDE DEF e
    <3>7. /\ f \in Unsnapped /\ f.role = h.role /\ f.currentTerm = h.currentTerm
          /\ f.votedFor = h.votedFor
      <4> DEFINE m == Min({args.LeaderCommit, LastLogicalIndex(e)})
      <4>1. m \in Int
        <5>1. args.LeaderCommit \in Int /\ LastLogicalIndex(e) \in Int
          BY <1>1, <3>6, LastLogType, SMTT(30)
        <5>2. ASSUME NEW a \in Int, NEW b \in Int PROVE Min({a, b}) \in Int
          BY MaxMinOfTwo
        <5> QED
          BY <5>1, <5>2
      <4> HIDE DEF m
      <4>2. f = IF args.LeaderCommit > e.commitIndex
                THEN [e EXCEPT !.commitIndex = m] ELSE e
        BY DEF FollowCommit, m
      <4> QED
        BY <3>6, <4>1, <4>2 DEF Unsnapped, Peer
    <3> HIDE DEF f
    <3> QED
      BY <2>2, <2>3, <3>1, <3>7 DEF Quiet
  <2> QED
    BY <2>4, <2>5
<1> QED
  BY <1>2, <1>3

(* The index and term a rejected leader is sent back to: an index of the    *)
(* follower's log, never beyond the one the leader asked for.              *)
LEMMA AppendEntriesReplyType ==
    ASSUME NEW p \in Unsnapped, NEW args \in AppendEntriesArgs
    PROVE  LET reply == AppendEntriesReply(p, args)
           IN  /\ reply \in AppendEntriesReplies
               /\ reply.ConflictIndex <= args.PrevLogIndex
<1> DEFINE index == StorageIndex(p, args.PrevLogIndex)
<1>1. /\ p.currentTerm \in Nat /\ args.Term \in Nat /\ args.PrevLogIndex \in Nat
      /\ p.lastIncludedIndex = 0 /\ index = args.PrevLogIndex
      /\ LogicalIndex(p, index) = index
  BY SMTT(30) DEF Unsnapped, Peer, AppendEntriesArgs, StorageIndex, LogicalIndex
<1>2. CASE args.Term < p.currentTerm
  <2>1. AppendEntriesReply(p, args) = [Term |-> p.currentTerm, Success |-> FALSE,
                                       ConflictIndex |-> 0, ConflictTerm |-> 0]
    BY <1>1, <1>2, SMTT(30) DEF AppendEntriesReply, AcceptsEntries
  <2> QED
    BY <1>1, <2>1, SMTT(30) DEF AppendEntriesReplies
<1>3. CASE args.Term >= p.currentTerm /\ PrevBeyondLog(p, args)
  <2>1. AppendEntriesReply(p, args) =
            [Term |-> args.Term, Success |-> FALSE,
             ConflictIndex |-> LastLogicalIndex(p), ConflictTerm |-> 0]
    BY <1>1, <1>3, SMTT(30) DEF AppendEntriesReply, AcceptsEntries
  <2>2. LastLogicalIndex(p) \in Nat /\ LastLogicalIndex(p) <= args.PrevLogIndex
    BY <1>1, <1>3, LastLogType, SMTT(30) DEF PrevBeyondLog
  <2> QED
    BY <1>1, <2>1, <2>2, SMTT(30) DEF AppendEntriesReplies
<1>4. CASE AcceptsEntries(p, args)
  <2>1. AppendEntriesReply(p, args) = [Term |-> args.Term, Success |-> TRUE,
                                       ConflictIndex |-> 0, ConflictTerm |-> 0]
    BY <1>1, <1>4, SMTT(30) DEF AppendEntriesReply, AcceptsEntries
  <2> QED
    BY <1>1, <2>1, SMTT(30) DEF AppendEntriesReplies
<1>5. CASE args.Term >= p.currentTerm /\ ~PrevBeyondLog(p, args) /\ PrevConflicts(p, args)
  <2> DEFINE first == FirstOfConflict(p, index)
             below == {0} \cup {i \in 1..index : Entry(p, i).Term < Entry(p, index).Term}
  <2>1. AppendEntriesReply(p, args) =
            [Term |-> args.Term, Success |-> FALSE,
             ConflictIndex |-> LogicalIndex(p, first), ConflictTerm |-> Entry(p, index).Term]
    BY <1>1, <1>5, SMTT(30) DEF AppendEntriesReply, AcceptsEntries
  <2>2. index \in 1..LastLogicalIndex(p)
    BY <1>1, <1>5, LastLogType, SMTT(30) DEF PrevConflicts, PrevBeyondLog
  <2>3. Entry(p, index).Term \in Nat
    BY <2>2, LastLogType, SMTT(30) DEF LogEntry
  <2>4. below \subseteq 0..(index - 1)
    BY <1>1, <2>2, <2>3, SMTT(30)
  <2>5. Max(below) \in 0..(index - 1)
    <3>1. below # {} /\ 0 \in Int /\ index - 1 \in Int
      BY <1>1, SMTT(30)
    <3> HIDE DEF below, index
    <3>2. Max(below) \in below
      BY <2>4, <3>1, MaxOfIndices
    <3> QED
      BY <2>4, <3>2
  <2>6. first \in 1..index
    BY <1>1, <2>5, SMTT(30) DEF FirstOfConflict
  <2>7. LogicalIndex(p, first) = first
    BY <1>1, <2>6, SMTT(30) DEF LogicalIndex
  <2> HIDE DEF first, index
  <2> QED
    BY <1>1, <2>1, <2>3, <2>6, <2>7, SMTT(30) DEF AppendEntriesReplies
<1> QED
  BY <1>1, <1>2, <1>3, <1>4, <1>5, SMTT(30) DEF AcceptsEntries

(* The commit loop of handleAppendEntries changes commitIndex only. *)
LEMMA CommitMatchedType ==
    ASSUME NEW p \in Unsnapped, NEW me \in Server
    PROVE  LET q == CommitMatched(p, me)
           IN  /\ q \in Unsnapped
               /\ q.currentTerm = p.currentTerm /\ q.votedFor = p.votedFor
               /\ q.role = p.role /\ q.logs = p.logs /\ q.nextIndex = p.nextIndex
<1> DEFINE C == Committable(p, me)
           low == p.commitIndex + 1
           high == LastLogicalIndex(p)
<1>1. low \in Int /\ high \in Int
  <2>1. p.commitIndex \in Int
    BY DEF Unsnapped, Peer
  <2> QED
    BY <2>1, LastLogType, SMTT(30)
<1>2. C \subseteq low..high
  BY DEF Committable
<1>3. CASE C = {}
  BY <1>3 DEF CommitMatched
<1>4. CASE C # {}
  <2> HIDE DEF C, low, high
  <2>1. Max(C) \in Int
    <3>1. Max(C) \in C
      BY <1>1, <1>2, <1>4, MaxOfIndices
    <3>2. Max(C) \in low..high
      BY <1>2, <3>1
    <3> QED
      BY <1>1, <3>2, SMTT(30)
  <2>2. CommitMatched(p, me) = [p EXCEPT !.commitIndex = Max(C)]
    BY <1>4 DEF CommitMatched, C
  <2> QED
    BY <2>1, <2>2 DEF Unsnapped, Peer
<1> QED
  BY <1>3, <1>4

(* A rejected leader backs up to an own index or to the follower's hint. *)
LEMMA BackedUpNextIndexType ==
    ASSUME NEW p \in Unsnapped, NEW server \in Server, NEW reply \in AppendEntriesReplies
    PROVE  LET n == BackedUpNextIndex(p, server, reply)
           IN  n \in Int /\ (n <= p.nextIndex[server] \/ n = reply.ConflictIndex)
<1> DEFINE start == StorageIndex(p, p.nextIndex[server] - 1)
           older == {i \in 0..start : Entry(p, i).Term <= reply.ConflictTerm}
           n == BackedUpNextIndex(p, server, reply)
<1>1. p.nextIndex[server] \in Int /\ reply.ConflictIndex \in Int
      /\ start = p.nextIndex[server] - 1
  BY SMTT(30) DEF Unsnapped, Peer, AppendEntriesReplies, StorageIndex
<1>2. older \subseteq 0..start
  OBVIOUS
<1>3. CASE n = reply.ConflictIndex
  BY <1>1, <1>3
<1>4. CASE n # reply.ConflictIndex
  <2>1. older # {} /\ n = Max(older) + 1
    BY <1>4 DEF BackedUpNextIndex
  <2>2. Max(older) \in 0..start
    <3> HIDE DEF older, start
    <3>1. 0 \in Int /\ start \in Int
      BY <1>1, SMTT(30)
    <3>2. Max(older) \in older
      BY <1>2, <2>1, <3>1, MaxOfIndices
    <3> QED
      BY <1>2, <3>2
  <2> HIDE DEF older, start, n
  <2>3. n \in Int /\ n <= p.nextIndex[server]
    BY <1>1, <2>1, <2>2, SMTT(30)
  <2> QED
    BY <2>3 DEF n
<1> QED
  BY <1>3, <1>4

(* handleAppendEntries is quiet and keeps the log; while the peer stays     *)
(* Leader it moves one nextIndex, to the end of the log, down, or to the   *)
(* follower's hint.                                                        *)
LEMMA HandleAppendEntriesQuiet ==
    ASSUME NEW p \in Unsnapped, NEW me \in Server, NEW server \in Server,
           NEW args \in AppendEntriesArgs, NEW reply \in AppendEntriesReplies
    PROVE  LET q == HandleAppendEntries(p, me, server, args, reply)
           IN  /\ Quiet(p, q)
               /\ q.logs = p.logs
               /\ q.role = "Leader" =>
                    /\ \A i \in Server \ {server} : q.nextIndex[i] = p.nextIndex[i]
                    /\ \/ q.nextIndex[server] = LastLogicalIndex(p) + 1
                       \/ q.nextIndex[server] <= p.nextIndex[server]
                       \/ /\ q.nextIndex[server] = reply.ConflictIndex
                          /\ reply.Term <= p.currentTerm
<1> DEFINE q == HandleAppendEntries(p, me, server, args, reply)
<1>1. /\ p.currentTerm \in Nat /\ reply.Term \in Nat /\ p.role \in Role
      /\ p.nextIndex \in [Server -> Int] /\ p.matchIndex \in [Server -> Int]
      /\ args.PrevLogIndex \in Nat /\ Len(args.Entries) \in Nat
      /\ Len(p.logs) \in Nat
  BY LenProperties DEF Unsnapped, Peer, AppendEntriesArgs, AppendEntriesReplies
<1>2. CASE p.role # "Leader"
  <2>1. q = p
    BY <1>2 DEF HandleAppendEntries
  <2> QED
    BY <1>1, <1>2, <2>1, SMTT(30) DEF Quiet
<1>3. CASE p.role = "Leader" /\ reply.Term > p.currentTerm
  <2>1. q = StepDown(p, reply.Term)
    BY <1>3 DEF HandleAppendEntries
  <2>2. StepDown(p, reply.Term).logs = p.logs /\ StepDown(p, reply.Term).role = "Follower"
    BY DEF StepDown, ConvertRole, Unsnapped, Peer
  <2> QED
    BY <1>1, <1>3, <2>1, <2>2, StepDownQuiet
<1>4. CASE p.role = "Leader" /\ ~(reply.Term > p.currentTerm) /\ ~reply.Success
  <2> DEFINE n == BackedUpNextIndex(p, server, reply)
             next == [p.nextIndex EXCEPT ![server] = n]
  <2>1. q = [p EXCEPT !.nextIndex = next]
    BY <1>1, <1>4 DEF HandleAppendEntries, Unsnapped, Peer
  <2>2. n \in Int /\ (n <= p.nextIndex[server] \/ n = reply.ConflictIndex)
    BY BackedUpNextIndexType
  <2> HIDE DEF n, q
  <2>3. /\ next \in [Server -> Int] /\ next[server] = n
        /\ \A i \in Server \ {server} : next[i] = p.nextIndex[i]
    BY <1>1, <2>2
  <2> HIDE DEF next
  <2>4. /\ q \in Unsnapped /\ q.currentTerm = p.currentTerm /\ q.votedFor = p.votedFor
        /\ q.role = p.role /\ q.logs = p.logs /\ q.nextIndex = next
    BY <2>1, <2>3 DEF Unsnapped, Peer
  <2>5. Quiet(p, q)
    BY <1>1, <2>4, SMTT(30) DEF Quiet
  <2>6. reply.Term <= p.currentTerm
    BY <1>1, <1>4, SMTT(30)
  <2> QED
    BY <2>2, <2>3, <2>4, <2>5, <2>6 DEF q
<1>5. CASE p.role = "Leader" /\ ~(reply.Term > p.currentTerm) /\ reply.Success
  <2> DEFINE last == LastLogicalIndex(p) + 1
             next == [p.nextIndex EXCEPT ![server] = last]
             m == args.PrevLogIndex + Len(args.Entries)
             match == [p.matchIndex EXCEPT ![server] = m]
             r == [p EXCEPT !.nextIndex = next, !.matchIndex = match]
  <2>1. q = CommitMatched(r, me)
    BY <1>1, <1>5 DEF HandleAppendEntries, Unsnapped, Peer
  <2>2. last \in Int /\ m \in Int
    BY <1>1, LastLogType, SMTT(30)
  <2> HIDE DEF last, m, q
  <2>3. /\ next \in [Server -> Int] /\ next[server] = last
        /\ \A i \in Server \ {server} : next[i] = p.nextIndex[i]
        /\ match \in [Server -> Int]
    BY <1>1, <2>2
  <2> HIDE DEF next, match
  <2>4. /\ r \in Unsnapped /\ r.currentTerm = p.currentTerm /\ r.votedFor = p.votedFor
        /\ r.role = p.role /\ r.logs = p.logs /\ r.nextIndex = next
    BY <2>3 DEF Unsnapped, Peer
  <2> HIDE DEF r
  <2>5. /\ q \in Unsnapped /\ q.currentTerm = p.currentTerm /\ q.votedFor = p.votedFor
        /\ q.role = p.role /\ q.logs = p.logs /\ q.nextIndex = next
    BY <2>1, <2>4, CommitMatchedType
  <2>6. Quiet(p, q)
    BY <1>1, <2>5, SMTT(30) DEF Quiet
  <2> QED
    BY <2>3, <2>5, <2>6 DEF q, last
<1> QED
  BY <1>2, <1>3, <1>4, <1>5 DEF AppendEntriesReplies

(* Start appends at the end. *)
LEMMA AppendCommandQuiet ==
    ASSUME NEW p \in Unsnapped, NEW term \in Nat, NEW command \in Command
    PROVE  LET q == AppendCommand(p, term, command)
           IN  /\ Quiet(p, q)
               /\ q.role = p.role
               /\ q.nextIndex = p.nextIndex
               /\ Len(q.logs) = Len(p.logs) + 1
<1> DEFINE e == [Term |-> term, Command |-> command]
           log == Append(p.logs, e)
<1>1. e \in LogEntry
  BY DEF LogEntry
<1>2. p.logs \in Seq(LogEntry) /\ Len(p.logs) \in Nat
  BY LenProperties DEF Unsnapped, Peer
<1> HIDE DEF e
<1>3. log \in Seq(LogEntry) /\ Len(log) = Len(p.logs) + 1
  BY <1>1, <1>2, AppendProperties
<1>4. Len(log) > 0
  BY <1>2, <1>3, SMTT(30)
<1>5. AppendCommand(p, term, command) = [p EXCEPT !.logs = log]
  BY DEF AppendCommand, e
<1> HIDE DEF log
<1>6. LET q == AppendCommand(p, term, command)
      IN  /\ q \in Unsnapped /\ q.currentTerm = p.currentTerm /\ q.votedFor = p.votedFor
          /\ q.role = p.role /\ q.nextIndex = p.nextIndex /\ q.logs = log
  <2>1. log \in Seq(LogEntry)
    BY <1>3
  <2> QED
    BY <1>4, <1>5, <2>1 DEF Unsnapped, Peer
<1> QED
  BY <1>2, <1>3, <1>6, SMTT(30) DEF Quiet

(* A peer without a snapshot discards the snapshots of peers without one:   *)
(* InstallSnapshot only reacts to the term.                                *)
LEMMA InstallSnapshotQuiet ==
    ASSUME NEW p \in Unsnapped, NEW args \in InstallSnapshotArgs,
           args.LastIncludedIndex = 0
    PROVE  LET q == InstallSnapshot(p, args)
           IN  /\ Quiet(p, q)
               /\ q.nextIndex = p.nextIndex
               /\ InstallSnapshotReply(p, args) \in [Term : Nat]
<1>1. p.currentTerm \in Nat /\ args.Term \in Nat /\ p.lastIncludedIndex = 0
  BY DEF Unsnapped, Peer, InstallSnapshotArgs
<1>2. DiscardsSnapshot(p, args)
  BY <1>1, SMTT(30) DEF DiscardsSnapshot
<1>3. InstallSnapshot(p, args) = IF args.Term < p.currentTerm THEN p
                                 ELSE ObserveTerm(p, args.Term)
  BY <1>2 DEF InstallSnapshot
<1>4. Quiet(p, p)
  BY <1>1, LenProperties, SMTT(30) DEF Quiet, Unsnapped, Peer
<1>5. Max({args.Term, p.currentTerm}) \in Nat
  BY <1>1, MaxMinOfTwo, SMTT(30)
<1>6. InstallSnapshotReply(p, args) \in [Term : Nat]
  BY <1>1, <1>5 DEF InstallSnapshotReply
<1> QED
  BY <1>1, <1>3, <1>4, <1>6, ObserveTermQuiet

(* handleInstallSnapshot sets nextIndex and matchIndex of a follower. *)
LEMMA SnapshotSetsQuiet ==
    ASSUME NEW p \in Unsnapped, NEW server \in Server, NEW n \in Int
    PROVE  /\ Quiet(p, [p EXCEPT !.nextIndex[server] = n])
           /\ Quiet(p, [p EXCEPT !.matchIndex[server] = n])
<1> DEFINE next == [p.nextIndex EXCEPT ![server] = n]
           match == [p.matchIndex EXCEPT ![server] = n]
<1>1. /\ p.currentTerm \in Nat /\ Len(p.logs) \in Nat
      /\ p.nextIndex \in [Server -> Int] /\ p.matchIndex \in [Server -> Int]
  BY LenProperties DEF Unsnapped, Peer
<1>2. /\ [p EXCEPT !.nextIndex[server] = n] = [p EXCEPT !.nextIndex = next]
      /\ [p EXCEPT !.matchIndex[server] = n] = [p EXCEPT !.matchIndex = match]
  BY DEF Unsnapped, Peer
<1>3. next \in [Server -> Int] /\ match \in [Server -> Int]
  BY <1>1
<1> HIDE DEF next, match
<1>4. Quiet(p, [p EXCEPT !.nextIndex = next])
  <2> DEFINE q == [p EXCEPT !.nextIndex = next]
  <2>1. /\ q \in Unsnapped /\ q.currentTerm = p.currentTerm /\ q.votedFor = p.votedFor
        /\ q.role = p.role /\ q.logs = p.logs
    BY <1>3 DEF Unsnapped, Peer
  <2> HIDE DEF q
  <2>2. Quiet(p, q)
    BY <1>1, <2>1, SMTT(30) DEF Quiet
  <2> QED
    BY <2>2 DEF q
<1>5. Quiet(p, [p EXCEPT !.matchIndex = match])
  <2> DEFINE q == [p EXCEPT !.matchIndex = match]
  <2>1. /\ q \in Unsnapped /\ q.currentTerm = p.currentTerm /\ q.votedFor = p.votedFor
        /\ q.role = p.role /\ q.logs = p.logs
    BY <1>3 DEF Unsnapped, Peer
  <2> HIDE DEF q
  <2>2. Quiet(p, q)
    BY <1>1, <2>1, SMTT(30) DEF Quiet
  <2> QED
    BY <2>2 DEF q
<1> QED
  BY <1>2, <1>4, <1>5

-----------------------------------------------------------------------------
(* The cluster: types *)

(* Types, with what keeps the operators of RaftPeer in range: no peer has  *)
(* a snapshot to hold or to send, and the calls of an election outlive it. *)
Typed ==
    /\ TypeOK
    /\ \A s \in Server : rf[s] \in Unsnapped
    /\ \A m \in voteRequests \cup voteReplies : m.election \in DOMAIN elections[m.from]
    /\ \A c \in snapCalls : c.pc # "spawned" => c.args.LastIncludedIndex = 0

(* The struct of one peer changes to another well-formed one. *)
LEMMA PeerChanges ==
    ASSUME Typed, NEW s \in Server, NEW q \in Unsnapped, rf' = [rf EXCEPT ![s] = q]
    PROVE  /\ rf' \in [Server -> Peer]
           /\ \A t \in Server : rf'[t] \in Unsnapped
           /\ rf'[s] = q
           /\ \A t \in Server \ {s} : rf'[t] = rf[t]
BY DEF Typed, TypeOK, Unsnapped

(* Some window may be added. *)
LEMMA ThroughType ==
    ASSUME windows \subseteq Window, NEW w \in Window, NEW stale, Through(w, stale)
    PROVE  windows \subseteq windows' /\ windows' \subseteq Window
BY DEF Through

(* The history of the logs keeps its type when nothing is stored, ... *)
LEMMA CopiesKept ==
    ASSUME CopiesTyped, UNCHANGED copyVars
    PROVE  CopiesTyped'
BY DEF CopiesTyped, copyVars

(* ... when a peer stores entries, and when it does as the leader. *)
LEMMA CopiesGrow ==
    ASSUME CopiesTyped, NEW s \in Server, NEW new \in Unsnapped, NEW b \in BOOLEAN
    PROVE  /\ Stores(s, new, b) /\ UNCHANGED leaderLog => CopiesTyped'
           /\ Leads(s, new, b) => CopiesTyped'
<1>1. new.currentTerm \in Nat /\ new.logs \in Seq(LogEntry) /\ Len(new.logs) \in Nat
  BY LenProperties DEF Unsnapped, Peer
<1>2. Stores(s, new, b) => acks' \subseteq [peer : Server, term : Nat, length : Nat]
  BY <1>1, SMTT(30) DEF Stores, CopiesTyped
<1>3. ASSUME Leads(s, new, b)
      PROVE  /\ DOMAIN leaderLog' \subseteq Nat
             /\ \A t \in DOMAIN leaderLog' : leaderLog'[t] \in Seq(LogEntry)
  BY <1>1, <1>3 DEF Leads, CopiesTyped
<1> QED
  BY <1>2, <1>3 DEF CopiesTyped, Leads

(* Init is well-typed. *)
LEMMA InitTyped == Init => Typed
<1> SUFFICES ASSUME Init PROVE Typed
  OBVIOUS
<1>1. Make \in Unsnapped /\ Make \in Peer
  BY MakeUnsnapped DEF Unsnapped
<1>2. elections \in [Server -> Seq([Term : Nat, voteCount : Nat])]
  BY SMTT(30) DEF Init
<1>3. CopiesTyped
  BY <1>1, SMTT(30) DEF Init, CopiesTyped, Unsnapped, Peer
<1> QED
  BY <1>1, <1>2, <1>3 DEF Init, Typed, TypeOK

(* The ticker and startElection keep the types. *)
LEMMA PeerStepTyped ==
    ASSUME Typed, NEW s \in Server, PeerStep(s)
    PROVE  Typed'
<1>1. CASE ElectionTimeout(s)
  BY <1>1, CopiesKept DEF ElectionTimeout, Typed, TypeOK, logVars, histVars
<1>2. CASE StartElection(s)
  <2> DEFINE q == BecomeCandidate(rf[s], s)
  <2>1. q \in Unsnapped /\ rf[s] \in Unsnapped
    BY BecomeCandidateType DEF Typed
  <2>2. rf[s].currentTerm + 1 \in Nat
    BY SMTT(30) DEF Typed, TypeOK, Peer
  <2>3. rf' \in [Server -> Peer] /\ \A t \in Server : rf'[t] \in Unsnapped
    <3> HIDE DEF q
    <3>1. rf' = [rf EXCEPT ![s] = q]
      BY <1>2 DEF StartElection, q
    <3> QED
      BY <2>1, <3>1, PeerChanges
  <2>4. grants' \subseteq [voter : Server, term : Nat, candidate : Server]
    BY <1>2, <2>2, SMTT(30) DEF StartElection, Typed, TypeOK
  <2> QED
    BY <1>2, <2>3, <2>4, CopiesKept DEF StartElection, Typed, TypeOK, logVars
<1>3. CASE SendRequestVotes(s)
  <2> DEFINE args == GenRequestVoteArgs(rf[s], s)
             id == Len(elections[s]) + 1
             e == [Term |-> args.Term, voteCount |-> 1]
             new == {[from |-> s, to |-> i, election |-> id, args |-> args] :
                        i \in {j \in Server \ {s} : Reachable(s, j)}}
  <2>1. args \in RequestVoteArgs
    BY GenRequestVoteArgsType DEF Typed
  <2>2. e \in [Term : Nat, voteCount : Nat]
    BY <2>1 DEF RequestVoteArgs
  <2>3. id \in Nat /\ elections[s] \in Seq([Term : Nat, voteCount : Nat])
    BY LenProperties, SMTT(30) DEF Typed, TypeOK
  <2> HIDE DEF args
  <2>4. new \subseteq VoteRequest
    BY <2>1, <2>3, SMTT(30) DEF VoteRequest
  <2>5. /\ elections' = [elections EXCEPT ![s] = Append(@, e)]
        /\ voteRequests' = voteRequests \cup new
        /\ ticker' = [ticker EXCEPT ![s] = "idle"]
        /\ UNCHANGED <<rf, voteReplies, logVars, histVars>>
    BY <1>3 DEF SendRequestVotes, args
  <2> HIDE DEF e, id
  <2>6. /\ Append(elections[s], e) \in Seq([Term : Nat, voteCount : Nat])
        /\ DOMAIN Append(elections[s], e) = 1..id
        /\ DOMAIN elections[s] \subseteq 1..id
    BY <2>2, <2>3, AppendProperties, LenProperties, SMTT(30) DEF id
  <2>7. elections' \in [Server -> Seq([Term : Nat, voteCount : Nat])]
    BY <2>5, <2>6 DEF Typed, TypeOK
  <2>8. \A t \in Server : DOMAIN elections[t] \subseteq DOMAIN elections'[t]
    BY <2>5, <2>6 DEF Typed, TypeOK
  <2>9. id \in DOMAIN elections'[s]
    BY <2>3, <2>5, <2>6, SMTT(30) DEF Typed, TypeOK, id
  <2>10. \A m \in voteRequests' \cup voteReplies' : m.election \in DOMAIN elections'[m.from]
    BY <2>5, <2>8, <2>9, SMTT(30) DEF Typed, TypeOK, VoteRequest, VoteReply
  <2> HIDE DEF new
  <2> QED
    BY <2>4, <2>5, <2>7, <2>10, CopiesKept DEF Typed, TypeOK, logVars, histVars
<1>4. CASE Heartbeat(s)
  <2>1. rounds[s] + 1 \in Nat
    BY SMTT(30) DEF Typed, TypeOK
  <2>2. appendCalls' \subseteq AppendCall
    BY <1>4, <2>1, SMTT(30) DEF Heartbeat, Typed, TypeOK, AppendCall, Goroutine
  <2>3. rounds' \in [Server -> Nat]
    BY <1>4, <2>1 DEF Heartbeat, Typed, TypeOK
  <2> QED
    BY <1>4, <2>2, <2>3, CopiesKept DEF Heartbeat, Typed, TypeOK, voteVars, histVars
<1>5. ASSUME NEW command \in Command, StartReadsTerm(s, command) PROVE Typed'
  <2>1. rf[s].currentTerm \in Nat
    BY DEF Typed, TypeOK, Peer
  <2>2. starts' \subseteq [server : Server, term : Nat, command : Command]
    BY <1>5, <2>1, SMTT(30) DEF StartReadsTerm, Typed, TypeOK
  <2>3. CopiesTyped'
    BY <1>5, CopiesKept DEF StartReadsTerm, Typed, TypeOK, histVars
  <2> QED
    BY <1>5, <2>2, <2>3 DEF StartReadsTerm, Typed, TypeOK, voteVars, histVars
<1> QED
  BY <1>1, <1>2, <1>3, <1>4, <1>5 DEF PeerStep

(* The RequestVote handler and the goroutine that reads its answer do. *)
LEMMA VoteStepTyped ==
    ASSUME Typed,
           \/ \E m \in voteRequests : ReceiveRequestVote(m)
           \/ \E m \in voteReplies : ReceiveVoteReply(m)
    PROVE  Typed'
<1>1. ASSUME NEW m \in voteRequests, ReceiveRequestVote(m) PROVE Typed'
  <2> DEFINE q == RequestVote(rf[m.to], m.args)
             reply == RequestVoteReply(rf[m.to], m.args)
             r == [from |-> m.from, to |-> m.to, election |-> m.election,
                   reply |-> reply]
  <2>1. /\ m \in VoteRequest /\ m.from \in Server /\ m.to \in Server
        /\ m.election \in Nat /\ m.args \in RequestVoteArgs
        /\ m.args.Term \in Nat /\ m.args.CandidateId \in Server
        /\ m.election \in DOMAIN elections[m.from]
    BY DEF Typed, TypeOK, VoteRequest, RequestVoteArgs
  <2>2. rf[m.to] \in Unsnapped
    BY <2>1 DEF Typed
  <2>3. q \in Unsnapped /\ reply \in RequestVoteReplies
    BY <2>1, <2>2, RequestVoteType
  <2> HIDE DEF q, reply
  <2>4. /\ rf' = [rf EXCEPT ![m.to] = q]
        /\ voteRequests' = voteRequests \ {m}
        /\ voteReplies' = voteReplies \cup {r}
        /\ grants' \subseteq grants \cup {[voter |-> m.to, term |-> m.args.Term,
                                         candidate |-> m.args.CandidateId]}
        /\ UNCHANGED <<ticker, elections, logVars, copyVars, windows>>
    BY <1>1 DEF ReceiveRequestVote, q, reply
  <2>5. rf' \in [Server -> Peer] /\ \A t \in Server : rf'[t] \in Unsnapped
    BY <2>1, <2>3, <2>4, PeerChanges
  <2>6. r \in VoteReply
    BY <2>1, <2>3 DEF VoteReply
  <2>7. grants' \subseteq [voter : Server, term : Nat, candidate : Server]
    BY <2>1, <2>4, SMTT(30) DEF Typed, TypeOK
  <2>8. \A x \in voteRequests' \cup voteReplies' : x.election \in DOMAIN elections'[x.from]
    BY <2>1, <2>4, SMTT(30) DEF Typed
  <2> HIDE DEF r
  <2> QED
    BY <2>4, <2>5, <2>6, <2>7, <2>8, CopiesKept DEF Typed, TypeOK, logVars
<1>2. ASSUME NEW m \in voteReplies, ReceiveVoteReply(m) PROVE Typed'
  <2> DEFINE s == m.from
             e == elections[s][m.election]
             q == HandleVoteReply(rf[s], m.reply, e.voteCount)
             counted == CountsVote(rf[s], m.reply)
  <2>1. /\ s \in Server /\ m.reply \in RequestVoteReplies
        /\ m.election \in DOMAIN elections[s]
        /\ elections[s] \in Seq([Term : Nat, voteCount : Nat])
    BY DEF Typed, TypeOK, VoteReply
  <2>2. e \in [Term : Nat, voteCount : Nat]
    BY <2>1, ElementOfSeq, LenProperties
  <2>3. q \in Unsnapped
    BY <2>1, <2>2, HandleVoteReplyType DEF Typed, Quiet
  <2> HIDE DEF s, q
  <2>4. rf' \in [Server -> Peer] /\ \A t \in Server : rf'[t] \in Unsnapped
    <3>1. rf' = [rf EXCEPT ![s] = q]
      BY <1>2 DEF ReceiveVoteReply, q, s
    <3> QED
      BY <2>1, <2>3, <3>1, PeerChanges
  <2>5. /\ elections' \in [Server -> Seq([Term : Nat, voteCount : Nat])]
        /\ \A t \in Server : DOMAIN elections'[t] = DOMAIN elections[t]
    <3>1. CASE counted
      <4> DEFINE n == [e EXCEPT !.voteCount = @ + 1]
                 es == [elections[s] EXCEPT ![m.election] = n]
      <4>1. n \in [Term : Nat, voteCount : Nat]
        BY <2>2, SMTT(30)
      <4>2. elections' = [elections EXCEPT ![s] = es]
        BY <1>2, <2>1, <3>1 DEF ReceiveVoteReply, s, Typed, TypeOK
      <4> HIDE DEF n, e
      <4>3. es \in Seq([Term : Nat, voteCount : Nat]) /\ DOMAIN es = DOMAIN elections[s]
        BY <2>1, <4>1, ExceptSeq, LenProperties
      <4> HIDE DEF es
      <4> QED
        BY <2>1, <4>2, <4>3 DEF Typed, TypeOK
    <3>2. CASE ~counted
      BY <1>2, <3>2 DEF ReceiveVoteReply, s, Typed, TypeOK
    <3> QED
      BY <3>1, <3>2
  <2>6. windows' \subseteq Window
    BY <1>2, ThroughType DEF ReceiveVoteReply, Typed, TypeOK, Window
  <2>7. /\ voteReplies' \subseteq voteReplies
        /\ UNCHANGED <<ticker, voteRequests, logVars, grants>>
    BY <1>2 DEF ReceiveVoteReply
  <2>8. \A x \in voteRequests' \cup voteReplies' : x.election \in DOMAIN elections'[x.from]
    BY <2>5, <2>7 DEF Typed, TypeOK, VoteRequest, VoteReply
  <2>9. CopiesTyped'
    <3>1. rf[s] \in Unsnapped
      BY <2>1 DEF Typed
    <3>2. PICK b \in BOOLEAN : Leads(s, rf[s], b)
      BY <1>2 DEF ReceiveVoteReply, s
    <3> QED
      BY <2>1, <3>1, <3>2, CopiesGrow DEF Typed, TypeOK
  <2> QED
    BY <2>4, <2>5, <2>6, <2>7, <2>8, <2>9 DEF Typed, TypeOK, logVars
<1> QED
  BY <1>1, <1>2

(* So does Start. *)
LEMMA StartAppendsTyped ==
    ASSUME Typed, NEW p \in starts, StartAppends(p)
    PROVE  Typed'
<1> DEFINE q == AppendCommand(rf[p.server], p.term, p.command)
<1>1. p.server \in Server /\ p.term \in Nat /\ p.command \in Command
  BY DEF Typed, TypeOK
<1>2. q \in Unsnapped
  BY <1>1, AppendCommandQuiet DEF Typed, Quiet
<1> HIDE DEF q
<1>3. rf' \in [Server -> Peer] /\ \A t \in Server : rf'[t] \in Unsnapped
  <2>1. rf' = [rf EXCEPT ![p.server] = q]
    BY DEF StartAppends, q
  <2> QED
    BY <1>1, <1>2, <2>1, PeerChanges
<1>4. windows' \subseteq Window
  BY ThroughType DEF StartAppends, Typed, TypeOK, Window
<1>5. CopiesTyped'
  <2>1. PICK b \in BOOLEAN : Leads(p.server, q, b)
    BY DEF StartAppends, q
  <2> QED
    BY <1>1, <1>2, <2>1, CopiesGrow DEF Typed, TypeOK
<1> QED
  BY <1>3, <1>4, <1>5 DEF StartAppends, Typed, TypeOK, voteVars

(* A goroutine's record after it has built its arguments, and after the     *)
(* answer has come.                                                        *)
LEMMA CallUpdates ==
    ASSUME NEW pcs, NEW as, NEW rs, NEW c \in Goroutine(pcs, as, rs), NEW pc, NEW x
    PROVE  /\ LET d == [c EXCEPT !.pc = pc, !.args = x]
              IN  /\ d \in Goroutine({pc}, {x}, rs)
                  /\ d.from = c.from /\ d.to = c.to /\ d.pc = pc /\ d.args = x
                  /\ d.reply = c.reply
           /\ LET d == [c EXCEPT !.pc = pc, !.reply = x]
              IN  /\ d \in Goroutine({pc}, as, {x})
                  /\ d.from = c.from /\ d.to = c.to /\ d.pc = pc /\ d.args = c.args
                  /\ d.reply = x
BY DEF Goroutine

(* A goroutine of a round that has built its arguments and is answered. *)
LEMMA AppendCallFields ==
    ASSUME Typed, NEW c \in appendCalls
    PROVE  /\ c.from \in Server /\ c.to \in Server /\ c.round \in Nat
           /\ c = [from |-> c.from, to |-> c.to, round |-> c.round, pc |-> c.pc,
                   args |-> c.args, reply |-> c.reply]
           /\ c.pc \in {"spawned", "snapshot", "ready", "request", "reply"}
           /\ c.pc \in {"spawned", "snapshot"} =>
                /\ c.args = Nil /\ c.reply = Nil
                /\ c \in Goroutine({"spawned", "snapshot"}, {Nil}, {Nil})
           /\ c.pc \in {"ready", "request"} =>
                /\ c.args \in AppendEntriesArgs /\ c.reply = Nil
                /\ c \in Goroutine({"ready", "request"}, AppendEntriesArgs, {Nil})
           /\ c.pc = "reply" =>
                c.args \in AppendEntriesArgs /\ c.reply \in AppendEntriesReplies
<1>1. c \in AppendCall
  BY DEF Typed, TypeOK
<1> QED
  BY <1>1 DEF AppendCall, Goroutine

(* handleInstallSnapshot, likewise *)
LEMMA SnapCallFields ==
    ASSUME Typed, NEW c \in snapCalls
    PROVE  /\ c.from \in Server /\ c.to \in Server /\ c.round \in Nat
           /\ c = [from |-> c.from, to |-> c.to, round |-> c.round, pc |-> c.pc,
                   args |-> c.args, reply |-> c.reply]
           /\ c.pc = "spawned" =>
                /\ c.args = Nil /\ c.reply = Nil
                /\ c \in Goroutine({"spawned"}, {Nil}, {Nil})
           /\ c.pc # "spawned" =>
                c.args \in InstallSnapshotArgs /\ c.args.LastIncludedIndex = 0
           /\ c.pc \in {"ready", "request"} =>
                /\ c.reply = Nil
                /\ c \in Goroutine({"ready", "request"}, InstallSnapshotArgs, {Nil})
           /\ c.pc \in {"reply", "checked", "delivered", "setNext", "setMatch", "setTerm",
                       "setRole", "setVote"} =>
                c.reply \in [Term : Nat]
<1>1. c \in SnapCall /\ (c.pc # "spawned" => c.args.LastIncludedIndex = 0)
  BY DEF Typed, TypeOK
<1> QED
  BY <1>1 DEF SnapCall, Goroutine

(* The goroutines of the heartbeat rounds keep the types. *)
LEMMA AppendStepTyped ==
    ASSUME Typed, NEW c \in appendCalls, AppendStep(c)
    PROVE  Typed'
<1> DEFINE call(pc, args, reply) == [from |-> c.from, to |-> c.to, round |-> c.round,
                                     pc |-> pc, args |-> args, reply |-> reply]
<1>1. CASE PrepareAppend(c)
  <2> DEFINE args == GenAppendEntries(rf[c.from], c.from, c.to)
  <2>1. c.pc = "spawned" /\ c.args = Nil /\ c.reply = Nil
    BY <1>1, AppendCallFields DEF PrepareAppend
  <2>2. ~GenAppendEntriesPanics(rf[c.from], c.to)
    BY <1>1, <2>1 DEF PrepareAppend, CallPanics
  <2>3. CASE NeedsSnapshot(rf[c.from], c.to)
    <3>1. appendCalls' = (appendCalls \ {c}) \cup {call("snapshot", Nil, Nil)}
      BY <1>1, <2>1, <2>3, AppendCallFields, SMTT(30) DEF PrepareAppend, Advance
    <3>2. call("snapshot", Nil, Nil) \in AppendCall
      BY AppendCallFields DEF AppendCall, Goroutine
    <3> QED
      BY <1>1, <3>1, <3>2, CopiesKept DEF PrepareAppend, Typed, TypeOK, voteVars, histVars
  <2>4. CASE ~NeedsSnapshot(rf[c.from], c.to)
    <3>1. args \in AppendEntriesArgs
      BY <2>2, <2>4, AppendCallFields, GenAppendEntriesType DEF Typed
    <3> HIDE DEF args
    <3> DEFINE d == [c EXCEPT !.pc = "ready", !.args = args]
    <3>2. appendCalls' = Advance(appendCalls, c, d)
      BY <1>1, <2>4 DEF PrepareAppend, args
    <3>3. d \in AppendCall
      <4>1. d \in Goroutine({"ready"}, {args}, {Nil})
        <5>1. c \in Goroutine({"spawned", "snapshot"}, {Nil}, {Nil})
          BY <2>1, AppendCallFields
        <5> QED
          BY <5>1, CallUpdates
      <4> HIDE DEF d
      <4> QED
        BY <3>1, <4>1 DEF AppendCall, Goroutine
    <3> HIDE DEF d
    <3> QED
      BY <1>1, <3>2, <3>3, CopiesKept DEF PrepareAppend, Advance, Typed, TypeOK, voteVars, histVars
  <2> QED
    BY <2>3, <2>4
<1>2. CASE Panic(c)
  BY <1>2, AppendCallFields, CopiesKept DEF Panic, Typed, TypeOK, voteVars, histVars
<1>3. CASE SendAppend(c)
  <2>1. windows' \subseteq Window
    BY <1>3, ThroughType DEF SendAppend, Typed, TypeOK, Window
  <2>2. appendCalls' \subseteq AppendCall
    <3>1. CASE c.pc = "ready"
      <4>1. appendCalls' \subseteq appendCalls \cup {call("request", c.args, Nil)}
        BY <1>3, <3>1, AppendCallFields, SMTT(30) DEF SendAppend, Advance
      <4>2. call("request", c.args, Nil) \in AppendCall
        BY <3>1, AppendCallFields DEF AppendCall, Goroutine
      <4> QED
        BY <4>1, <4>2 DEF Typed, TypeOK
    <3>2. CASE c.pc = "snapshot"
      BY <1>3, <3>2 DEF SendAppend, Typed, TypeOK
    <3> QED
      BY <1>3, <3>1, <3>2 DEF SendAppend
  <2>3. /\ snapCalls' \subseteq SnapCall
        /\ \A d \in snapCalls' : d.pc # "spawned" => d.args.LastIncludedIndex = 0
    <3>1. CASE c.pc = "ready"
      BY <1>3, <3>1 DEF SendAppend, Typed, TypeOK
    <3>2. CASE c.pc = "snapshot"
      <4>1. snapCalls' \subseteq snapCalls \cup {call("spawned", Nil, Nil)}
        BY <1>3, <3>2, AppendCallFields, SMTT(30) DEF SendAppend
      <4>2. call("spawned", Nil, Nil) \in SnapCall
        BY AppendCallFields DEF SnapCall, Goroutine
      <4> QED
        BY <4>1, <4>2, SMTT(30) DEF Typed, TypeOK
    <3> QED
      BY <1>3, <3>1, <3>2 DEF SendAppend
  <2> QED
    BY <1>3, <2>1, <2>2, <2>3, CopiesKept DEF SendAppend, Typed, TypeOK, voteVars
<1>4. CASE ReceiveAppend(c)
  <2> DEFINE q == AppendEntries(rf[c.to], c.args)
             reply == AppendEntriesReply(rf[c.to], c.args)
  <2>1. c.pc = "request" /\ c.args \in AppendEntriesArgs
    BY <1>4, AppendCallFields DEF ReceiveAppend
  <2>2. q \in Unsnapped /\ reply \in AppendEntriesReplies
    BY <2>1, AppendCallFields, AppendEntriesQuiet, AppendEntriesReplyType DEF Typed, Quiet
  <2> HIDE DEF q, reply
  <2>3. rf' \in [Server -> Peer] /\ \A t \in Server : rf'[t] \in Unsnapped
    <3>1. rf' = [rf EXCEPT ![c.to] = q]
      BY <1>4 DEF ReceiveAppend, q
    <3> QED
      BY <2>2, <3>1, PeerChanges, AppendCallFields
  <2> DEFINE d == [c EXCEPT !.pc = "reply", !.reply = reply]
  <2>4. appendCalls' = Advance(appendCalls, c, d)
    BY <1>4 DEF ReceiveAppend, reply
  <2>5. d \in AppendCall
    <3>1. d \in Goroutine({"reply"}, AppendEntriesArgs, {reply})
      BY <2>1, AppendCallFields, CallUpdates
    <3> HIDE DEF d
    <3> QED
      BY <2>2, <3>1 DEF AppendCall, Goroutine
  <2> HIDE DEF d
  <2>6. windows' \subseteq Window
    BY <1>4, ThroughType DEF ReceiveAppend, Typed, TypeOK, Window
  <2>7. CopiesTyped'
    <3>1. PICK b \in BOOLEAN : Stores(c.to, q, b) /\ UNCHANGED leaderLog
      BY <1>4 DEF ReceiveAppend, q, AcceptsEntries
    <3> QED
      BY <2>2, <3>1, CopiesGrow, AppendCallFields DEF Typed, TypeOK
  <2> QED
    BY <1>4, <2>3, <2>4, <2>5, <2>6, <2>7 DEF ReceiveAppend, Advance, Typed, TypeOK, voteVars
<1>5. CASE ReceiveAppendReply(c)
  <2> DEFINE q == HandleAppendEntries(rf[c.from], c.from, c.to, c.args, c.reply)
  <2>1. c.args \in AppendEntriesArgs /\ c.reply \in AppendEntriesReplies
    BY <1>5, AppendCallFields DEF ReceiveAppendReply
  <2>2. q \in Unsnapped
    BY <2>1, AppendCallFields, HandleAppendEntriesQuiet DEF Typed, Quiet
  <2> HIDE DEF q
  <2>3. rf' \in [Server -> Peer] /\ \A t \in Server : rf'[t] \in Unsnapped
    <3>1. rf' = [rf EXCEPT ![c.from] = q]
      BY <1>5 DEF ReceiveAppendReply, q
    <3> QED
      BY <2>2, <3>1, PeerChanges, AppendCallFields
  <2>4. windows' \subseteq Window
    BY <1>5, ThroughType DEF ReceiveAppendReply, Typed, TypeOK, Window
  <2> QED
    BY <1>5, <2>3, <2>4, CopiesKept DEF ReceiveAppendReply, Typed, TypeOK, voteVars
<1> QED
  BY <1>1, <1>2, <1>3, <1>4, <1>5 DEF AppendStep

(* A handleInstallSnapshot goroutine that goes on to pc keeps the types. *)
LEMMA SnapAdvances ==
    ASSUME Typed, NEW c \in snapCalls, NEW d \in SnapCall,
           d.pc # "spawned" => d.args.LastIncludedIndex = 0,
           snapCalls' = Advance(snapCalls, c, d) \/ snapCalls' = snapCalls \ {c}
    PROVE  /\ snapCalls' \subseteq SnapCall
           /\ \A x \in snapCalls' : x.pc # "spawned" => x.args.LastIncludedIndex = 0
BY DEF Typed, TypeOK, Advance

(* handleInstallSnapshot and the InstallSnapshot handler keep the types. *)
LEMMA SnapshotStepTyped ==
    ASSUME Typed, NEW c \in snapCalls, SnapshotStep(c)
    PROVE  Typed'
<1> DEFINE call(pc, args, reply) == [from |-> c.from, to |-> c.to, round |-> c.round,
                                     pc |-> pc, args |-> args, reply |-> reply]
           rest == UNCHANGED <<voteVars, rounds, appendCalls, submitted, starts,
                               panicked, grants, copyVars>>
<1>1. CASE PrepareSnapshot(c)
  <2> DEFINE args == GenInstallSnapshotArgs(rf[c.from], c.from)
  <2>1. rf[c.from] \in Unsnapped
    BY SnapCallFields DEF Typed
  <2>2. args \in InstallSnapshotArgs /\ args.LastIncludedIndex = 0
    BY <2>1, SnapCallFields
       DEF GenInstallSnapshotArgs, InstallSnapshotArgs, Unsnapped, Peer
  <2> HIDE DEF args
  <2> DEFINE d == [c EXCEPT !.pc = "ready", !.args = args]
  <2>3. snapCalls' = Advance(snapCalls, c, d)
    BY <1>1 DEF PrepareSnapshot, args
  <2>4. d \in SnapCall /\ d.args = args
    <3>0. c \in Goroutine({"spawned"}, {Nil}, {Nil})
      BY <1>1, SnapCallFields DEF PrepareSnapshot
    <3>1. d \in Goroutine({"ready"}, {args}, {Nil})
      BY <3>0, CallUpdates
    <3> HIDE DEF d
    <3> QED
      BY <2>2, <3>1 DEF SnapCall, Goroutine
  <2> HIDE DEF d
  <2>5. /\ snapCalls' \subseteq SnapCall
        /\ \A x \in snapCalls' : x.pc # "spawned" => x.args.LastIncludedIndex = 0
    BY <2>2, <2>3, <2>4, SnapAdvances
  <2> QED
    BY <1>1, <2>5, CopiesKept DEF PrepareSnapshot, Typed, TypeOK, voteVars, histVars
<1>2. CASE SendSnapshot(c)
  <2>1. c.args \in InstallSnapshotArgs /\ c.args.LastIncludedIndex = 0 /\ c.reply = Nil
    BY <1>2, SnapCallFields DEF SendSnapshot
  <2>2. \/ snapCalls' = Advance(snapCalls, c, call("request", c.args, Nil))
        \/ snapCalls' = snapCalls \ {c}
    BY <1>2, <2>1, SnapCallFields, SMTT(30) DEF SendSnapshot
  <2>3. call("request", c.args, Nil) \in SnapCall
    BY <2>1, SnapCallFields DEF SnapCall, Goroutine
  <2>4. /\ snapCalls' \subseteq SnapCall
        /\ \A x \in snapCalls' : x.pc # "spawned" => x.args.LastIncludedIndex = 0
    BY <2>1, <2>2, <2>3, SnapAdvances
  <2> QED
    BY <1>2, <2>4, CopiesKept DEF SendSnapshot, Typed, TypeOK, voteVars, histVars
<1>3. CASE ReceiveSnapshot(c)
  <2> DEFINE q == InstallSnapshot(rf[c.to], c.args)
             reply == InstallSnapshotReply(rf[c.to], c.args)
  <2>1. c.args \in InstallSnapshotArgs /\ c.args.LastIncludedIndex = 0
    BY <1>3, SnapCallFields DEF ReceiveSnapshot
  <2>2. q \in Unsnapped /\ reply \in [Term : Nat]
    BY <2>1, SnapCallFields, InstallSnapshotQuiet DEF Typed, Quiet
  <2> HIDE DEF q, reply
  <2>3. rf' \in [Server -> Peer] /\ \A t \in Server : rf'[t] \in Unsnapped
    <3>1. rf' = [rf EXCEPT ![c.to] = q]
      BY <1>3 DEF ReceiveSnapshot, q
    <3> QED
      BY <2>2, <3>1, PeerChanges, SnapCallFields
  <2> DEFINE d == [c EXCEPT !.pc = "reply", !.reply = reply]
  <2>4. snapCalls' = Advance(snapCalls, c, d)
    BY <1>3 DEF ReceiveSnapshot, reply
  <2>5. d \in SnapCall /\ d.args = c.args
    <3>0. c \in Goroutine({"ready", "request"}, {c.args}, {Nil})
      BY <1>3, SnapCallFields DEF ReceiveSnapshot, Goroutine
    <3>1. d \in Goroutine({"reply"}, {c.args}, {reply})
      BY <3>0, CallUpdates
    <3> HIDE DEF d
    <3> QED
      BY <2>1, <2>2, <3>1 DEF SnapCall, Goroutine
  <2> HIDE DEF d
  <2>6. /\ snapCalls' \subseteq SnapCall
        /\ \A x \in snapCalls' : x.pc # "spawned" => x.args.LastIncludedIndex = 0
    BY <2>1, <2>4, <2>5, SnapAdvances
  <2> QED
    BY <1>3, <2>3, <2>6, CopiesKept DEF ReceiveSnapshot, Typed, TypeOK, voteVars, histVars
<1>4. ASSUME NEW pc \in {"checked", "delivered", "setNext", "setMatch", "setTerm",
                         "setRole", "setVote"},
             c.pc \in {"reply", "checked", "delivered", "setNext", "setMatch", "setTerm",
                       "setRole", "setVote"},
             \/ snapCalls' = Advance(snapCalls, c, [c EXCEPT !.pc = pc])
             \/ snapCalls' = snapCalls \ {c}
      PROVE  /\ snapCalls' \subseteq SnapCall
             /\ \A x \in snapCalls' : x.pc # "spawned" => x.args.LastIncludedIndex = 0
  <2>1. [c EXCEPT !.pc = pc] = call(pc, c.args, c.reply)
    BY SnapCallFields, SMTT(30)
  <2>2. call(pc, c.args, c.reply) \in SnapCall
    <3>1. /\ c.from \in Server /\ c.to \in Server /\ c.round \in Nat
          /\ c.args \in InstallSnapshotArgs /\ c.reply \in [Term : Nat]
      BY <1>4, SnapCallFields
    <3> QED
      BY <3>1 DEF SnapCall, Goroutine
  <2>3. c.args.LastIncludedIndex = 0
    BY <1>4, SnapCallFields
  <2> QED
    BY <1>4, <2>1, <2>2, <2>3, SnapAdvances
<1>5. CASE CheckSnapshotReply(c)
  <2>1. /\ snapCalls' \subseteq SnapCall
        /\ \A x \in snapCalls' : x.pc # "spawned" => x.args.LastIncludedIndex = 0
    BY <1>4, <1>5 DEF CheckSnapshotReply
  <2> QED
    BY <1>5, <2>1, CopiesKept DEF CheckSnapshotReply, Typed, TypeOK, voteVars, histVars
<1>6. CASE CompareSnapshotReply(c) \/ CompareSnapshotIndex(c)
  <2>1. /\ snapCalls' \subseteq SnapCall
        /\ \A x \in snapCalls' : x.pc # "spawned" => x.args.LastIncludedIndex = 0
    BY <1>4, <1>6 DEF CompareSnapshotReply, CompareSnapshotIndex
  <2> QED
    BY <1>6, <2>1, CopiesKept DEF CompareSnapshotReply, CompareSnapshotIndex, Typed, TypeOK, voteVars,
                      histVars
<1>7. ASSUME NEW q \in Unsnapped, rf' = [rf EXCEPT ![c.from] = q], windows' \subseteq Window,
             snapCalls' \subseteq SnapCall, rest,
             \A x \in snapCalls' : x.pc # "spawned" => x.args.LastIncludedIndex = 0
      PROVE  Typed'
  <2>1. rf' \in [Server -> Peer] /\ \A t \in Server : rf'[t] \in Unsnapped
    BY <1>7, PeerChanges, SnapCallFields
  <2> QED
    BY <1>7, <2>1, CopiesKept DEF Typed, TypeOK, voteVars
<1>8. rf[c.from] \in Unsnapped
  BY SnapCallFields DEF Typed
<1>9. CASE SnapshotSetsTerm(c)
  <2> DEFINE q == [rf[c.from] EXCEPT !.currentTerm = c.reply.Term]
  <2>1. c.reply.Term \in Nat
    BY <1>9, SnapCallFields DEF SnapshotSetsTerm
  <2>2. q \in Unsnapped
    BY <1>8, <2>1 DEF Unsnapped, Peer
  <2>3. rf' = [rf EXCEPT ![c.from] = q]
    BY <1>9 DEF SnapshotSetsTerm
  <2>4. windows' \subseteq Window
    BY <1>9, ThroughType DEF SnapshotSetsTerm, Typed, TypeOK, Window
  <2> HIDE DEF q
  <2>5. /\ snapCalls' \subseteq SnapCall
        /\ \A x \in snapCalls' : x.pc # "spawned" => x.args.LastIncludedIndex = 0
    BY <1>4, <1>9 DEF SnapshotSetsTerm
  <2> QED
    BY <1>7, <1>9, <2>2, <2>3, <2>4, <2>5 DEF SnapshotSetsTerm
<1>10. CASE SnapshotSetsRole(c)
  <2> DEFINE q == ConvertRole(rf[c.from], "Follower")
  <2>1. q \in Unsnapped
    BY <1>8 DEF Unsnapped, Peer, ConvertRole, Role
  <2>2. rf' = [rf EXCEPT ![c.from] = q]
    BY <1>10 DEF SnapshotSetsRole
  <2> HIDE DEF q
  <2>3. /\ snapCalls' \subseteq SnapCall
        /\ \A x \in snapCalls' : x.pc # "spawned" => x.args.LastIncludedIndex = 0
    BY <1>4, <1>10 DEF SnapshotSetsRole
  <2> QED
    BY <1>7, <1>10, <2>1, <2>2, <2>3 DEF SnapshotSetsRole, histVars, Typed, TypeOK
<1>11. CASE SnapshotSetsVote(c)
  <2> DEFINE q == [rf[c.from] EXCEPT !.votedFor = -1]
  <2>1. q \in Unsnapped
    BY <1>8 DEF Unsnapped, Peer
  <2>2. rf' = [rf EXCEPT ![c.from] = q]
    BY <1>11 DEF SnapshotSetsVote
  <2> HIDE DEF q
  <2>3. /\ snapCalls' \subseteq SnapCall
        /\ \A x \in snapCalls' : x.pc # "spawned" => x.args.LastIncludedIndex = 0
    BY <1>4, <1>11 DEF SnapshotSetsVote
  <2> QED
    BY <1>7, <1>11, <2>1, <2>2, <2>3 DEF SnapshotSetsVote, histVars, Typed, TypeOK
<1>12. CASE SnapshotSetsNext(c) \/ SnapshotSetsMatch(c)
  <2>1. /\ c.to \in Server /\ c.args.LastIncludedIndex = 0
        /\ c.args.LastIncludedIndex \in Int /\ c.args.LastIncludedIndex + 1 \in Int
    BY <1>12, SnapCallFields, SMTT(30) DEF SnapshotSetsNext, SnapshotSetsMatch
  <2>2. /\ [rf[c.from] EXCEPT !.nextIndex[c.to] = c.args.LastIncludedIndex + 1] \in Unsnapped
        /\ [rf[c.from] EXCEPT !.matchIndex[c.to] = c.args.LastIncludedIndex] \in Unsnapped
    BY <1>8, <2>1, SnapshotSetsQuiet DEF Quiet
  <2>3. /\ snapCalls' \subseteq SnapCall
        /\ \A x \in snapCalls' : x.pc # "spawned" => x.args.LastIncludedIndex = 0
    BY <1>4, <1>12 DEF SnapshotSetsNext, SnapshotSetsMatch
  <2>4. PICK q \in Unsnapped : rf' = [rf EXCEPT ![c.from] = q]
    BY <1>12, <2>2 DEF SnapshotSetsNext, SnapshotSetsMatch
  <2> QED
    BY <1>7, <1>12, <2>3, <2>4
       DEF SnapshotSetsNext, SnapshotSetsMatch, histVars, Typed, TypeOK
<1> QED
  BY <1>1, <1>2, <1>3, <1>5, <1>6, <1>9, <1>10, <1>11, <1>12 DEF SnapshotStep

(* Types are kept by every step. *)
LEMMA NextTyped == Typed /\ [Next]_vars => Typed'
<1> SUFFICES ASSUME Typed, [Next]_vars PROVE Typed'
  OBVIOUS
<1>1. CASE UNCHANGED vars
  BY <1>1, CopiesKept DEF Typed, TypeOK, vars, voteVars, logVars, histVars
<1>2. CASE Next
  BY <1>2, PeerStepTyped, VoteStepTyped, StartAppendsTyped, AppendStepTyped,
     SnapshotStepTyped DEF Next
<1> QED
  BY <1>1, <1>2

(* Every variable keeps its type, whatever messages are lost or reordered   *)
(* and whichever peers panic: no section of raft.go that is reached without*)
(* a panic stores a malformed term, vote, log, call or reply.              *)
THEOREM TypeCorrect == Spec => []TypeOK
<1>1. Init => Typed
  BY InitTyped
<1>2. Typed /\ [Next]_vars => Typed'
  BY NextTyped
<1>3. Typed => TypeOK
  BY DEF Typed
<1> QED
  BY <1>1, <1>2, <1>3, PTL DEF Spec

-----------------------------------------------------------------------------
(* The indices of a Leader *)

Timely == windows \cap {"staleReply", "unlockedStepDown"} = {}

(* What a goroutine of a heartbeat round has in its arguments lies within  *)
(* the log of its sender while that campaigns or leads in their term, and  *)
(* the answer points no further.                                           *)
CallInRange(c) ==
    /\ c.pc \in {"ready", "request", "reply"} =>
         /\ c.args.Term <= rf[c.from].currentTerm
         /\ c.args.Term = rf[c.from].currentTerm /\ rf[c.from].role # "Follower" =>
              c.args.PrevLogIndex <= LastLogicalIndex(rf[c.from])
    /\ c.pc = "reply" => c.reply.ConflictIndex <= c.args.PrevLogIndex

(* the inductive invariant, beside Typed *)
IndexInv ==
    /\ LeaderIndexInRange
    /\ Timely => \A c \in appendCalls : CallInRange(c)

(* A change of a peer that keeps its earlier arguments in range: a peer    *)
(* that goes on campaigning or leading in its term loses nothing of its log.*)
Ranged(p, q) ==
    /\ q \in Unsnapped
    /\ q.currentTerm >= p.currentTerm
    /\ q.currentTerm = p.currentTerm /\ q.role # "Follower" =>
         p.role # "Follower" /\ Len(q.logs) >= Len(p.logs)

(* A handler that takes no part in an election is such a change. *)
LEMMA QuietRanged ==
    ASSUME NEW p \in Unsnapped, NEW q, Quiet(p, q)
    PROVE  Ranged(p, q)
BY SMTT(30) DEF Quiet, Ranged, Unsnapped, Peer

(* nextIndex may be as large as the log is long, with its marker. *)
LEMMA EndOfLog ==
    ASSUME NEW p \in Unsnapped
    PROVE  Len(p.logs) \in Nat /\ LastLogicalIndex(p) + 1 = Len(p.logs)
<1>1. p.logs \in Seq(LogEntry)
  BY DEF Unsnapped, Peer
<1>2. Len(p.logs) \in Nat
  BY <1>1, LenProperties
<1>3. LastLogicalIndex(p) = Len(p.logs) - 1
  BY LastLogType
<1> QED
  BY <1>2, <1>3, SMTT(30)

(* Arguments stay in range when their sender, or another peer, changes. *)
LEMMA CallStaysInRange ==
    ASSUME Typed, NEW s \in Server, NEW q, Ranged(rf[s], q), rf' = [rf EXCEPT ![s] = q],
           NEW c \in appendCalls, CallInRange(c)
    PROVE  CallInRange(c)'
<1>1. c.from \in Server /\ rf[c.from] \in Unsnapped /\ q \in Unsnapped
  BY AppendCallFields DEF Typed, Ranged
<1>2. CASE c.from # s
  <2>1. rf'[c.from] = rf[c.from]
    BY <1>1, <1>2 DEF Typed, TypeOK
  <2> QED
    BY <2>1 DEF CallInRange, LastLogicalIndex
<1>3. CASE c.from = s
  <2>1. rf'[c.from] = q
    BY <1>1, <1>3 DEF Typed, TypeOK
  <2>2. /\ LastLogicalIndex(q) = Len(q.logs) - 1
        /\ LastLogicalIndex(rf[s]) = Len(rf[s].logs) - 1
        /\ Len(q.logs) \in Nat /\ Len(rf[s].logs) \in Nat
    BY <1>1, <1>3, LastLogType, LenProperties DEF Unsnapped, Peer
  <2>3. q.currentTerm \in Nat /\ rf[s].currentTerm \in Nat
    BY <1>1, <1>3 DEF Unsnapped, Peer
  <2>4. c.pc \in {"ready", "request", "reply"} =>
            c.args.Term \in Nat /\ c.args.PrevLogIndex \in Nat
    BY AppendCallFields DEF AppendEntriesArgs
  <2>5. /\ q.currentTerm >= rf[s].currentTerm
        /\ q.currentTerm = rf[s].currentTerm /\ q.role # "Follower" =>
             rf[s].role # "Follower" /\ Len(q.logs) >= Len(rf[s].logs)
    BY DEF Ranged
  <2>6. ASSUME c.pc \in {"ready", "request", "reply"}
        PROVE  /\ c.args.Term <= q.currentTerm
               /\ c.args.Term = q.currentTerm /\ q.role # "Follower" =>
                    c.args.PrevLogIndex <= LastLogicalIndex(q)
    BY <1>3, <2>2, <2>3, <2>4, <2>5, <2>6, SMTT(30) DEF CallInRange
  <2>7. (c.pc = "reply" => c.reply.ConflictIndex <= c.args.PrevLogIndex)
    BY DEF CallInRange
  <2> QED
    BY <2>1, <2>6, <2>7 DEF CallInRange, LastLogicalIndex
<1> QED
  BY <1>2, <1>3

(* One peer changes in such a way. *)
LEMMA IndexStep ==
    ASSUME Typed, IndexInv, NEW s \in Server, NEW q, Ranged(rf[s], q),
           rf' = [rf EXCEPT ![s] = q], windows \subseteq windows',
           Timely' /\ q.role = "Leader" => \A i \in Server : q.nextIndex[i] <= Len(q.logs),
           Timely' => \A c \in appendCalls' : c \in appendCalls \/ CallInRange(c)'
    PROVE  IndexInv'
<1>1. Timely' => Timely
  BY DEF Timely
<1>2. Timely' => \A c \in appendCalls' : CallInRange(c)'
  <2> SUFFICES ASSUME Timely', NEW c \in appendCalls', c \in appendCalls PROVE CallInRange(c)'
    OBVIOUS
  <2>1. CallInRange(c)
    BY <1>1 DEF IndexInv
  <2> QED
    BY <2>1, CallStaysInRange
<1>3. ASSUME Timely', NEW t \in Server, Leader(t)', NEW i \in Server
      PROVE  rf'[t].nextIndex[i] <= LastLogicalIndex(rf'[t]) + 1
  <2>1. CASE t = s
    <3>1. rf'[t] = q /\ q \in Unsnapped
      BY <2>1 DEF Typed, TypeOK, Ranged
    <3>2. LastLogicalIndex(q) + 1 = Len(q.logs)
      BY <3>1, EndOfLog
    <3> QED
      BY <1>3, <3>1, <3>2 DEF Leader
  <2>2. CASE t # s
    <3>1. rf'[t] = rf[t]
      BY <2>2 DEF Typed, TypeOK
    <3> QED
      BY <1>1, <1>3, <3>1 DEF IndexInv, LeaderIndexInRange, Timely, Leader
  <2> QED
    BY <2>1, <2>2
<1>4. LeaderIndexInRange'
  BY <1>3 DEF LeaderIndexInRange, Timely
<1> QED
  BY <1>2, <1>4 DEF IndexInv

(* No peer changes. *)
LEMMA IndexStutter ==
    ASSUME IndexInv, rf' = rf, windows \subseteq windows',
           Timely' => \A c \in appendCalls' : c \in appendCalls \/ CallInRange(c)'
    PROVE  IndexInv'
<1>1. Timely' => Timely
  BY DEF Timely
<1>2. Timely' => \A c \in appendCalls' : CallInRange(c)'
  <2> SUFFICES ASSUME Timely', NEW c \in appendCalls', c \in appendCalls PROVE CallInRange(c)'
    OBVIOUS
  <2>1. CallInRange(c)
    BY <1>1 DEF IndexInv
  <2> QED
    BY <2>1 DEF CallInRange, LastLogicalIndex
<1>3. LeaderIndexInRange'
  BY <1>1 DEF IndexInv, LeaderIndexInRange, Timely, Leader, LastLogicalIndex
<1> QED
  BY <1>2, <1>3 DEF IndexInv

(* A Leader's nextIndex is within its log. *)
LEMMA LeaderRange ==
    ASSUME Typed, IndexInv, Timely, NEW s \in Server, rf[s].role = "Leader"
    PROVE  \A i \in Server : rf[s].nextIndex[i] <= Len(rf[s].logs)
<1>1. LastLogicalIndex(rf[s]) + 1 = Len(rf[s].logs)
  BY EndOfLog DEF Typed
<1> QED
  BY <1>1 DEF IndexInv, LeaderIndexInRange, Timely, Leader

(* A handler that leaves nextIndex alone keeps it there. *)
LEMMA QuietLeaderRange ==
    ASSUME Typed, IndexInv, Timely, NEW s \in Server, NEW q, Quiet(rf[s], q),
           q.nextIndex = rf[s].nextIndex, q.role = "Leader"
    PROVE  \A i \in Server : q.nextIndex[i] <= Len(q.logs)
<1>1. /\ rf[s].role = "Leader" /\ Len(q.logs) >= Len(rf[s].logs)
      /\ q \in Unsnapped /\ rf[s] \in Unsnapped
  BY DEF Quiet, Typed, Unsnapped, Peer, Role
<1>2. \A i \in Server : rf[s].nextIndex[i] <= Len(rf[s].logs)
  BY <1>1, LeaderRange
<1>3. \A i \in Server : rf[s].nextIndex[i] \in Int
  BY <1>1 DEF Unsnapped, Peer
<1>4. Len(q.logs) \in Nat /\ Len(rf[s].logs) \in Nat
  BY <1>1, EndOfLog
<1> QED
  BY <1>1, <1>2, <1>3, <1>4, SMTT(30)

(* Such a handler keeps IndexInv. *)
LEMMA QuietIndexed ==
    ASSUME Typed, IndexInv, NEW s \in Server, NEW q, Quiet(rf[s], q),
           q.nextIndex = rf[s].nextIndex \/ q.role = "Follower",
           rf' = [rf EXCEPT ![s] = q], windows \subseteq windows',
           Timely' => \A c \in appendCalls' : c \in appendCalls \/ CallInRange(c)'
    PROVE  IndexInv'
<1>1. Ranged(rf[s], q)
  BY QuietRanged DEF Typed
<1>2. Timely' /\ q.role = "Leader" => \A i \in Server : q.nextIndex[i] <= Len(q.logs)
  BY QuietLeaderRange DEF Timely
<1> QED
  BY <1>1, <1>2, IndexStep

(* Elections keep the indices of Leaders: a new Leader starts at the end of *)
(* its log, and a Candidate has raised its term.                           *)
LEMMA PeerStepIndexed ==
    ASSUME Typed, IndexInv, NEW s \in Server, PeerStep(s)
    PROVE  IndexInv'
<1>1. CASE StartElection(s)
  <2> DEFINE q == BecomeCandidate(rf[s], s)
  <2>1. /\ q \in Unsnapped /\ q.role = "Candidate"
        /\ q.currentTerm = rf[s].currentTerm + 1 /\ rf[s].currentTerm \in Nat
    BY BecomeCandidateType DEF Typed, TypeOK, Peer
  <2> HIDE DEF q
  <2>2. Ranged(rf[s], q)
    BY <2>1, SMTT(30) DEF Ranged
  <2>3. rf' = [rf EXCEPT ![s] = q] /\ UNCHANGED <<appendCalls, windows>>
    BY <1>1 DEF StartElection, logVars, q
  <2> QED
    BY <2>1, <2>2, <2>3, IndexStep
<1>2. CASE Heartbeat(s)
  <2>1. /\ rf' = rf /\ windows' = windows
        /\ \A c \in appendCalls' : c \in appendCalls \/ c.pc = "spawned"
    BY <1>2, SMTT(30) DEF Heartbeat, histVars
  <2> QED
    BY <2>1, IndexStutter DEF CallInRange
<1>3. CASE \/ ElectionTimeout(s) \/ SendRequestVotes(s)
           \/ \E command \in Command : StartReadsTerm(s, command)
  <2>1. UNCHANGED <<rf, appendCalls, windows>>
    BY <1>3 DEF ElectionTimeout, SendRequestVotes, StartReadsTerm, logVars, histVars
  <2> QED
    BY <2>1, IndexStutter
<1> QED
  BY <1>1, <1>2, <1>3 DEF PeerStep

(* RequestVote, its answers and Start keep them. *)
LEMMA VoteStepIndexed ==
    ASSUME Typed, IndexInv,
           \/ \E m \in voteRequests : ReceiveRequestVote(m)
           \/ \E m \in voteReplies : ReceiveVoteReply(m)
    PROVE  IndexInv'
<1>1. ASSUME NEW m \in voteRequests, ReceiveRequestVote(m) PROVE IndexInv'
  <2> DEFINE q == RequestVote(rf[m.to], m.args)
  <2>1. m.to \in Server /\ m.args \in RequestVoteArgs /\ rf[m.to] \in Unsnapped
    BY DEF Typed, TypeOK, VoteRequest
  <2>2. /\ q \in Unsnapped /\ q.logs = rf[m.to].logs /\ q.nextIndex = rf[m.to].nextIndex
        /\ \/ q.currentTerm = rf[m.to].currentTerm /\ q.role = rf[m.to].role
           \/ q.currentTerm > rf[m.to].currentTerm /\ q.role = "Follower"
    BY <2>1, RequestVoteType
  <2> HIDE DEF q
  <2>3. rf' = [rf EXCEPT ![m.to] = q] /\ UNCHANGED <<appendCalls, windows>>
    BY <1>1 DEF ReceiveRequestVote, logVars, q
  <2>4. Ranged(rf[m.to], q)
    BY <2>1, <2>2, EndOfLog, SMTT(30) DEF Ranged, Unsnapped, Peer
  <2>5. Timely' /\ q.role = "Leader" => \A i \in Server : q.nextIndex[i] <= Len(q.logs)
    BY <2>1, <2>2, <2>3, LeaderRange DEF Timely
  <2> QED
    BY <2>1, <2>3, <2>4, <2>5, IndexStep
<1>2. ASSUME NEW m \in voteReplies, ReceiveVoteReply(m) PROVE IndexInv'
  <2> DEFINE s == m.from
             e == elections[s][m.election]
             q == HandleVoteReply(rf[s], m.reply, e.voteCount)
  <2>1. /\ s \in Server /\ m.reply \in RequestVoteReplies
        /\ m.election \in DOMAIN elections[s] /\ rf[s] \in Unsnapped
        /\ elections[s] \in Seq([Term : Nat, voteCount : Nat])
    BY DEF Typed, TypeOK, VoteReply
  <2>2. e \in [Term : Nat, voteCount : Nat]
    BY <2>1, ElementOfSeq, LenProperties
  <2>3. \/ /\ q \in Unsnapped /\ q.currentTerm = rf[s].currentTerm
           /\ rf[s].role = "Candidate" /\ q.role = "Leader" /\ q.logs = rf[s].logs
           /\ q.nextIndex = [i \in Server |-> LastLogicalIndex(rf[s]) + 1]
        \/ Quiet(rf[s], q) /\ q.nextIndex = rf[s].nextIndex
    BY <2>1, <2>2, HandleVoteReplyType
  <2>4. /\ rf' = [rf EXCEPT ![s] = q] /\ appendCalls' = appendCalls
        /\ windows \subseteq windows'
    BY <1>2 DEF ReceiveVoteReply, logVars, Through
  <2> HIDE DEF q, s
  <2>5. Ranged(rf[s], q)
    <3>1. CASE Quiet(rf[s], q)
      BY <2>1, <3>1, QuietRanged
    <3>2. CASE ~Quiet(rf[s], q)
      <4>1. rf[s].currentTerm \in Nat /\ Len(rf[s].logs) \in Nat
        BY <2>1, EndOfLog DEF Unsnapped, Peer
      <4>2. /\ q \in Unsnapped /\ q.currentTerm = rf[s].currentTerm
            /\ rf[s].role = "Candidate" /\ q.logs = rf[s].logs
        BY <2>3, <3>2
      <4> QED
        BY <4>1, <4>2, SMTT(30) DEF Ranged
    <3> QED
      BY <3>1, <3>2
  <2>6. Timely' /\ q.role = "Leader" => \A i \in Server : q.nextIndex[i] <= Len(q.logs)
    <3>1. CASE Quiet(rf[s], q) /\ q.nextIndex = rf[s].nextIndex
      BY <2>1, <2>4, <3>1, QuietLeaderRange DEF Timely
    <3>2. CASE /\ q.logs = rf[s].logs
               /\ q.nextIndex = [i \in Server |-> LastLogicalIndex(rf[s]) + 1]
      BY <2>1, <3>2, EndOfLog, SMTT(30)
    <3> QED
      BY <2>3, <3>1, <3>2
  <2> QED
    BY <2>1, <2>4, <2>5, <2>6, IndexStep
<1> QED
  BY <1>1, <1>2

(* Start makes the log longer. *)
LEMMA StartAppendsIndexed ==
    ASSUME Typed, IndexInv, NEW p \in starts, StartAppends(p)
    PROVE  IndexInv'
<1> DEFINE q == AppendCommand(rf[p.server], p.term, p.command)
<1>1. p.server \in Server /\ p.term \in Nat /\ p.command \in Command
  BY DEF Typed, TypeOK
<1>2. Quiet(rf[p.server], q) /\ q.nextIndex = rf[p.server].nextIndex
  BY <1>1, AppendCommandQuiet DEF Typed
<1>3. /\ rf' = [rf EXCEPT ![p.server] = q] /\ appendCalls' = appendCalls
      /\ windows \subseteq windows'
  BY DEF StartAppends, Through
<1> HIDE DEF q
<1> QED
  BY <1>1, <1>2, <1>3, QuietIndexed

(* The goroutines of the heartbeat rounds: arguments are built within the  *)
(* log, an answer points no further than its arguments, and nextIndex      *)
(* follows the answer only in the term of the call.                        *)
LEMMA AppendStepIndexed ==
    ASSUME Typed, IndexInv, NEW c \in appendCalls, AppendStep(c)
    PROVE  IndexInv'
<1>0. /\ c.from \in Server /\ c.to \in Server
      /\ rf[c.from] \in Unsnapped /\ rf[c.to] \in Unsnapped
  BY AppendCallFields DEF Typed
<1>1. CASE PrepareAppend(c)
  <2> DEFINE args == GenAppendEntries(rf[c.from], c.from, c.to)
  <2>0. c.pc = "spawned"
    BY <1>1 DEF PrepareAppend
  <2>1. c.pc = "spawned" /\ c \in Goroutine({"spawned", "snapshot"}, {Nil}, {Nil})
    BY <2>0, AppendCallFields
  <2>2. ~GenAppendEntriesPanics(rf[c.from], c.to)
    BY <1>1, <2>1 DEF PrepareAppend, CallPanics
  <2>3. rf' = rf /\ windows' = windows
    BY <1>1 DEF PrepareAppend, histVars
  <2>4. CASE NeedsSnapshot(rf[c.from], c.to)
    <3>1. \A x \in appendCalls' : x \in appendCalls \/ x.pc = "snapshot"
      BY <1>1, <2>1, <2>4 DEF PrepareAppend, Advance, Goroutine
    <3> QED
      BY <2>3, <3>1, IndexStutter DEF CallInRange
  <2>5. CASE ~NeedsSnapshot(rf[c.from], c.to)
    <3>1. /\ args.Term = rf[c.from].currentTerm
          /\ args.PrevLogIndex \in 0..LastLogicalIndex(rf[c.from])
      BY <1>0, <2>2, <2>5, GenAppendEntriesType
    <3>2. rf[c.from].currentTerm \in Nat /\ LastLogicalIndex(rf[c.from]) \in Nat
      BY <1>0, LastLogType DEF Unsnapped, Peer
    <3> PICK d : d = [c EXCEPT !.pc = "ready", !.args = args]
      OBVIOUS
    <3>3. appendCalls' = Advance(appendCalls, c, d)
      BY <1>1, <2>5 DEF PrepareAppend
    <3> HIDE DEF args
    <3>4. d.from = c.from /\ d.pc = "ready" /\ d.args = args
      BY <2>1 DEF Goroutine
    <3>5. CallInRange(d)'
      BY <2>3, <3>1, <3>2, <3>4, SMTT(30) DEF CallInRange
    <3>6. \A x \in appendCalls' : x \in appendCalls \/ x = d
      BY <3>3 DEF Advance
    <3> QED
      BY <2>3, <3>5, <3>6, IndexStutter
  <2> QED
    BY <2>4, <2>5
<1>2. CASE Panic(c)
  BY <1>2, IndexStutter DEF Panic, histVars
<1>3. CASE SendAppend(c)
  <2> DEFINE d == [c EXCEPT !.pc = "request"]
  <2>1. rf' = rf /\ windows \subseteq windows'
    BY <1>3 DEF SendAppend, Through
  <2>2. \A x \in appendCalls' : x \in appendCalls \/ (x = d /\ c.pc = "ready")
    BY <1>3 DEF SendAppend, Advance
  <2>3. d.from = c.from /\ d.pc = "request" /\ d.args = c.args
    BY AppendCallFields, SMTT(30)
  <2> HIDE DEF d
  <2>4. Timely' /\ c.pc = "ready" => CallInRange(d)'
    <3> SUFFICES ASSUME Timely', c.pc = "ready" PROVE CallInRange(d)'
      OBVIOUS
    <3>1. CallInRange(c)
      BY <2>1 DEF IndexInv, Timely
    <3> QED
      BY <2>1, <2>3, <3>1 DEF CallInRange
  <2> QED
    BY <2>1, <2>2, <2>4, IndexStutter
<1>4. CASE ReceiveAppend(c)
  <2> DEFINE q == AppendEntries(rf[c.to], c.args)
             reply == AppendEntriesReply(rf[c.to], c.args)
  <2> PICK d : d = [c EXCEPT !.pc = "reply", !.reply = reply]
    OBVIOUS
  <2>0. c.pc = "request"
    BY <1>4 DEF ReceiveAppend
  <2>1. /\ c.pc = "request" /\ c.args \in AppendEntriesArgs
        /\ c \in Goroutine({"ready", "request"}, AppendEntriesArgs, {Nil})
    BY <2>0, AppendCallFields
  <2>2. Quiet(rf[c.to], q) /\ (q = rf[c.to] \/ q.role = "Follower")
    BY <1>0, <2>1, AppendEntriesQuiet
  <2>3. reply.ConflictIndex <= c.args.PrevLogIndex
    BY <1>0, <2>1, AppendEntriesReplyType
  <2>4. /\ rf' = [rf EXCEPT ![c.to] = q] /\ appendCalls' = Advance(appendCalls, c, d)
        /\ windows \subseteq windows'
    BY <1>4 DEF ReceiveAppend, Through
  <2> HIDE DEF q, reply
  <2>5. d.from = c.from /\ d.pc = "reply" /\ d.args = c.args /\ d.reply = reply
    BY <2>1 DEF Goroutine
  <2>6. Timely' => CallInRange(d)'
    <3> SUFFICES ASSUME Timely' PROVE CallInRange(d)'
      OBVIOUS
    <3>1. CallInRange(c)
      BY <2>4 DEF IndexInv, Timely
    <3>2. CallInRange(c)'
      BY <1>0, <2>2, <2>4, <3>1, CallStaysInRange, QuietRanged
    <3> QED
      BY <2>1, <2>3, <2>5, <3>2 DEF CallInRange
  <2>7. \A x \in appendCalls' : x \in appendCalls \/ x = d
    BY <2>4 DEF Advance
  <2> QED
    BY <1>0, <2>2, <2>4, <2>6, <2>7, QuietIndexed
<1>5. CASE ReceiveAppendReply(c)
  <2> DEFINE p == rf[c.from]
             q == HandleAppendEntries(p, c.from, c.to, c.args, c.reply)
  <2>1. c.pc = "reply" /\ c.args \in AppendEntriesArgs /\ c.reply \in AppendEntriesReplies
    BY <1>5, AppendCallFields DEF ReceiveAppendReply
  <2>2. /\ Quiet(p, q) /\ q.logs = p.logs
        /\ q.role = "Leader" =>
             /\ \A i \in Server \ {c.to} : q.nextIndex[i] = p.nextIndex[i]
             /\ \/ q.nextIndex[c.to] = LastLogicalIndex(p) + 1
                \/ q.nextIndex[c.to] <= p.nextIndex[c.to]
                \/ q.nextIndex[c.to] = c.reply.ConflictIndex /\ c.reply.Term <= p.currentTerm
    <3>1. PICK p0 \in Unsnapped : p0 = p
      BY <1>0
    <3>2. PICK args \in AppendEntriesArgs : args = c.args
      BY <2>1
    <3>3. PICK reply \in AppendEntriesReplies : reply = c.reply
      BY <2>1
    <3>4. PICK me \in Server, server \in Server : me = c.from /\ server = c.to
      BY <1>0
    <3>5. PICK r : r = HandleAppendEntries(p0, me, server, args, reply)
      OBVIOUS
    <3>6. /\ Quiet(p0, r) /\ r.logs = p0.logs
          /\ r.role = "Leader" =>
               /\ \A i \in Server \ {server} : r.nextIndex[i] = p0.nextIndex[i]
               /\ \/ r.nextIndex[server] = LastLogicalIndex(p0) + 1
                  \/ r.nextIndex[server] <= p0.nextIndex[server]
                  \/ r.nextIndex[server] = reply.ConflictIndex /\ reply.Term <= p0.currentTerm
      BY <3>5, HandleAppendEntriesQuiet, SMTT(30)
    <3> QED
      BY <3>1, <3>2, <3>3, <3>4, <3>5, <3>6
  <2>3. /\ rf' = [rf EXCEPT ![c.from] = q] /\ appendCalls' \subseteq appendCalls
        /\ Through("staleReply", /\ p.role = "Leader" /\ c.args.Term # p.currentTerm
                                 /\ c.reply.Term <= p.currentTerm)
    BY <1>5 DEF ReceiveAppendReply
  <2> HIDE DEF q
  <2>4. windows \subseteq windows'
    BY <2>3 DEF Through
  <2>5. ASSUME Timely', q.role = "Leader", NEW i \in Server
        PROVE  q.nextIndex[i] <= Len(q.logs)
    <3>1. Timely /\ p.role = "Leader"
      BY <2>2, <2>4, <2>5 DEF Timely, Quiet
    <3>2. /\ Len(p.logs) \in Nat /\ LastLogicalIndex(p) + 1 = Len(p.logs)
          /\ LastLogicalIndex(p) \in Nat
      BY <1>0, EndOfLog, LastLogType
    <3>3. \A j \in Server : p.nextIndex[j] <= Len(p.logs)
      BY <1>0, <3>1, LeaderRange
    <3>4. CASE i # c.to
      BY <2>2, <2>5, <3>3, <3>4
    <3>5. CASE i = c.to
      <4>1. /\ q.nextIndex[c.to] \in Int /\ p.nextIndex[c.to] \in Int
            /\ c.reply.ConflictIndex \in Int /\ c.args.PrevLogIndex \in Nat
        BY <1>0, <2>1, <2>2 DEF Quiet, Unsnapped, Peer, AppendEntriesArgs,
                                AppendEntriesReplies
      <4>2. CASE q.nextIndex[c.to] = LastLogicalIndex(p) + 1
        BY <2>2, <3>2, <3>5, <4>2, SMTT(30)
      <4>3. CASE q.nextIndex[c.to] <= p.nextIndex[c.to]
        BY <1>0, <2>2, <3>2, <3>3, <3>5, <4>1, <4>3, SMTT(30)
      <4>4. CASE q.nextIndex[c.to] = c.reply.ConflictIndex /\ c.reply.Term <= p.currentTerm
        <5>1. c.args.Term = p.currentTerm
          BY <2>3, <2>5, <3>1, <4>4 DEF Through, Timely
        <5>2. CallInRange(c)
          BY <3>1 DEF IndexInv
        <5>3. c.reply.ConflictIndex <= c.args.PrevLogIndex
          BY <2>1, <5>2 DEF CallInRange
        <5>4. c.args.PrevLogIndex <= LastLogicalIndex(p)
          BY <2>1, <3>1, <5>1, <5>2 DEF CallInRange
        <5> QED
          BY <2>2, <3>2, <3>5, <4>1, <4>4, <5>3, <5>4, SMTT(30)
      <4> QED
        BY <2>2, <2>5, <4>2, <4>3, <4>4
    <3> QED
      BY <3>4, <3>5
  <2>6. Ranged(p, q)
    BY <1>0, <2>2, QuietRanged
  <2> QED
    BY <1>0, <2>3, <2>4, <2>5, <2>6, IndexStep
<1> QED
  BY <1>1, <1>2, <1>3, <1>4, <1>5 DEF AppendStep

(* handleInstallSnapshot: it puts nextIndex at the start of the log, and   *)
(* its unlocked step-down is a window.                                     *)
LEMMA SnapshotStepIndexed ==
    ASSUME Typed, IndexInv, NEW c \in snapCalls, SnapshotStep(c)
    PROVE  IndexInv'
<1>0. /\ c.from \in Server /\ c.to \in Server
      /\ rf[c.from] \in Unsnapped /\ rf[c.to] \in Unsnapped
  BY SnapCallFields DEF Typed
<1>1. CASE \/ PrepareSnapshot(c) \/ SendSnapshot(c) \/ CheckSnapshotReply(c)
           \/ CompareSnapshotReply(c) \/ CompareSnapshotIndex(c)
  <2>1. UNCHANGED <<rf, appendCalls, windows>>
    BY <1>1 DEF PrepareSnapshot, SendSnapshot, CheckSnapshotReply, CompareSnapshotReply,
                CompareSnapshotIndex, histVars
  <2> QED
    BY <2>1, IndexStutter
<1>2. CASE ReceiveSnapshot(c)
  <2> DEFINE q == InstallSnapshot(rf[c.to], c.args)
  <2>1. c.args \in InstallSnapshotArgs /\ c.args.LastIncludedIndex = 0
    BY <1>2, SnapCallFields DEF ReceiveSnapshot
  <2>2. Quiet(rf[c.to], q) /\ q.nextIndex = rf[c.to].nextIndex
    BY <1>0, <2>1, InstallSnapshotQuiet
  <2>3. rf' = [rf EXCEPT ![c.to] = q] /\ UNCHANGED <<appendCalls, windows>>
    BY <1>2 DEF ReceiveSnapshot, histVars
  <2> HIDE DEF q
  <2> QED
    BY <1>0, <2>2, <2>3, QuietIndexed
<1>3. CASE SnapshotSetsTerm(c)
  <2>1. ~Timely'
    BY <1>3 DEF SnapshotSetsTerm, Through, Timely
  <2> QED
    BY <2>1 DEF IndexInv, LeaderIndexInRange, Timely
<1>4. CASE SnapshotSetsRole(c) \/ SnapshotSetsVote(c) \/ SnapshotSetsMatch(c)
  <2>1. PICK q : /\ Ranged(rf[c.from], q) /\ rf' = [rf EXCEPT ![c.from] = q]
                 /\ q.nextIndex = rf[c.from].nextIndex /\ q.logs = rf[c.from].logs
                 /\ q.role \in {rf[c.from].role, "Follower"}
    <3>1. CASE SnapshotSetsRole(c)
      <4> DEFINE q == ConvertRole(rf[c.from], "Follower")
      <4>0. /\ q \in Unsnapped /\ q.role = "Follower"
            /\ q.currentTerm = rf[c.from].currentTerm /\ rf[c.from].currentTerm \in Nat
            /\ q.nextIndex = rf[c.from].nextIndex /\ q.logs = rf[c.from].logs
        <5>1. q \in Unsnapped
          BY <1>0 DEF Unsnapped, Peer, ConvertRole, Role
        <5>2. q.role = "Follower" /\ q.currentTerm = rf[c.from].currentTerm
          BY <1>0 DEF Unsnapped, Peer, ConvertRole
        <5>3. q.nextIndex = rf[c.from].nextIndex /\ q.logs = rf[c.from].logs
          BY <1>0 DEF Unsnapped, Peer, ConvertRole
        <5>4. rf[c.from].currentTerm \in Nat
          BY <1>0 DEF Unsnapped, Peer
        <5> HIDE DEF q
        <5> QED
          BY <5>1, <5>2, <5>3, <5>4
      <4>1. Ranged(rf[c.from], q)
        <5> HIDE DEF q
        <5> QED
          BY <4>0, SMTT(30) DEF Ranged
      <4> QED
        BY <3>1, <4>0, <4>1 DEF SnapshotSetsRole
    <3>2. CASE SnapshotSetsVote(c)
      <4> DEFINE q == [rf[c.from] EXCEPT !.votedFor = -1]
      <4>0. /\ q \in Unsnapped /\ q.role = rf[c.from].role
            /\ q.currentTerm = rf[c.from].currentTerm /\ rf[c.from].currentTerm \in Nat
            /\ q.nextIndex = rf[c.from].nextIndex /\ q.logs = rf[c.from].logs
        <5>1. q \in Unsnapped
          BY <1>0 DEF Unsnapped, Peer
        <5>2. q.role = rf[c.from].role /\ q.currentTerm = rf[c.from].currentTerm
          BY <1>0 DEF Unsnapped, Peer
        <5>3. q.nextIndex = rf[c.from].nextIndex /\ q.logs = rf[c.from].logs
          BY <1>0 DEF Unsnapped, Peer
        <5>4. rf[c.from].currentTerm \in Nat
          BY <1>0 DEF Unsnapped, Peer
        <5> HIDE DEF q
        <5> QED
          BY <5>1, <5>2, <5>3, <5>4
      <4>1. Ranged(rf[c.from], q)
        <5> HIDE DEF q
        <5>1. Len(rf[c.from].logs) \in Nat
          BY <1>0, EndOfLog
        <5> QED
          BY <4>0, <5>1, SMTT(30) DEF Ranged
      <4> QED
        BY <3>2, <4>0, <4>1 DEF SnapshotSetsVote
    <3>3. CASE SnapshotSetsMatch(c)
      <4> DEFINE q == [rf[c.from] EXCEPT !.matchIndex[c.to] = c.args.LastIncludedIndex]
      <4>1. c.args.LastIncludedIndex \in Int
        BY <3>3, SnapCallFields, SMTT(30) DEF SnapshotSetsMatch
      <4>2. Ranged(rf[c.from], q)
        BY <1>0, <4>1, SnapshotSetsQuiet, QuietRanged
      <4>3. /\ q.role = rf[c.from].role
            /\ q.nextIndex = rf[c.from].nextIndex /\ q.logs = rf[c.from].logs
        BY <1>0 DEF Unsnapped, Peer
      <4>4. rf' = [rf EXCEPT ![c.from] = q]
        BY <3>3 DEF SnapshotSetsMatch
      <4> QED
        BY <4>2, <4>3, <4>4
    <3> QED
      BY <1>4, <3>1, <3>2, <3>3
  <2>2. UNCHANGED <<appendCalls, windows>>
    BY <1>4 DEF SnapshotSetsRole, SnapshotSetsVote, SnapshotSetsMatch, histVars
  <2>3. Timely' /\ q.role = "Leader" => \A i \in Server : q.nextIndex[i] <= Len(q.logs)
    BY <1>0, <2>1, <2>2, LeaderRange DEF Timely
  <2> QED
    BY <1>0, <2>1, <2>2, <2>3, IndexStep
<1>5. CASE SnapshotSetsNext(c)
  <2> DEFINE q == [rf[c.from] EXCEPT !.nextIndex[c.to] = c.args.LastIncludedIndex + 1]
  <2>0. c.pc = "setNext"
    BY <1>5 DEF SnapshotSetsNext
  <2>1. c.args.LastIncludedIndex = 0 /\ c.args.LastIncludedIndex + 1 = 1
    BY <2>0, SnapCallFields, SMTT(30)
  <2>2. Quiet(rf[c.from], q)
    <3>1. Quiet(rf[c.from], [rf[c.from] EXCEPT !.nextIndex[c.to] = 1])
      <4>1. 1 \in Int
        BY SMTT(30)
      <4> QED
        BY <1>0, <4>1, SnapshotSetsQuiet
    <3> QED
      BY <2>1, <3>1
  <2>3. /\ q.role = rf[c.from].role /\ q.logs = rf[c.from].logs
        /\ q.nextIndex = [rf[c.from].nextIndex EXCEPT ![c.to] = 1]
    BY <1>0, <2>1 DEF Unsnapped, Peer
  <2>4. rf' = [rf EXCEPT ![c.from] = q] /\ UNCHANGED <<appendCalls, windows>>
    BY <1>5 DEF SnapshotSetsNext, histVars
  <2> HIDE DEF q
  <2>5. Timely' /\ q.role = "Leader" => \A i \in Server : q.nextIndex[i] <= Len(q.logs)
    <3> SUFFICES ASSUME Timely', q.role = "Leader", NEW i \in Server
                 PROVE  q.nextIndex[i] <= Len(q.logs)
      OBVIOUS
    <3>1. Len(rf[c.from].logs) \in Nat /\ Len(rf[c.from].logs) > 0
      BY <1>0, EndOfLog DEF Unsnapped
    <3>2. rf[c.from].nextIndex \in [Server -> Int]
      BY <1>0 DEF Unsnapped, Peer
    <3>3. rf[c.from].nextIndex[i] <= Len(rf[c.from].logs)
      BY <1>0, <2>3, <2>4, LeaderRange DEF Timely
    <3> QED
      BY <2>3, <3>1, <3>2, <3>3, SMTT(30)
  <2>6. Ranged(rf[c.from], q)
    BY <1>0, <2>2, QuietRanged
  <2> QED
    BY <1>0, <2>4, <2>5, <2>6, IndexStep
<1> QED
  BY <1>1, <1>2, <1>3, <1>4, <1>5 DEF SnapshotStep

(* While a peer is Leader, genAppendEntries and handleAppendEntries index  *)
(* its log in range, in clusters of any size and however many leaderships  *)
(* a goroutine outlives, unless handleAppendEntries has used the answer to *)
(* a call of an older term or a term was changed without the mutex.        *)
THEOREM LeaderIndexHolds == Spec => []LeaderIndexInRange
<1>1. Init => Typed /\ IndexInv
  <2>1. ASSUME Init PROVE IndexInv
    BY <2>1 DEF Init, Make, IndexInv, LeaderIndexInRange, Leader
  <2> QED
    BY <2>1, InitTyped
<1>2. Typed /\ IndexInv /\ [Next]_vars => Typed' /\ IndexInv'
  <2> SUFFICES ASSUME Typed, IndexInv, [Next]_vars PROVE IndexInv'
    BY NextTyped
  <2>1. CASE UNCHANGED vars
    BY <2>1, IndexStutter DEF vars, logVars, histVars
  <2>2. CASE Next
    BY <2>2, PeerStepIndexed, VoteStepIndexed, StartAppendsIndexed, AppendStepIndexed,
       SnapshotStepIndexed DEF Next
  <2> QED
    BY <2>1, <2>2
<1>3. IndexInv => LeaderIndexInRange
  BY DEF IndexInv
<1> QED
  BY <1>1, <1>2, <1>3, PTL DEF Spec

-----------------------------------------------------------------------------
(* What both the elections and the logs build on *)

(* A peer that does nothing is quiet. *)
LEMMA QuietReflexive == ASSUME NEW p \in Unsnapped PROVE Quiet(p, p)
BY LenProperties, SMTT(30) DEF Quiet, Unsnapped, Peer

(* windows only grows. *)
LEMMA WindowsGrow == [Next]_vars => windows \subseteq windows'
BY DEF Next, vars, histVars, PeerStep, AppendStep, SnapshotStep, Through,
       ElectionTimeout, StartElection, SendRequestVotes, Heartbeat, StartReadsTerm,
       ReceiveRequestVote, ReceiveVoteReply, StartAppends, PrepareAppend, Panic,
       SendAppend, ReceiveAppend, ReceiveAppendReply, PrepareSnapshot, SendSnapshot,
       ReceiveSnapshot, CheckSnapshotReply, CompareSnapshotReply, CompareSnapshotIndex,
       SnapshotSetsNext, SnapshotSetsMatch, SnapshotSetsTerm, SnapshotSetsRole,
       SnapshotSetsVote

(* What ReceiveRequestVote(m) does to calls and votes. *)
LEMMA ReceiveRequestVoteEffect ==
    ASSUME Typed, CallInv, NEW m \in voteRequests, ReceiveRequestVote(m)
    PROVE  LET r == [from |-> m.from, to |-> m.to, election |-> m.election,
                     reply |-> RequestVoteReply(rf[m.to], m.args)]
           IN  /\ m.from \in Server /\ m.to \in Server /\ m.args \in RequestVoteArgs
               /\ voteRequests' = voteRequests \ {m}
               /\ voteReplies' = voteReplies \cup {r}
               /\ r.reply.VoteGranted = GrantsVote(rf[m.to], m.args)
               /\ grants' = IF GrantsVote(rf[m.to], m.args)
                            THEN grants \cup {Vote(m.to, m.args.Term, m.from)}
                            ELSE grants
               /\ UNCHANGED <<ticker, elections, windows>>
               /\ rf'[m.to] = RequestVote(rf[m.to], m.args)
               /\ \A t \in Server \ {m.to} : rf'[t] = rf[t]
<1>1. m.from \in Server /\ m.to \in Server /\ m.args \in RequestVoteArgs
  BY DEF Typed, TypeOK, VoteRequest
<1>2. m.args.CandidateId = m.from
  BY DEF CallInv
<1>3. RequestVote(rf[m.to], m.args) \in Unsnapped
  BY <1>1, RequestVoteType DEF Typed
<1> QED
  BY <1>1, <1>2, <1>3, PeerChanges DEF ReceiveRequestVote, RequestVoteReply, Vote

(* What ReceiveVoteReply(m) does to calls and counters. *)
LEMMA ReceiveVoteReplyEffect ==
    ASSUME Typed, NEW m \in voteReplies, ReceiveVoteReply(m)
    PROVE  LET s == m.from
               counts == CountsVote(rf[s], m.reply)
           IN  /\ s \in Server /\ m.to \in Server /\ m.reply \in RequestVoteReplies
               /\ m.election \in DOMAIN elections[s]
               /\ elections[s][m.election].voteCount \in Nat
               /\ voteReplies' = voteReplies \ {m}
               /\ \A t \in Server : DOMAIN elections'[t] = DOMAIN elections[t]
               /\ \A t \in Server : \A n \in DOMAIN elections[t] :
                    /\ elections'[t][n].Term = elections[t][n].Term
                    /\ elections'[t][n].voteCount =
                         IF counts /\ t = s /\ n = m.election
                         THEN elections[t][n].voteCount + 1
                         ELSE elections[t][n].voteCount
               /\ UNCHANGED <<ticker, voteRequests, grants>>
               /\ rf'[s] = HandleVoteReply(rf[s], m.reply, elections[s][m.election].voteCount)
               /\ \A t \in Server \ {s} : rf'[t] = rf[t]
<1> DEFINE s == m.from
           e == elections[s][m.election]
           counts == CountsVote(rf[s], m.reply)
<1>1. /\ s \in Server /\ m.to \in Server /\ m.reply \in RequestVoteReplies
      /\ m.election \in DOMAIN elections[s]
      /\ elections \in [Server -> Seq([Term : Nat, voteCount : Nat])]
  BY DEF Typed, TypeOK, VoteReply
<1>2. \A t \in Server : \A n \in DOMAIN elections[t] :
        elections[t][n] \in [Term : Nat, voteCount : Nat]
  BY <1>1, ElementOfSeq, LenProperties
<1>3. /\ \A t \in Server : DOMAIN elections'[t] = DOMAIN elections[t]
      /\ \A t \in Server : \A n \in DOMAIN elections[t] :
            /\ elections'[t][n].Term = elections[t][n].Term
            /\ elections'[t][n].voteCount =
                 IF counts /\ t = s /\ n = m.election
                 THEN elections[t][n].voteCount + 1
                 ELSE elections[t][n].voteCount
  <2>1. CASE ~counts
    BY <2>1 DEF ReceiveVoteReply
  <2>2. CASE counts
    <3> DEFINE e2 == [e EXCEPT !.voteCount = @ + 1]
               es == [elections[s] EXCEPT ![m.election] = e2]
    <3>1. elections' = [elections EXCEPT ![s] = es]
      BY <1>1, <2>2 DEF ReceiveVoteReply
    <3>2. e2.Term = e.Term /\ e2.voteCount = e.voteCount + 1
      BY <1>1, <1>2
    <3> HIDE DEF e2
    <3>3. /\ DOMAIN es = DOMAIN elections[s] /\ es[m.election] = e2
          /\ \A n \in DOMAIN elections[s] \ {m.election} : es[n] = elections[s][n]
      BY <1>1
    <3> HIDE DEF es
    <3>4. elections'[s] = es /\ \A t \in Server \ {s} : elections'[t] = elections[t]
      BY <1>1, <3>1
    <3> QED
      BY <2>2, <3>2, <3>3, <3>4
  <2> QED
    BY <2>1, <2>2
<1>4. e.voteCount \in Nat
  BY <1>1, <1>2
<1>5. HandleVoteReply(rf[s], m.reply, e.voteCount) \in Unsnapped
  BY <1>1, <1>4, HandleVoteReplyType DEF Typed, Quiet
<1>6. /\ rf'[s] = HandleVoteReply(rf[s], m.reply, e.voteCount)
      /\ \A t \in Server \ {s} : rf'[t] = rf[t]
  BY <1>1, <1>5, PeerChanges DEF ReceiveVoteReply
<1>7. voteReplies' = voteReplies \ {m} /\ UNCHANGED <<ticker, voteRequests, grants>>
  BY DEF ReceiveVoteReply
<1> QED
  BY <1>1, <1>3, <1>4, <1>6, <1>7
=============================================================================
