-------------------------- MODULE RaftPersistProofs --------------------------
(***************************************************************************)
(* Why a restarted peer of RaftPersist stands by what it told others, why  *)
(* state and snapshot are saved in step, and why the disk lags behind by a *)
(* term only, as long as no persist without the mutex saves a stale state. *)
(***************************************************************************)
EXTENDS RaftPersist, SequenceTheorems, FiniteSetTheorems, TLAPS

(* A peer, and a saved image, of which readPersist makes a well-formed     *)
(* peer: logs[0] is there and the snapshot covers a possible index.        *)
Sound == {p \in Peer : Len(p.logs) > 0 /\ p.lastIncludedIndex \in 0..MaxLog}

Images ==
    {i \in Image : Len(i.logs) > 0 /\ i.lastIncludedIndex \in 0..MaxLog
                                   /\ i.snapshot \in 0..MaxLog}

(* what persist without the mutex has read is of such images *)
Writer == [id : 1..MaxUnlocked, election : BOOLEAN, read : 0..6, image : Images]

TypeInv ==
    /\ rf \in Sound /\ snapshot \in 0..MaxLog
    /\ disk \in Images /\ told \in Images
    /\ writers \subseteq Writer
    /\ ticker \in {"idle", "candidate"} /\ asked \in BOOLEAN
    /\ unlocked \in 0..MaxUnlocked /\ crashes \in 0..MaxCrashes
    /\ windows \subseteq Window

SyncInv ==
    "staleSave" \notin windows =>
        /\ snapshot = rf.lastIncludedIndex
        /\ disk.snapshot = disk.lastIncludedIndex

(* The peer stands by what others were told, and so does the disk unless   *)
(* startElection's persist is still to come.                               *)
PromiseInv ==
    windows = {} =>
        /\ StandsBy(rf, told)
        /\ (\A w \in writers : ~w.election) => StandsBy(ReadPersist(disk), told)

(* the inductive invariant *)
IInv == TypeInv /\ SyncInv /\ DiskBehindByTermOnly /\ PromiseInv

-----------------------------------------------------------------------------
(* Images *)

(* Max and Min, as FiniteSetsExt chooses them, of two indices *)
LEMMA MaxMinOfTwo ==
    ASSUME NEW a \in Int, NEW b \in Int
    PROVE  /\ Max({a, b}) = IF a >= b THEN a ELSE b
           /\ Min({a, b}) = IF a <= b THEN a ELSE b
BY DEF Max, Min

(* persist saves a well-formed image of a well-formed peer. *)
LEMMA ImageOfType ==
    ASSUME NEW p \in Sound, NEW snap \in 0..MaxLog
    PROVE  ImageOf(p, snap) \in Images
BY PersistAssumption DEF Sound, Peer, ImageOf, Images, Image

(* Make, with and without readPersist, returns a well-formed peer. *)
LEMMA MakeSound == Make \in Sound /\ Make.lastIncludedIndex = 0
BY PersistAssumption, NilAssumption DEF Make, Sound, Peer, LogEntry, Role

(* readPersist restores what persist saved. *)
LEMMA ReadPersistType ==
    ASSUME NEW i \in Images
    PROVE  /\ ReadPersist(i) \in Sound
           /\ ReadPersist(i).lastIncludedIndex = i.lastIncludedIndex
           /\ ImageOf(ReadPersist(i), i.snapshot) = i
<1>1. /\ Make \in Peer
      /\ i \in Image /\ Len(i.logs) > 0 /\ i.lastIncludedIndex \in 0..MaxLog
  BY MakeSound DEF Sound, Images
<1>2. /\ ReadPersist(i) \in Peer
      /\ ReadPersist(i).currentTerm = i.currentTerm
      /\ ReadPersist(i).votedFor = i.votedFor
      /\ ReadPersist(i).logs = i.logs
      /\ ReadPersist(i).lastIncludedIndex = i.lastIncludedIndex
      /\ ReadPersist(i).lastIncludedTerm = i.lastIncludedTerm
  BY <1>1 DEF ReadPersist, Peer, Image
<1>3. ImageOf(ReadPersist(i), i.snapshot) = i
  BY <1>1, <1>2 DEF ImageOf, Image
<1> QED
  BY <1>1, <1>2, <1>3 DEF Sound

-----------------------------------------------------------------------------
(* What others were told *)

(* StandsBy depends on the saved fields only. *)
LEMMA StandsByFields ==
    ASSUME NEW p, NEW q, NEW i, StandsBy(p, i),
           q.currentTerm = p.currentTerm, q.votedFor = p.votedFor,
           q.logs = p.logs, q.lastIncludedIndex = p.lastIncludedIndex
    PROVE  StandsBy(q, i)
BY DEF StandsBy, HoldsLog, StorageIndex, Entry

(* What readPersist makes of a saved peer has the peer's saved fields. *)
LEMMA SavedFields ==
    ASSUME NEW p \in Sound, NEW snap \in 0..MaxLog
    PROVE  LET r == ReadPersist(ImageOf(p, snap))
           IN  /\ r.currentTerm = p.currentTerm /\ r.votedFor = p.votedFor
               /\ r.logs = p.logs /\ r.lastIncludedIndex = p.lastIncludedIndex
<1> DEFINE i == ImageOf(p, snap)
           r == ReadPersist(i)
<1>1. i \in Images /\ r \in Sound /\ ImageOf(r, i.snapshot) = i
  BY ImageOfType, ReadPersistType
<1> QED
  BY <1>1 DEF ImageOf

(* A peer stands by its own image, and so does what readPersist makes of it. *)
LEMMA StandsByOwn ==
    ASSUME NEW p \in Sound, NEW snap \in 0..MaxLog
    PROVE  /\ StandsBy(p, ImageOf(p, snap))
           /\ StandsBy(ReadPersist(ImageOf(p, snap)), ImageOf(p, snap))
<1> DEFINE i == ImageOf(p, snap)
           q == ReadPersist(i)
<1>1. /\ p.currentTerm \in Nat /\ Len(p.logs) \in Nat /\ p.lastIncludedIndex \in Int
  BY LenProperties DEF Sound, Peer
<1>2. StandsBy(p, i)
  BY <1>1 DEF StandsBy, HoldsLog, StorageIndex, Entry, ImageOf
<1>3. /\ q.currentTerm = p.currentTerm /\ q.votedFor = p.votedFor
      /\ q.logs = p.logs /\ q.lastIncludedIndex = p.lastIncludedIndex
  BY SavedFields
<1> QED
  BY <1>2, <1>3, StandsByFields

(* A log whose entries stand where they stood, d places further down,      *)
(* still holds what the image has.                                         *)
LEMMA HoldsShifted ==
    ASSUME NEW p, NEW q, NEW i, NEW d \in Nat,
           i.lastIncludedIndex \in Int, p.lastIncludedIndex \in Int,
           q.lastIncludedIndex = p.lastIncludedIndex + d,
           \A a \in Int : a > 0 /\ a + d < Len(p.logs) =>
               a < Len(q.logs) /\ q.logs[a + 1] = p.logs[a + d + 1],
           HoldsLog(p, i), Len(i.logs) \in Nat
    PROVE  HoldsLog(q, i)
<1> SUFFICES ASSUME NEW n \in 2..Len(i.logs), StorageIndex(q, i.lastIncludedIndex + n - 1) > 0
             PROVE  LET a == StorageIndex(q, i.lastIncludedIndex + n - 1)
                    IN  a < Len(q.logs) /\ q.logs[a + 1] = i.logs[n]
  BY Zenon DEF HoldsLog, Entry
<1> DEFINE a == StorageIndex(q, i.lastIncludedIndex + n - 1)
           b == StorageIndex(p, i.lastIncludedIndex + n - 1)
<1>1. a \in Int /\ b = a + d /\ a > 0 /\ b > 0
  BY DEF StorageIndex
<1>2. b > 0 => b < Len(p.logs) /\ p.logs[b + 1] = i.logs[n]
  BY Zenon DEF HoldsLog, Entry
<1> HIDE DEF a, b
<1>3. a < Len(q.logs) /\ q.logs[a + 1] = p.logs[a + d + 1]
  BY <1>1, <1>2
<1>4. q.logs[a + 1] = i.logs[n]
  BY <1>1, <1>2, <1>3
<1> QED
  BY <1>3, <1>4 DEF a

(* The log that stays behind a marker: logs[0] to logs[k] make way for it. *)
Marked(e, s, k) == <<e>> \o SubSeq(s, k + 2, Len(s))

(* Cutting entries off the front of a log keeps the entries behind. *)
LEMMA MarkedTail ==
    ASSUME NEW s \in Seq(LogEntry), NEW e \in LogEntry, NEW k \in Nat, k < Len(s)
    PROVE  /\ Marked(e, s, k) \in Seq(LogEntry) /\ Len(Marked(e, s, k)) = Len(s) - k
           /\ \A a \in Int : a > 0 /\ a + k < Len(s) =>
                /\ a < Len(Marked(e, s, k))
                /\ Marked(e, s, k)[a + 1] = s[a + k + 1]
<1> DEFINE m == k + 2
           rest == SubSeq(s, m, Len(s))
           mark == <<e>>
           t == mark \o rest
<1>1. Len(s) \in Nat /\ m \in Int
  BY LenProperties
<1>2. \A i \in m..Len(s) : s[i] \in LogEntry
  BY <1>1, ElementOfSeq
<1>3. mark \in Seq(LogEntry) /\ Len(mark) = 1
  OBVIOUS
<1> HIDE DEF mark
<1>4. /\ rest \in Seq(LogEntry)
      /\ Len(rest) = IF m <= Len(s) THEN Len(s) - m + 1 ELSE 0
      /\ \A i \in 1..(Len(s) - m + 1) : rest[i] = s[m + i - 1]
  <2> HIDE DEF m
  <2> QED
    BY <1>1, <1>2, SubSeqProperties
<1> HIDE DEF rest
<1>5. /\ t \in Seq(LogEntry) /\ Len(t) = Len(mark) + Len(rest)
      /\ \A i \in 1..(Len(mark) + Len(rest)) :
            t[i] = IF i <= Len(mark) THEN mark[i] ELSE rest[i - Len(mark)]
  BY <1>3, <1>4, ConcatProperties
<1> HIDE DEF t
<1>6. Len(t) = Len(s) - k
  BY <1>1, <1>3, <1>4, <1>5
<1>7. ASSUME NEW a \in Int, a > 0, a + k < Len(s)
      PROVE  a < Len(t) /\ t[a + 1] = s[a + k + 1]
  <2>1. a \in 1..(Len(s) - m + 1) /\ m + a - 1 = a + k + 1 /\ a + 1 \in 1..(Len(mark) + Len(rest))
    BY <1>1, <1>3, <1>4, <1>7
  <2>2. t[a + 1] = rest[a + 1 - Len(mark)] /\ a + 1 - Len(mark) = a
    BY <1>3, <1>5, <1>7, <2>1
  <2>3. rest[a] = s[m + a - 1]
    BY <1>4, <2>1
  <2> QED
    BY <1>1, <1>6, <1>7, <2>1, <2>2, <2>3
<1> QED
  BY <1>5, <1>6, <1>7, Zenon DEF Marked, t, mark, rest, m

(* A newer term takes nothing back. *)
LEMMA StandsByNewer ==
    ASSUME NEW p \in Sound, NEW q \in Sound, NEW i \in Images, StandsBy(p, i),
           q.currentTerm > p.currentTerm,
           q.logs = p.logs, q.lastIncludedIndex = p.lastIncludedIndex
    PROVE  StandsBy(q, i)
<1>1. p.currentTerm \in Nat /\ q.currentTerm \in Nat /\ i.currentTerm \in Nat
  BY DEF Sound, Peer, Images, Image
<1> QED
  BY <1>1 DEF StandsBy, HoldsLog, StorageIndex, Entry

-----------------------------------------------------------------------------
(* The critical sections of RaftPeer on a peer that may hold a snapshot *)

(* A section that leaves the snapshot alone. *)
Stays(p, q) == q \in Sound /\ q.lastIncludedIndex = p.lastIncludedIndex

(* A section that changes no promise: the log stays, and the term and the  *)
(* vote stay or a newer term is entered without a vote.                    *)
Yields(p, q) ==
    /\ Stays(p, q)
    /\ q.logs = p.logs /\ q.lastIncludedTerm = p.lastIncludedTerm
    /\ \/ q.currentTerm = p.currentTerm /\ q.votedFor = p.votedFor
       \/ q.currentTerm > p.currentTerm /\ q.votedFor = -1

(* The bounds that commitIndex is set to are indices. *)
LEMMA MaxMinType ==
    ASSUME NEW a \in Int, NEW b \in Int PROVE Max({a, b}) \in Int /\ Min({a, b}) \in Int
<1>1. Max({a, b}) \in {a, b} /\ Min({a, b}) \in {a, b}
  BY MaxMinOfTwo
<1> QED
  BY <1>1

(* The struct's fields have their types. *)
LEMMA SoundFields ==
    ASSUME NEW p \in Sound
    PROVE  /\ p \in Peer /\ p.currentTerm \in Nat /\ p.votedFor \in Server \cup {-1}
           /\ p.logs \in Seq(LogEntry) /\ Len(p.logs) \in Nat \ {0}
           /\ p.commitIndex \in Int /\ p.lastApplied \in Int
           /\ p.lastIncludedIndex \in 0..MaxLog /\ p.lastIncludedIndex \in Int
           /\ LastLogicalIndex(p) \in Int
BY LenProperties, PersistAssumption DEF Sound, Peer, LastLogicalIndex

(* convertRole and the adoption of a term *)
LEMMA ConvertRoleYields ==
    ASSUME NEW p \in Sound, NEW role \in Role
    PROVE  LET q == ConvertRole(p, role)
           IN  /\ Yields(p, q) /\ q.currentTerm = p.currentTerm /\ q.votedFor = p.votedFor
               /\ q.commitIndex = p.commitIndex
<1> DEFINE next == [i \in Server |-> LastLogicalIndex(p) + 1]
           match == [i \in Server |-> -1]
           q == ConvertRole(p, role)
<1>1. /\ p \in Peer /\ next \in [Server -> Int] /\ match \in [Server -> Int]
      /\ Len(p.logs) > 0 /\ p.lastIncludedIndex \in 0..MaxLog
  BY SoundFields
<1>2. \/ q = [p EXCEPT !.role = role, !.nextIndex = next, !.matchIndex = match]
      \/ q = [p EXCEPT !.role = role]
  BY DEF ConvertRole
<1> HIDE DEF next, match, q
<1>3. /\ q \in Peer /\ q.logs = p.logs /\ q.currentTerm = p.currentTerm
      /\ q.votedFor = p.votedFor /\ q.commitIndex = p.commitIndex
      /\ q.lastIncludedIndex = p.lastIncludedIndex /\ q.lastIncludedTerm = p.lastIncludedTerm
  BY <1>1, <1>2 DEF Peer
<1> QED
  BY <1>1, <1>3 DEF Yields, Stays, Sound, q

(* A newer term in a reply is entered without a vote. *)
LEMMA ObserveTermYields ==
    ASSUME NEW p \in Sound, NEW term \in Nat
    PROVE  /\ Yields(p, ObserveTerm(p, term))
           /\ ObserveTerm(p, term).commitIndex = p.commitIndex
<1>1. CASE term > p.currentTerm
  <2> DEFINE q == ConvertRole(p, "Follower")
  <2>1. Yields(p, q) /\ q.commitIndex = p.commitIndex
    BY ConvertRoleYields DEF Role
  <2>2. ObserveTerm(p, term) = [q EXCEPT !.currentTerm = term, !.votedFor = -1]
    BY <1>1 DEF ObserveTerm, StepDown
  <2> HIDE DEF q
  <2> QED
    BY <1>1, <2>1, <2>2 DEF Yields, Stays, Sound, Peer
<1>2. CASE ~(term > p.currentTerm)
  BY <1>2 DEF ObserveTerm, Yields, Stays
<1> QED
  BY <1>1, <1>2

(* RequestVote *)
LEMMA RequestVoteStays ==
    ASSUME NEW p \in Sound, NEW args, args.Term \in Nat, args.CandidateId \in Server
    PROVE  Stays(p, RequestVote(p, args))
<1> DEFINE o == ObserveTerm(p, args.Term)
           v == IF GrantsVote(p, args) THEN args.CandidateId ELSE -1
<1>1. Yields(p, o) /\ v \in Server \cup {-1}
  BY ObserveTermYields
<1>2. RequestVote(p, args) = IF RefusesVote(p, args) THEN p ELSE [o EXCEPT !.votedFor = v]
  BY DEF RequestVote
<1> HIDE DEF o, v
<1> QED
  BY <1>1, <1>2 DEF Yields, Stays, Sound, Peer

(* the reply goroutine of startElection *)
LEMMA HandleVoteReplyYields ==
    ASSUME NEW p \in Sound, NEW reply, reply.Term \in Nat, NEW voteCount
    PROVE  Yields(p, HandleVoteReply(p, reply, voteCount))
<1>1. Yields(p, p) /\ Yields(p, ConvertRole(p, "Leader")) /\ Yields(p, ObserveTerm(p, reply.Term))
  BY ObserveTermYields, ConvertRoleYields DEF Yields, Stays, Role
<1> QED
  BY <1>1 DEF HandleVoteReply

(* startElection *)
LEMMA BecomeCandidateStays ==
    ASSUME NEW p \in Sound
    PROVE  LET q == BecomeCandidate(p, me)
           IN  /\ Stays(p, q) /\ q.logs = p.logs
               /\ q.currentTerm > p.currentTerm
<1> DEFINE q == ConvertRole(p, "Candidate")
<1>1. /\ Yields(p, q) /\ q.currentTerm = p.currentTerm
  BY ConvertRoleYields DEF Role
<1> DEFINE term == p.currentTerm + 1
<1>2. term \in Nat /\ term > p.currentTerm /\ me \in Server
  BY SoundFields, PersistAssumption
<1> HIDE DEF q, term
<1>3. BecomeCandidate(p, me) = [q EXCEPT !.currentTerm = term, !.votedFor = me]
  BY <1>1 DEF BecomeCandidate, Yields, Stays, Sound, Peer, q, term
<1> QED
  BY <1>1, <1>2, <1>3 DEF Yields, Stays, Sound, Peer

(* Start: a longer log holds what the shorter one did. *)
LEMMA AppendCommandStays ==
    ASSUME NEW p \in Sound, NEW term \in Nat, NEW command \in Command
    PROVE  LET q == AppendCommand(p, term, command)
           IN  /\ Stays(p, q)
               /\ \A i \in Images : StandsBy(p, i) => StandsBy(q, i)
<1> DEFINE e == [Term |-> term, Command |-> command]
           log == Append(p.logs, e)
           q == AppendCommand(p, term, command)
<1>1. e \in LogEntry /\ p.logs \in Seq(LogEntry) /\ Len(p.logs) \in Nat \ {0} /\ p \in Peer
      /\ p.lastIncludedIndex \in Int
  BY SoundFields DEF LogEntry
<1> HIDE DEF e
<1>2. /\ log \in Seq(LogEntry) /\ Len(log) = Len(p.logs) + 1
      /\ \A n \in 1..Len(p.logs) : log[n] = p.logs[n]
  BY <1>1, AppendProperties
<1>3. q = [p EXCEPT !.logs = log]
  BY DEF AppendCommand, e
<1> HIDE DEF log, q
<1>4. Stays(p, q) /\ q.logs = log /\ q.currentTerm = p.currentTerm /\ q.votedFor = p.votedFor
  <2>1. /\ q \in Peer /\ q.logs = log /\ q.currentTerm = p.currentTerm
        /\ q.votedFor = p.votedFor /\ q.lastIncludedIndex = p.lastIncludedIndex
    BY <1>1, <1>2, <1>3 DEF Peer
  <2> QED
    BY <1>1, <1>2, <2>1, SoundFields DEF Stays, Sound
<1>5. ASSUME NEW i \in Images, StandsBy(p, i) PROVE StandsBy(q, i)
  <2>1. i.lastIncludedIndex \in Int /\ Len(i.logs) \in Nat
    BY LenProperties, PersistAssumption DEF Images, Image
  <2>2. \A a \in Int : a > 0 /\ a + 0 < Len(p.logs) =>
            a < Len(q.logs) /\ q.logs[a + 1] = p.logs[a + 0 + 1]
    BY <1>1, <1>2, <1>4
  <2>3. HoldsLog(q, i)
    <3>1. HoldsLog(p, i) /\ q.lastIncludedIndex = p.lastIncludedIndex + 0
      BY <1>1, <1>4, <1>5 DEF StandsBy, Stays
    <3> QED
      BY <1>1, <2>1, <2>2, <3>1, HoldsShifted
  <2> QED
    BY <1>4, <1>5, <2>3 DEF StandsBy
<1> QED
  BY <1>4, <1>5 DEF q

(* Snapshot: what the trimmed log still has, it has where it was. *)
LEMMA TrimLogsSound ==
    ASSUME NEW p \in Sound, NEW index \in 1..MaxLog,
           index > p.lastIncludedIndex, index <= LastLogicalIndex(p)
    PROVE  LET q == TrimLogs(p, index)
           IN  /\ q \in Sound /\ q.lastIncludedIndex = index
               /\ \A i \in Images : StandsBy(p, i) => StandsBy(q, i)
<1> DEFINE k == StorageIndex(p, index)
           term == Entry(p, k).Term
           mark == [Term |-> term, Command |-> Nil]
           log == Marked(mark, p.logs, k)
           q == TrimLogs(p, index)
<1>1. /\ p \in Peer /\ p.logs \in Seq(LogEntry) /\ Len(p.logs) \in Nat \ {0}
      /\ p.lastIncludedIndex \in Int /\ index \in Int
  BY SoundFields, PersistAssumption
<1>2. k \in Nat /\ index = p.lastIncludedIndex + k /\ k < Len(p.logs)
  BY <1>1 DEF StorageIndex, LastLogicalIndex
<1> HIDE DEF k
<1>3. term \in Nat /\ mark \in LogEntry
  <2>1. k + 1 \in 1..Len(p.logs)
    BY <1>1, <1>2
  <2>2. p.logs[k + 1] \in LogEntry
    BY <1>1, <2>1, ElementOfSeq
  <2> QED
    BY <2>2 DEF Entry, LogEntry
<1> HIDE DEF term, mark
<1>4. /\ log \in Seq(LogEntry) /\ Len(log) = Len(p.logs) - k
      /\ \A a \in Int : a > 0 /\ a + k < Len(p.logs) =>
            a < Len(log) /\ log[a + 1] = p.logs[a + k + 1]
  <2>1. p.logs \in Seq(LogEntry) /\ mark \in LogEntry /\ k \in Nat /\ k < Len(p.logs)
    BY <1>1, <1>2, <1>3
  <2> QED
    BY <2>1, MarkedTail
<1> HIDE DEF log
<1>5. q = [p EXCEPT !.logs = log, !.lastIncludedIndex = index, !.lastIncludedTerm = term]
  BY <1>1 DEF TrimLogs, Marked, log, mark, term, k, Peer
<1> HIDE DEF q
<1>6. /\ q \in Peer /\ q.logs = log /\ q.lastIncludedIndex = index
      /\ q.currentTerm = p.currentTerm /\ q.votedFor = p.votedFor
  <2>1. term \in Int
    BY <1>3
  <2> QED
    BY <1>1, <1>4, <1>5, <2>1 DEF Peer
<1>7. q \in Sound
  BY <1>1, <1>2, <1>4, <1>6, PersistAssumption DEF Sound
<1>8. ASSUME NEW i \in Images, StandsBy(p, i) PROVE StandsBy(q, i)
  <2>1. i.lastIncludedIndex \in Int /\ Len(i.logs) \in Nat
    BY LenProperties, PersistAssumption DEF Images, Image
  <2>2. HoldsLog(p, i)
    BY <1>8 DEF StandsBy
  <2>3. HoldsLog(q, i)
    <3>1. /\ q.lastIncludedIndex = p.lastIncludedIndex + k /\ k \in Nat
          /\ p.lastIncludedIndex \in Int
          /\ \A a \in Int : a > 0 /\ a + k < Len(p.logs) =>
                a < Len(q.logs) /\ q.logs[a + 1] = p.logs[a + k + 1]
      BY <1>1, <1>2, <1>4, <1>6, Zenon
    <3> QED
      BY <2>1, <2>2, <3>1, HoldsShifted, Zenon
  <2> QED
    BY <1>6, <1>8, <2>3 DEF StandsBy
<1> QED
  BY <1>6, <1>7, <1>8 DEF q

(* AppendEntries, for requests that do not cut into the snapshot *)
LEMMA AppendEntriesStays ==
    ASSUME NEW p \in Sound, NEW args \in AppendEntriesArgs,
           args.PrevLogIndex >= p.lastIncludedIndex
    PROVE  Stays(p, AppendEntries(p, args))
<1> DEFINE o == ObserveTerm(p, args.Term)
           h == ConvertRole(o, "Follower")
           e == StoreEntries(h, args)
           f == FollowCommit(e, args.LeaderCommit)
<1>1. /\ args.Term \in Nat /\ args.PrevLogIndex \in Nat
      /\ args.Entries \in Seq(LogEntry) /\ args.LeaderCommit \in Int
      /\ p.logs \in Seq(LogEntry) /\ Len(p.logs) \in Nat \ {0} /\ p.lastIncludedIndex \in Int
  BY SoundFields DEF AppendEntriesArgs
<1>2. Yields(p, o)
  BY <1>1, ObserveTermYields
<1> HIDE DEF o
<1>3. h \in Sound /\ h.logs = p.logs /\ h.lastIncludedIndex = p.lastIncludedIndex
  BY <1>2, ConvertRoleYields DEF Role, Yields, Stays
<1>4. AppendEntries(p, args) = IF args.Term < p.currentTerm THEN p
                               ELSE IF AcceptsEntries(p, args) THEN f ELSE h
  BY DEF AppendEntries, h, o
<1> HIDE DEF h
<1>5. ASSUME AcceptsEntries(p, args) PROVE Stays(p, f)
  <2> DEFINE k == StorageIndex(h, args.PrevLogIndex) + 1
             kept == SubSeq(p.logs, 1, k)
             log == kept \o args.Entries
  <2>1. k \in 1..Len(p.logs) /\ k \in Int
    BY <1>1, <1>3, <1>5 DEF AcceptsEntries, PrevBeyondLog, StorageIndex, LastLogicalIndex
  <2> HIDE DEF k
  <2>2. kept \in Seq(LogEntry) /\ Len(kept) = k
    <3>1. \A n \in 1..k : p.logs[n] \in LogEntry
      BY <1>1, <2>1, ElementOfSeq
    <3> QED
      BY <2>1, <3>1, SubSeqProperties
  <2> HIDE DEF kept
  <2>3. log \in Seq(LogEntry) /\ Len(log) > 0
    <3>1. log \in Seq(LogEntry) /\ Len(log) = Len(kept) + Len(args.Entries)
      BY <1>1, <2>2, ConcatProperties
    <3>2. Len(args.Entries) \in Nat
      BY <1>1, LenProperties
    <3> HIDE DEF log
    <3> QED
      BY <2>1, <2>2, <3>1, <3>2
  <2>4. e = [h EXCEPT !.logs = log]
    BY <1>3 DEF StoreEntries, kept, k
  <2> HIDE DEF log, e
  <2>5. Stays(p, e)
    <3>1. e \in Peer /\ e.logs = log /\ e.lastIncludedIndex = h.lastIncludedIndex
      BY <1>3, <2>3, <2>4 DEF Sound, Peer
    <3> QED
      BY <1>3, <2>3, <3>1 DEF Sound, Stays
  <2> DEFINE m == Min({args.LeaderCommit, LastLogicalIndex(e)})
  <2>6. m \in Int
    <3>1. args.LeaderCommit \in Int /\ LastLogicalIndex(e) \in Int
      BY <1>1, <2>5, SoundFields DEF Stays
    <3> QED
      BY <3>1, MaxMinType
  <2> HIDE DEF m
  <2>7. f = IF args.LeaderCommit > e.commitIndex THEN [e EXCEPT !.commitIndex = m] ELSE e
    BY DEF FollowCommit, m
  <2>8. [e EXCEPT !.commitIndex = m] \in Sound
    BY <2>5, <2>6 DEF Stays, Sound, Peer
  <2>9. [e EXCEPT !.commitIndex = m].lastIncludedIndex = e.lastIncludedIndex
    BY <2>5 DEF Stays, Sound, Peer
  <2> QED
    BY <2>5, <2>7, <2>8, <2>9 DEF Stays
<1> HIDE DEF f
<1> QED
  BY <1>3, <1>4, <1>5 DEF Stays

(* InstallSnapshot: a snapshot that is not discarded becomes the peer's. *)
LEMMA InstallSnapshotSound ==
    ASSUME NEW p \in Sound, NEW args \in SnapshotArgs
    PROVE  /\ InstallSnapshot(p, args) \in Sound
           /\ args.Term >= p.currentTerm =>
                InstallSnapshot(p, args).lastIncludedIndex =
                    IF DiscardsSnapshot(p, args) THEN p.lastIncludedIndex
                    ELSE args.LastIncludedIndex
<1> DEFINE o == ObserveTerm(p, args.Term)
           log == LogBehindSnapshot(p, args)
           k == StorageIndex(p, args.LastIncludedIndex)
           c == Max({o.commitIndex, args.LastIncludedIndex})
           q == [o EXCEPT !.logs = log, !.lastIncludedIndex = args.LastIncludedIndex,
                          !.lastIncludedTerm = args.LastIncludedTerm,
                          !.lastApplied = args.LastIncludedIndex, !.commitIndex = c]
<1>1. /\ args.Term \in Nat /\ args.LastIncludedIndex \in 0..MaxLog
      /\ args.LastIncludedIndex \in Int /\ args.LastIncludedTerm \in Nat
  BY PersistAssumption DEF SnapshotArgs, Terms
<1>2. /\ p.logs \in Seq(LogEntry) /\ Len(p.logs) \in Nat \ {0} /\ p.lastIncludedIndex \in Int
      /\ p.commitIndex \in Int
  BY SoundFields
<1>3. Stays(p, o) /\ o.commitIndex = p.commitIndex
  BY <1>1, ObserveTermYields DEF Yields
<1>4. InstallSnapshot(p, args) = IF args.Term < p.currentTerm THEN p
                                 ELSE IF DiscardsSnapshot(p, args) THEN o ELSE q
  BY DEF InstallSnapshot
<1>5. ASSUME ~DiscardsSnapshot(p, args) PROVE log \in Seq(LogEntry) /\ Len(log) > 0
  <2>1. CASE LastLogicalIndex(p) <= args.LastIncludedIndex
    BY <1>1, <2>1 DEF LogBehindSnapshot, LogEntry
  <2>2. CASE ~(LastLogicalIndex(p) <= args.LastIncludedIndex)
    <3> DEFINE mark == [Term |-> 0, Command |-> Nil]
               tail == Marked(mark, p.logs, k)
    <3>1. k \in Nat /\ k < Len(p.logs)
      BY <1>1, <1>2, <1>5, <2>2 DEF StorageIndex, LastLogicalIndex, DiscardsSnapshot
    <3> HIDE DEF k
    <3>2. mark \in LogEntry
      BY DEF LogEntry
    <3> HIDE DEF mark
    <3>3. tail \in Seq(LogEntry) /\ Len(tail) = Len(p.logs) - k
      BY <1>2, <3>1, <3>2, MarkedTail
    <3>4. log = tail
      BY <2>2 DEF LogBehindSnapshot, Marked, mark, k
    <3> HIDE DEF tail, log
    <3> QED
      BY <1>2, <3>1, <3>3, <3>4
  <2> QED
    BY <2>1, <2>2
<1>6. c \in Int
  <2>1. o.commitIndex \in Int
    BY <1>2, <1>3
  <2> QED
    BY <1>1, <2>1, MaxMinType
<1> HIDE DEF o, log, c
<1>7. ASSUME ~DiscardsSnapshot(p, args)
      PROVE  q \in Sound /\ q.lastIncludedIndex = args.LastIncludedIndex
  <2>1. o \in Peer
    BY <1>3 DEF Stays, Sound
  <2>2. log \in Seq(LogEntry) /\ Len(log) > 0 /\ args.LastIncludedTerm \in Int
    BY <1>1, <1>5, <1>7
  <2>3. q \in Peer /\ q.logs = log /\ q.lastIncludedIndex = args.LastIncludedIndex
    BY <1>1, <1>6, <2>1, <2>2 DEF Peer
  <2> QED
    BY <1>1, <2>2, <2>3 DEF Sound
<1> HIDE DEF q
<1>8. p.currentTerm \in Nat
  BY SoundFields
<1> QED
  BY <1>1, <1>3, <1>4, <1>7, <1>8 DEF Stays

-----------------------------------------------------------------------------
(* The steps keep the invariant *)

(* A handler that persists under the mutex. *)
LEMMA PersistsIInv ==
    ASSUME IInv, NEW peer \in Sound, NEW snap \in 0..MaxLog, Persists(peer, snap),
           "staleSave" \notin windows => snap = peer.lastIncludedIndex
    PROVE  IInv'
<1>1. /\ rf' = peer /\ snapshot' = snap /\ disk' = ImageOf(peer, snap) /\ told' = ImageOf(peer, snap)
      /\ UNCHANGED <<writers, ticker, asked, unlocked, crashes, windows>>
  BY DEF Persists
<1>2. TypeInv'
  BY <1>1, ImageOfType DEF IInv, TypeInv
<1>3. disk'.snapshot = snap /\ disk'.lastIncludedIndex = peer.lastIncludedIndex
  BY <1>1 DEF ImageOf
<1>4. SyncInv'
  BY <1>1, <1>3 DEF SyncInv
<1>5. DiskBehindByTermOnly'
  BY <1>1, Zenon DEF DiskBehindByTermOnly
<1>6. PromiseInv'
  BY <1>1, StandsByOwn DEF PromiseInv
<1> QED
  BY <1>2, <1>4, <1>5, <1>6 DEF IInv

(* RequestVote (raft.go:261) *)
LEMMA VoteIInv == ASSUME IInv, NEW args \in VoteArgs, ReceiveRequestVote(args) PROVE IInv'
<1>1. args.Term \in Nat /\ args.CandidateId \in Server
  BY PersistAssumption DEF VoteArgs, Terms, Others
<1>2. Stays(rf, RequestVote(rf, args)) /\ snapshot \in 0..MaxLog
  BY <1>1, RequestVoteStays DEF IInv, TypeInv
<1> QED
  BY <1>2, PersistsIInv DEF ReceiveRequestVote, Stays, IInv, SyncInv

(* AppendEntries (raft.go:471) *)
LEMMA AppendIInv == ASSUME IInv, NEW args \in AppendArgs, ReceiveAppend(args) PROVE IInv'
<1>1. args \in AppendEntriesArgs
  <2>1. /\ args \in [Term : Terms, LeaderId : Leader, PrevLogIndex : 0..MaxLog,
                     PrevLogTerm : 0..MaxTerm,
                     Entries : {<<>>} \cup {<<e>> : e \in [Term : Terms, Command : Command]},
                     LeaderCommit : 0..MaxLog]
    BY Zenon DEF AppendArgs
  <2>2. Terms \subseteq Nat /\ 0..MaxLog \subseteq Nat /\ 0..MaxTerm \subseteq Nat
    BY PersistAssumption DEF Terms
  <2>3. Others # {}
    <3>1. ASSUME Server = {me} PROVE Cardinality(Server) = 1
      BY <3>1, FS_Singleton
    <3> QED
      BY <3>1, PersistAssumption DEF Others
  <2>4. Leader \subseteq Server
    BY <2>3 DEF Leader, Others
  <2>5. args.Entries \in Seq(LogEntry)
    <3>1. \A e \in [Term : Terms, Command : Command] : e \in LogEntry
      BY <2>2 DEF LogEntry
    <3>2. <<>> \in Seq(LogEntry) /\ \A e \in LogEntry : <<e>> \in Seq(LogEntry)
      OBVIOUS
    <3>3. args.Entries \in {<<>>} \cup {<<e>> : e \in [Term : Terms, Command : Command]}
      BY <2>1
    <3> QED
      BY <3>1, <3>2, <3>3, Zenon
  <2>6. /\ args = [Term |-> args.Term, LeaderId |-> args.LeaderId,
                   PrevLogIndex |-> args.PrevLogIndex, PrevLogTerm |-> args.PrevLogTerm,
                   Entries |-> args.Entries, LeaderCommit |-> args.LeaderCommit]
        /\ args.Term \in Terms /\ args.LeaderId \in Leader /\ args.PrevLogIndex \in 0..MaxLog
        /\ args.PrevLogTerm \in 0..MaxTerm /\ args.LeaderCommit \in 0..MaxLog
    BY <2>1
  <2>7. /\ args.Term \in Nat /\ args.LeaderId \in Server /\ args.PrevLogIndex \in Nat
        /\ args.PrevLogTerm \in Nat /\ args.LeaderCommit \in Int
    BY <2>2, <2>4, <2>6
  <2> QED
    BY <2>5, <2>6, <2>7 DEF AppendEntriesArgs
<1>2. Stays(rf, AppendEntries(rf, args)) /\ snapshot \in 0..MaxLog
  BY <1>1, AppendEntriesStays DEF ReceiveAppend, IInv, TypeInv
<1> QED
  BY <1>2, PersistsIInv DEF ReceiveAppend, Stays, IInv, SyncInv

(* handleAppendEntries (raft.go:580) *)
LEMMA AppendReplyIInv ==
    ASSUME IInv, NEW term \in Terms, ReceiveAppendReply(term) PROVE IInv'
<1> DEFINE q == IF rf.role = "Leader" THEN ObserveTerm(rf, term) ELSE rf
<1>1. term \in Nat /\ rf \in Sound /\ snapshot \in 0..MaxLog
  BY PersistAssumption DEF Terms, IInv, TypeInv
<1>2. Stays(rf, q)
  BY <1>1, ObserveTermYields DEF Yields, Stays
<1> HIDE DEF q
<1>3. Persists(q, snapshot)
  BY DEF ReceiveAppendReply, q
<1> QED
  BY <1>1, <1>2, <1>3, PersistsIInv DEF Stays, IInv, SyncInv

(* InstallSnapshot (raft.go:732) *)
LEMMA InstallIInv ==
    ASSUME IInv, NEW args \in SnapshotArgs, ReceiveSnapshot(args) PROVE IInv'
<1> DEFINE q == InstallSnapshot(rf, args)
           snap == IF DiscardsSnapshot(rf, args) THEN snapshot ELSE args.LastIncludedIndex
<1>1. rf \in Sound /\ snapshot \in 0..MaxLog /\ args.LastIncludedIndex \in 0..MaxLog
  BY PersistAssumption DEF IInv, TypeInv, SnapshotArgs
<1>2. q \in Sound /\ q.lastIncludedIndex = IF DiscardsSnapshot(rf, args)
                                           THEN rf.lastIncludedIndex ELSE args.LastIncludedIndex
  BY <1>1, InstallSnapshotSound DEF ReceiveSnapshot
<1>3. Persists(q, snap) /\ snap \in 0..MaxLog
  BY <1>1 DEF ReceiveSnapshot
<1>4. "staleSave" \notin windows => snap = q.lastIncludedIndex
  BY <1>2 DEF IInv, SyncInv
<1> HIDE DEF q, snap
<1> QED
  BY <1>2, <1>3, <1>4, PersistsIInv

(* Snapshot (raft.go:183) saves the trimmed log with the snapshot. *)
LEMMA SnapshotIInv == ASSUME IInv, NEW index \in 1..MaxLog, Snapshot(index) PROVE IInv'
<1> DEFINE q == TrimLogs(rf, index)
<1>1. rf \in Sound /\ rf.lastIncludedIndex \in Int /\ rf.commitIndex \in Int
      /\ LastLogicalIndex(rf) \in Int /\ told \in Images /\ index \in 0..MaxLog
  BY SoundFields, PersistAssumption DEF IInv, TypeInv
<1>2. index > rf.lastIncludedIndex /\ index <= LastLogicalIndex(rf)
  <2> DEFINE m == Min({rf.commitIndex, LastLogicalIndex(rf)})
  <2>1. m \in Int /\ m <= LastLogicalIndex(rf)
    <3>1. m = IF rf.commitIndex <= LastLogicalIndex(rf) THEN rf.commitIndex
              ELSE LastLogicalIndex(rf)
      BY <1>1, MaxMinOfTwo
    <3> HIDE DEF m
    <3> QED
      BY <1>1, <3>1
  <2>2. index \in (rf.lastIncludedIndex + 1)..m
    BY DEF Snapshot
  <2> HIDE DEF m
  <2> QED
    BY <1>1, <2>1, <2>2
<1>3. /\ q \in Sound /\ q.lastIncludedIndex = index
      /\ \A i \in Images : StandsBy(rf, i) => StandsBy(q, i)
  BY <1>1, <1>2, TrimLogsSound
<1>4. /\ rf' = q /\ snapshot' = index /\ disk' = ImageOf(q, index)
      /\ UNCHANGED <<writers, ticker, asked, unlocked, crashes, told, windows>>
  BY DEF Snapshot
<1> HIDE DEF q
<1>5. TypeInv'
  BY <1>1, <1>3, <1>4, ImageOfType DEF IInv, TypeInv
<1>6. disk'.snapshot = index /\ disk'.lastIncludedIndex = q.lastIncludedIndex
  BY <1>4 DEF ImageOf
<1>7. SyncInv'
  BY <1>3, <1>4, <1>6 DEF SyncInv
<1>8. DiskBehindByTermOnly'
  BY <1>4, Zenon DEF DiskBehindByTermOnly
<1>9. PromiseInv'
  <2> SUFFICES ASSUME windows = {}
               PROVE  StandsBy(q, told) /\ StandsBy(ReadPersist(disk'), told)
    BY <1>4 DEF PromiseInv
  <2>1. StandsBy(q, told)
    BY <1>1, <1>3 DEF IInv, PromiseInv
  <2>2. LET r == ReadPersist(disk')
        IN  /\ r.currentTerm = q.currentTerm /\ r.votedFor = q.votedFor
            /\ r.logs = q.logs /\ r.lastIncludedIndex = q.lastIncludedIndex
    BY <1>1, <1>3, <1>4, SavedFields
  <2> QED
    BY <2>1, <2>2, StandsByFields
<1> QED
  BY <1>5, <1>7, <1>8, <1>9 DEF IInv

(* A step that saves nothing and tells nobody anything, and after which    *)
(* the peer stands by what it told.                                        *)
LEMMA UnsavedIInv ==
    ASSUME IInv, NEW q \in Sound, rf' = q, q.lastIncludedIndex = rf.lastIncludedIndex,
           UNCHANGED <<snapshot, disk, crashes, told, windows>>,
           StandsBy(rf, told) => StandsBy(q, told),
           (\A w \in writers' : ~w.election) => \A w \in writers : ~w.election,
           TypeInv', DiskBehindByTermOnly'
    PROVE  IInv'
<1>1. SyncInv'
  BY DEF IInv, SyncInv
<1>2. PromiseInv'
  BY DEF IInv, PromiseInv
<1> QED
  BY <1>1, <1>2 DEF IInv

(* startElection, its locked section (raft.go:352) *)
LEMMA StartElectionIInv == ASSUME IInv, StartElection PROVE IInv'
<1> DEFINE q == BecomeCandidate(rf, me)
<1>1. rf \in Sound /\ told \in Images
  BY DEF IInv, TypeInv
<1>2. Stays(rf, q) /\ q.logs = rf.logs /\ q.currentTerm > rf.currentTerm
  BY <1>1, BecomeCandidateStays
<1>3. /\ rf' = q /\ ticker' = "candidate"
      /\ UNCHANGED <<snapshot, disk, writers, asked, unlocked, crashes, told, windows>>
  BY DEF StartElection
<1> HIDE DEF q
<1>4. TypeInv'
  BY <1>2, <1>3 DEF IInv, TypeInv, Stays
<1>5. DiskBehindByTermOnly'
  BY <1>3, Zenon DEF DiskBehindByTermOnly
<1>6. StandsBy(rf, told) => StandsBy(q, told)
  BY <1>1, <1>2, StandsByNewer DEF Stays
<1> QED
  BY <1>2, <1>3, <1>4, <1>5, <1>6, UnsavedIInv DEF Stays

(* persist without the mutex begins with a well-formed image. *)
LEMMA GoPersistType ==
    ASSUME IInv, NEW election \in BOOLEAN, GoPersist(election)
    PROVE  /\ writers' \subseteq Writer /\ unlocked' \in 0..MaxUnlocked
           /\ writers \subseteq writers'
           /\ \E w \in writers' : w.election = election
<1> DEFINE w == [id |-> unlocked + 1, election |-> election, read |-> 0,
                 image |-> ImageOf(rf, snapshot)]
<1>1. ImageOf(rf, snapshot) \in Images /\ unlocked \in 0..MaxUnlocked /\ writers \subseteq Writer
  BY ImageOfType DEF IInv, TypeInv
<1>2. unlocked + 1 \in 1..MaxUnlocked /\ unlocked' = unlocked + 1 /\ writers' = writers \cup {w}
  BY <1>1, PersistAssumption DEF GoPersist
<1>3. w \in Writer /\ w.election = election
  BY <1>1, <1>2 DEF Writer
<1> HIDE DEF w
<1> QED
  BY <1>1, <1>2, <1>3, PersistAssumption

(* startElection sends its requests (raft.go:358). *)
LEMMA SendVotesIInv == ASSUME IInv, SendRequestVotes PROVE IInv'
<1>1. /\ ticker' = "idle" /\ asked' = TRUE /\ told' = ImageOf(rf, snapshot)
      /\ GoPersist(TRUE) /\ UNCHANGED <<rf, snapshot, disk, crashes, windows>>
  BY DEF SendRequestVotes
<1>2. /\ writers' \subseteq Writer /\ unlocked' \in 0..MaxUnlocked
      /\ \E w \in writers' : w.election
  BY <1>1, GoPersistType
<1>3. rf \in Sound /\ snapshot \in 0..MaxLog
  BY DEF IInv, TypeInv
<1>4. TypeInv'
  BY <1>1, <1>2, <1>3, ImageOfType DEF IInv, TypeInv
<1>5. SyncInv'
  BY <1>1 DEF IInv, SyncInv
<1>6. DiskBehindByTermOnly'
  <2>1. writers' # {}
    BY <1>2
  <2> QED
    BY <2>1, Zenon DEF DiskBehindByTermOnly
<1>7. PromiseInv'
  BY <1>1, <1>2, <1>3, StandsByOwn DEF PromiseInv
<1> QED
  BY <1>4, <1>5, <1>6, <1>7 DEF IInv

(* Start (raft.go:866) *)
LEMMA StartIInv == ASSUME IInv, NEW command \in Command, Start(command) PROVE IInv'
<1> DEFINE q == AppendCommand(rf, rf.currentTerm, command)
<1>1. rf \in Sound /\ told \in Images /\ rf.currentTerm \in Nat
  BY SoundFields DEF IInv, TypeInv
<1>2. Stays(rf, q) /\ (StandsBy(rf, told) => StandsBy(q, told))
  BY <1>1, AppendCommandStays
<1>3. rf' = q /\ GoPersist(FALSE) /\ UNCHANGED <<snapshot, disk, ticker, asked, crashes, told, windows>>
  BY DEF Start
<1>4. /\ writers' \subseteq Writer /\ unlocked' \in 0..MaxUnlocked
      /\ writers \subseteq writers' /\ writers' # {}
  BY <1>3, GoPersistType
<1> HIDE DEF q
<1>5. TypeInv'
  BY <1>2, <1>3, <1>4 DEF IInv, TypeInv, Stays
<1>6. DiskBehindByTermOnly'
  BY <1>4, Zenon DEF DiskBehindByTermOnly
<1> QED
  BY <1>2, <1>3, <1>4, <1>5, <1>6, UnsavedIInv DEF Stays

(* A disk that has all of peer but the term and the vote lacks just them. *)
LEMMA LaggingImage ==
    ASSUME NEW d \in Image, NEW p \in Peer, NEW snap \in Nat,
           d.logs = p.logs, d.lastIncludedIndex = p.lastIncludedIndex,
           d.lastIncludedTerm = p.lastIncludedTerm, d.snapshot = snap, p.votedFor = -1
    PROVE  [d EXCEPT !.currentTerm = p.currentTerm, !.votedFor = -1] = ImageOf(p, snap)
<1> DEFINE e == [d EXCEPT !.currentTerm = p.currentTerm, !.votedFor = -1]
<1>1. p.currentTerm \in Nat
  BY DEF Peer
<1>2. /\ e.currentTerm = p.currentTerm /\ e.votedFor = -1 /\ e.logs = d.logs
      /\ e.lastIncludedIndex = d.lastIncludedIndex
      /\ e.lastIncludedTerm = d.lastIncludedTerm /\ e.snapshot = d.snapshot
  BY DEF Image
<1>3. e \in Image
  BY <1>1, ZenonT(60) DEF Image
<1> HIDE DEF e
<1>4. e = ImageOf(p, snap)
  BY <1>2, <1>3 DEF Image, ImageOf
<1> QED
  BY <1>4 DEF e

(* The reply goroutine of startElection (raft.go:377) enters a newer term  *)
(* without a vote, or becomes Leader of its own.                           *)
LEMMA VoteReplyIInv ==
    ASSUME IInv, NEW reply \in [Term : Terms, VoteGranted : BOOLEAN], NEW voteCount,
           ReceiveVoteReply(reply, voteCount)
    PROVE  IInv'
<1> DEFINE q == HandleVoteReply(rf, reply, voteCount)
<1>1. rf \in Sound /\ told \in Images /\ disk \in Image /\ reply.Term \in Nat
  BY PersistAssumption DEF IInv, TypeInv, Images, Terms
<1>2. Yields(rf, q)
  BY <1>1, HandleVoteReplyYields
<1>3. rf' = q /\ UNCHANGED <<snapshot, disk, writers, ticker, asked, unlocked, crashes, told, windows>>
  BY DEF ReceiveVoteReply
<1> HIDE DEF q
<1>4. TypeInv'
  BY <1>2, <1>3 DEF IInv, TypeInv, Yields, Stays
<1>5. StandsBy(rf, told) => StandsBy(q, told)
  BY <1>1, <1>2, StandsByFields, StandsByNewer DEF Yields, Stays
<1>6. DiskBehindByTermOnly'
  <2> SUFFICES ASSUME ticker = "idle", writers = {}, "staleSave" \notin windows
               PROVE  \/ disk = ImageOf(q, snapshot)
                      \/ /\ disk.currentTerm < q.currentTerm /\ q.votedFor = -1
                         /\ [disk EXCEPT !.currentTerm = q.currentTerm, !.votedFor = -1] =
                              ImageOf(q, snapshot)
    BY <1>3, Zenon DEF DiskBehindByTermOnly
  <2>1. \/ disk = ImageOf(rf, snapshot)
        \/ /\ disk.currentTerm < rf.currentTerm /\ rf.votedFor = -1
           /\ [disk EXCEPT !.currentTerm = rf.currentTerm, !.votedFor = -1] =
                ImageOf(rf, snapshot)
    BY DEF IInv, DiskBehindByTermOnly
  <2>2. CASE q.currentTerm = rf.currentTerm /\ q.votedFor = rf.votedFor
    <3>1. ImageOf(q, snapshot) = ImageOf(rf, snapshot)
      BY <1>2, <2>2 DEF Yields, Stays, ImageOf
    <3> QED
      BY <2>1, <2>2, <3>1
  <2>3. CASE q.currentTerm > rf.currentTerm /\ q.votedFor = -1
    <3>1. disk.currentTerm \in Nat /\ rf.currentTerm \in Nat /\ q.currentTerm \in Nat
      BY <1>1, <1>2, SoundFields DEF Image, Yields, Stays
    <3>2. /\ disk.logs = rf.logs /\ disk.lastIncludedIndex = rf.lastIncludedIndex
          /\ disk.lastIncludedTerm = rf.lastIncludedTerm /\ disk.snapshot = snapshot
          /\ disk.currentTerm <= rf.currentTerm
      <4>1. CASE disk = ImageOf(rf, snapshot)
        BY <3>1, <4>1 DEF ImageOf
      <4>2. CASE /\ disk.currentTerm < rf.currentTerm
                 /\ [disk EXCEPT !.currentTerm = rf.currentTerm, !.votedFor = -1] =
                      ImageOf(rf, snapshot)
        <5> DEFINE d == [disk EXCEPT !.currentTerm = rf.currentTerm, !.votedFor = -1]
        <5>1. /\ disk.logs = d.logs /\ disk.lastIncludedIndex = d.lastIncludedIndex
              /\ disk.lastIncludedTerm = d.lastIncludedTerm /\ disk.snapshot = d.snapshot
          BY <1>1 DEF Image
        <5>2. d = ImageOf(rf, snapshot)
          BY <4>2, SMTT(30)
        <5> HIDE DEF d
        <5> QED
          BY <3>1, <4>2, <5>1, <5>2 DEF ImageOf
      <4> QED
        BY <2>1, <4>1, <4>2
    <3>3. [disk EXCEPT !.currentTerm = q.currentTerm, !.votedFor = -1] = ImageOf(q, snapshot)
      <4>1. /\ disk.logs = q.logs /\ disk.lastIncludedIndex = q.lastIncludedIndex
            /\ disk.lastIncludedTerm = q.lastIncludedTerm /\ q.votedFor = -1
        BY <1>2, <2>3, <3>2 DEF Yields, Stays
      <4>2. q \in Peer /\ snapshot \in Nat
        BY <1>2, PersistAssumption, SMTT(30) DEF IInv, TypeInv, Yields, Stays, Sound
      <4> QED
        BY <1>1, <3>2, <4>1, <4>2, LaggingImage
    <3> QED
      BY <2>3, <3>1, <3>2, <3>3
  <2> QED
    BY <1>2, <2>2, <2>3 DEF Yields
<1> QED
  BY <1>2, <1>3, <1>4, <1>5, <1>6, UnsavedIInv DEF Yields, Stays

(* Fields of two moments make a well-formed image. *)
LEMMA MixedImage ==
    ASSUME NEW i \in Images, NEW j \in Images,
           NEW f \in {"currentTerm", "votedFor", "logs", "lastIncludedIndex",
                      "lastIncludedTerm", "snapshot"}
    PROVE  [i EXCEPT ![f] = j[f]] \in Images
<1> USE DEF Images, Image
<1>1. CASE f = "currentTerm"
  BY <1>1, SMTT(30)
<1>2. CASE f = "votedFor"
  BY <1>2, SMTT(30)
<1>3. CASE f = "logs"
  BY <1>3, SMTT(30)
<1>4. CASE f = "lastIncludedIndex"
  BY <1>4, SMTT(30)
<1>5. CASE f = "lastIncludedTerm"
  BY <1>5, SMTT(30)
<1>6. CASE f = "snapshot"
  BY <1>6
<1> QED
  BY <1>1, <1>2, <1>3, <1>4, <1>5, <1>6

(* persist without the mutex encodes a field (raft.go:121). *)
LEMMA ReadsIInv == ASSUME IInv, NEW w \in writers, PersistReads(w) PROVE IInv'
<1> DEFINE f == Field[w.read + 1]
           j == ImageOf(rf, snapshot)
           image == [w.image EXCEPT ![f] = j[f]]
           v == [w EXCEPT !.read = @ + 1, !.image[f] = j[f]]
<1>1. w \in Writer /\ j \in Images
  BY ImageOfType DEF IInv, TypeInv
<1>2. w.read \in 0..5
  BY <1>1 DEF PersistReads, Field, Writer
<1>3. f \in {"currentTerm", "votedFor", "logs", "lastIncludedIndex", "lastIncludedTerm", "snapshot"}
  BY <1>2 DEF Field
<1> HIDE DEF f, j
<1>4. image \in Images
  <2>1. w.image \in Images
    BY <1>1 DEF Writer
  <2> QED
    BY <1>1, <1>3, <2>1, MixedImage
<1>5. v = [w EXCEPT !.read = w.read + 1, !.image = image]
  BY <1>1 DEF Writer
<1> HIDE DEF image
<1>7. /\ writers' = (writers \ {w}) \cup {v}
      /\ UNCHANGED <<rf, snapshot, disk, ticker, asked, unlocked, crashes, told, windows>>
  BY DEF PersistReads, f, j
<1> HIDE DEF v
<1>6. v \in Writer /\ v.election = w.election
  <2>1. w.read + 1 \in 0..6
    BY <1>2
  <2> QED
    BY <1>1, <1>4, <1>5, <2>1 DEF Writer
<1>8. TypeInv'
  BY <1>6, <1>7 DEF IInv, TypeInv
<1>9. DiskBehindByTermOnly'
  <2>1. writers' # {}
    BY <1>7
  <2> QED
    BY <2>1, Zenon DEF DiskBehindByTermOnly
<1>10. (\A u \in writers' : ~u.election) => \A u \in writers : ~u.election
  BY <1>6, <1>7, SMTT(30)
<1>11. rf \in Sound
  BY DEF IInv, TypeInv
<1> QED
  BY <1>7, <1>8, <1>9, <1>10, <1>11, UnsavedIInv

(* persister.Save, stale or not *)
LEMMA SaveIInv == ASSUME IInv, NEW w \in writers, Save(w) PROVE IInv'
<1>1. w \in Writer /\ w.image \in Images /\ rf \in Sound /\ snapshot \in 0..MaxLog
  BY DEF IInv, TypeInv, Writer
<1>2. /\ disk' = w.image /\ writers' = writers \ {w}
      /\ UNCHANGED <<rf, snapshot, ticker, asked, unlocked, crashes, told>>
  BY DEF Save
<1>3. /\ windows \subseteq windows' /\ windows' \subseteq windows \cup {"staleSave"}
      /\ w.image # ImageOf(rf, snapshot) => "staleSave" \in windows'
  BY DEF Save, Through
<1>4. TypeInv'
  BY <1>1, <1>2, <1>3 DEF IInv, TypeInv, Window
<1>5. ASSUME "staleSave" \notin windows'
      PROVE  disk' = ImageOf(rf', snapshot') /\ "staleSave" \notin windows
  BY <1>2, <1>3, <1>5
<1>6. SyncInv'
  <2> SUFFICES ASSUME "staleSave" \notin windows'
               PROVE  snapshot = rf.lastIncludedIndex /\ disk'.snapshot = disk'.lastIncludedIndex
    BY <1>2 DEF SyncInv
  <2>1. snapshot = rf.lastIncludedIndex /\ disk' = ImageOf(rf, snapshot)
    BY <1>2, <1>5 DEF IInv, SyncInv
  <2> QED
    BY <2>1 DEF ImageOf
<1>7. DiskBehindByTermOnly'
  BY <1>5, Zenon DEF DiskBehindByTermOnly
<1>8. PromiseInv'
  <2> SUFFICES ASSUME windows' = {}
               PROVE  StandsBy(rf, told) /\ StandsBy(ReadPersist(disk'), told)
    BY <1>2 DEF PromiseInv
  <2>1. StandsBy(rf, told) /\ disk' = ImageOf(rf, snapshot)
    BY <1>2, <1>3, <1>5 DEF IInv, PromiseInv
  <2>2. LET r == ReadPersist(disk')
        IN  /\ r.currentTerm = rf.currentTerm /\ r.votedFor = rf.votedFor
            /\ r.logs = rf.logs /\ r.lastIncludedIndex = rf.lastIncludedIndex
    BY <1>1, <2>1, SavedFields
  <2> QED
    BY <2>1, <2>2, StandsByFields
<1> QED
  BY <1>4, <1>6, <1>7, <1>8 DEF IInv

(* crash1 and start1 (config.go:108, 268): the new instance holds what the *)
(* disk says.                                                              *)
LEMMA CrashIInv == ASSUME IInv, CrashRestart PROVE IInv'
<1>1. /\ rf' = ReadPersist(disk) /\ snapshot' = disk.snapshot
      /\ writers' = {} /\ ticker' = "idle" /\ asked' = FALSE
      /\ crashes < MaxCrashes /\ crashes' = crashes + 1
      /\ UNCHANGED <<disk, unlocked, told>>
  BY DEF CrashRestart, crash1, start1
<1>2. /\ windows \subseteq windows' /\ windows' \subseteq windows \cup {"lateVote"}
      /\ (\E w \in writers : w.election) => "lateVote" \in windows'
  BY DEF CrashRestart, Through
<1>3. disk \in Images
  BY DEF IInv, TypeInv
<1>4. /\ rf' \in Sound /\ rf'.lastIncludedIndex = disk.lastIncludedIndex
      /\ ImageOf(rf', snapshot') = disk
  BY <1>1, <1>3, ReadPersistType
<1>5. disk.snapshot \in 0..MaxLog
  BY <1>3 DEF Images
<1>6. TypeInv'
  <2>1. windows' \subseteq Window
    BY <1>2 DEF IInv, TypeInv, Window
  <2>2. crashes' \in 0..MaxCrashes
    BY <1>1, PersistAssumption DEF IInv, TypeInv
  <2> QED
    BY <1>1, <1>4, <1>5, <2>1, <2>2 DEF IInv, TypeInv
<1>7. SyncInv'
  BY <1>1, <1>2, <1>4 DEF IInv, SyncInv
<1>8. DiskBehindByTermOnly'
  BY <1>1, <1>4, Zenon DEF DiskBehindByTermOnly
<1>9. PromiseInv'
  BY <1>1, <1>2 DEF IInv, PromiseInv
<1> QED
  BY <1>6, <1>7, <1>8, <1>9 DEF IInv

(* The counters and indices start within their bounds. *)
LEMMA ZeroIndex == 0 \in 0..MaxLog /\ 0 \in 0..MaxUnlocked /\ 0 \in 0..MaxCrashes
BY PersistAssumption

(* Make *)
LEMMA InitIInv == Init => IInv
<1> SUFFICES ASSUME Init PROVE IInv
  OBVIOUS
<1> DEFINE i == ImageOf(Make, 0)
<1>1. i \in Images /\ i.snapshot = 0 /\ i.lastIncludedIndex = 0
  BY MakeSound, ImageOfType, ZeroIndex DEF ImageOf
<1>2. /\ rf = Make /\ snapshot = 0 /\ disk = i /\ told = i
      /\ writers = {} /\ ticker = "idle" /\ asked = FALSE
      /\ unlocked = 0 /\ crashes = 0 /\ windows = {}
  BY DEF Init
<1>3. StandsBy(Make, i)
  BY MakeSound, StandsByOwn, ZeroIndex
<1>4. StandsBy(ReadPersist(i), i)
  <2>1. LET r == ReadPersist(i)
        IN  /\ r.currentTerm = Make.currentTerm /\ r.votedFor = Make.votedFor
            /\ r.logs = Make.logs /\ r.lastIncludedIndex = Make.lastIncludedIndex
    BY MakeSound, SavedFields, ZeroIndex
  <2> QED
    BY <1>3, <2>1, StandsByFields
<1>5. DiskBehindByTermOnly
  BY <1>2, Zenon DEF DiskBehindByTermOnly
<1> HIDE DEF i
<1>6. TypeInv
  BY <1>1, <1>2, MakeSound, ZeroIndex DEF TypeInv
<1>7. SyncInv
  BY <1>1, <1>2, MakeSound DEF SyncInv
<1>8. PromiseInv
  BY <1>2, <1>3, <1>4 DEF PromiseInv
<1> QED
  BY <1>5, <1>6, <1>7, <1>8 DEF IInv

(* Every step keeps the inductive invariant. *)
LEMMA StepIInv == IInv /\ [Next]_vars => IInv'
<1> SUFFICES ASSUME IInv, [Next]_vars PROVE IInv'
  OBVIOUS
<1>1. ASSUME NEW args \in VoteArgs, ReceiveRequestVote(args) PROVE IInv'
  BY <1>1, VoteIInv
<1>2. ASSUME NEW args \in AppendArgs, ReceiveAppend(args) PROVE IInv'
  BY <1>2, AppendIInv
<1>3. ASSUME NEW term \in Terms, ReceiveAppendReply(term) PROVE IInv'
  BY <1>3, AppendReplyIInv
<1>4. ASSUME NEW args \in SnapshotArgs, ReceiveSnapshot(args) PROVE IInv'
  BY <1>4, InstallIInv
<1>5. ASSUME NEW index \in 1..MaxLog, Snapshot(index) PROVE IInv'
  BY <1>5, SnapshotIInv
<1>6. ASSUME StartElection PROVE IInv'
  BY <1>6, StartElectionIInv
<1>7. ASSUME SendRequestVotes PROVE IInv'
  BY <1>7, SendVotesIInv
<1>8. ASSUME NEW reply \in [Term : Terms, VoteGranted : BOOLEAN],
             NEW voteCount \in 1..Cardinality(Others), ReceiveVoteReply(reply, voteCount)
      PROVE  IInv'
  BY <1>8, VoteReplyIInv
<1>9. ASSUME NEW command \in Command, Start(command) PROVE IInv'
  BY <1>9, StartIInv
<1>10. ASSUME NEW w \in writers, PersistReads(w) \/ Save(w) PROVE IInv'
  BY <1>10, ReadsIInv, SaveIInv
<1>11. ASSUME CrashRestart PROVE IInv'
  BY <1>11, CrashIInv
<1>12. ASSUME UNCHANGED vars PROVE IInv'
  BY <1>12 DEF vars, IInv, TypeInv, SyncInv, DiskBehindByTermOnly, PromiseInv
<1> QED
  BY <1>1, <1>2, <1>3, <1>4, <1>5, <1>6, <1>7, <1>8, <1>9, <1>10, <1>11, <1>12, Zenon
     DEF Next

(* IInv is an invariant. *)
LEMMA Invariance == Spec => []IInv
BY InitIInv, StepIInv, PTL DEF Spec

-----------------------------------------------------------------------------

(* The state of RaftPersist has its type, however persist calls without    *)
(* the mutex overlap with handlers and crashes (raft.go:121).              *)
THEOREM TypeCorrect == Spec => []TypeOK
<1>1. IInv => TypeOK
  <2> SUFFICES ASSUME IInv PROVE TypeOK
    OBVIOUS
  <2>1. Len(Field) = 6
    BY DEF Field
  <2>2. Sound \subseteq Peer /\ Images \subseteq Image
    BY DEF Sound, Images
  <2>3. writers \subseteq [id : 1..MaxUnlocked, election : BOOLEAN, read : 0..Len(Field),
                           image : Image]
    BY <2>1, <2>2 DEF IInv, TypeInv, Writer
  <2> QED
    BY <2>2, <2>3 DEF IInv, TypeInv, TypeOK
<1> QED
  BY <1>1, Invariance, PTL

(* State and snapshot are saved in step unless a persist without the mutex *)
(* saved a stale state (persister.go:53, raft.go:121).                     *)
THEOREM SavedInSyncHolds == Spec => []SavedInSyncButWindows
<1>1. IInv => SavedInSyncButWindows
  BY DEF IInv, SyncInv, SavedInSyncButWindows, SavedInSync
<1> QED
  BY <1>1, Invariance, PTL

(* With no persist under way the disk lacks at most a newer term in which  *)
(* the peer has not voted (the reply goroutine of startElection,           *)
(* raft.go:377, does not persist).                                         *)
THEOREM DiskBehindHolds == Spec => []DiskBehindByTermOnly
<1>1. IInv => DiskBehindByTermOnly
  BY DEF IInv
<1> QED
  BY <1>1, Invariance, PTL

(* A restarted peer (config.go:268, readPersist at raft.go:136) stands by  *)
(* all it told others, unless one of the persist calls without the mutex   *)
(* came late or saved a stale state.                                       *)
THEOREM PromisesHold == Spec => PromisesKeptButWindows
<1> DEFINE Kept == crashes' # crashes => (windows' = {} => StandsBy(rf', told))
<1>1. IInv /\ [Next]_vars => [Kept]_vars
  <2> SUFFICES ASSUME IInv, Next, crashes' # crashes, windows' = {}
               PROVE  StandsBy(rf', told)
    BY ZenonT(60)
  <2>1. CrashRestart
    BY DEF Next, ReceiveRequestVote, ReceiveAppend, ReceiveAppendReply, ReceiveSnapshot,
           Persists, Snapshot, StartElection, SendRequestVotes, ReceiveVoteReply, Start,
           PersistReads, Save
  <2>2. IInv'
    BY StepIInv
  <2>3. told' = told
    BY <2>1 DEF CrashRestart
  <2> QED
    BY <2>2, <2>3 DEF IInv, PromiseInv
<1> QED
  BY <1>1, Invariance, PTL DEF Spec, PromisesKeptButWindows
=============================================================================
