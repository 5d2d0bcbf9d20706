--------------------------- MODULE RaftApplyProofs ---------------------------
(***************************************************************************)
(* Why a follower hands its service the agreed commands, in order and      *)
(* without a failure, as long as its goroutines do not get into each       *)
(* other's way: the safety of RaftApply, for every agreed log, snapshot    *)
(* interval and number of requests and restarts.                           *)
(***************************************************************************)
EXTENDS RaftApply, SequenceTheorems, TLAPS

(* Most facts are first-order; the ones with arithmetic name SMTT. *)
USE ZenonT(30)

(* A peer that no handler indexes wrongly.  Its commitIndex may lie beyond *)
(* the agreed log after condInstallSnapshot has exchanged index and term,  *)
(* but then applyLogs collects nothing.                                    *)
Sound ==
    {p \in Peer :
        /\ p.lastIncludedIndex \in Nat /\ p.lastIncludedTerm \in Nat
        /\ p.currentTerm <= LeaderTerm
        /\ p.commitIndex <= Len(AgreedLog) \/ p.commitIndex <= p.lastIncludedIndex}

(* storage index i holds what the cluster agrees on at its logical index *)
Agrees(p) ==
    /\ p.lastIncludedIndex <= Len(AgreedLog)
    /\ \A i \in 1..LastStorageIndex(p) :
        /\ i + p.lastIncludedIndex \in Indices
        /\ Entry(p, i) = AgreedLog[i + p.lastIncludedIndex]

(* the messages of one applyLogs have consecutive indices *)
Consecutive(msgs) ==
    \A n \in 1..Len(msgs) :
        msgs[n].index \in Indices /\ msgs[n].index = msgs[1].index + n - 1

Silent(g) == g.msgs = <<>>

SenderOK(g) ==
    /\ Consecutive(g.msgs)
    /\ g.pc \in {"sending", "sent"} <=> ~Silent(g)

Goroutine ==
    [id : 1..MaxAppends, pc : {"spawned", "sending", "sent", "install"},
     msgs : Seq(ApplyMsg), args : Seq(Nat)]

TypeInv ==
    /\ rf \in Sound /\ applies \subseteq Goroutine /\ snapshots \subseteq Indices
    /\ service \in [lastApplied : Nat, taking : Indices \cup {0}]
    /\ status \in {"running", "panic", "apply error"}
    /\ appends \in 0..MaxAppends /\ installs \in 0..MaxInstalls
    /\ restarts \in 0..MaxRestarts /\ orphans \subseteq Seq(ApplyMsg)
    /\ windows \subseteq Window
    /\ \A g \in applies : SenderOK(g)
    /\ <<>> \notin orphans

LogInv == "swapped" \notin windows => Agrees(rf)

(* Where the service and Raft's lastApplied can stand to each other: a     *)
(* snapshot is about to be sent, *)
Delivering ==
    \E index \in snapshots :
        /\ snapshots = {index} /\ rf.lastApplied = index /\ service.lastApplied < index
        /\ \A g \in applies : Silent(g)

(* the service waits for the next command, *)
Waiting ==
    /\ snapshots = {} /\ rf.lastApplied = service.lastApplied
    /\ \A g \in applies :
        Silent(g) \/ (g.pc = "sending" /\ g.msgs[1].index = service.lastApplied + 1)

(* it has received one and applyLogs has not noted that yet, *)
Received ==
    /\ snapshots = {} /\ rf.lastApplied = service.lastApplied - 1
    /\ \E g \in applies :
        /\ g.pc = "sent" /\ g.msgs[1].index = service.lastApplied
        /\ \A h \in applies \ {g} : Silent(h)

(* or another applyLogs is about to send it a command it has. *)
Repeating ==
    /\ "overlap" \in windows /\ snapshots = {}
    /\ \E g \in applies : g.pc = "sending" /\ g.msgs[1].index <= service.lastApplied

StepInv ==
    status = "running" /\ windows \cap {"overtake", "swapped", "orphan"} = {} =>
        Delivering \/ Waiting \/ Received \/ Repeating

OneSender ==
    "overlap" \notin windows => \A g, h \in applies : Silent(g) \/ Silent(h) \/ g = h

(* Without a window nothing is beyond commitIndex, nor that beyond the log. *)
CommitInv ==
    windows = {} =>
        /\ status = "running"
        /\ Len(rf.logs) > 0 /\ rf.commitIndex <= LastLogicalIndex(rf)
        /\ service.lastApplied <= rf.commitIndex /\ service.taking <= rf.commitIndex
        /\ \A g \in applies : \A n \in 1..Len(g.msgs) : g.msgs[n].index <= rf.commitIndex
        /\ \A index \in snapshots : index <= rf.commitIndex

(* The inductive invariant, together with SavedInv below. *)
ApplyInv ==
    TypeInv /\ LogInv /\ CollectedAgreed /\ StepInv /\ OneSender /\ CommitInv

(* The saved snapshot is the one the log starts from. *)
SavedInv ==
    /\ snapshot \in Indices \cup {0}
    /\ "swapped" \notin windows => snapshot = rf.lastIncludedIndex

-----------------------------------------------------------------------------
(* Logs *)

(* the agreed log, with the constants it is made of *)
LEMMA Constants ==
    /\ AgreedLog \in Seq(LogEntry) /\ Len(AgreedLog) \in Nat /\ LeaderTerm \in Nat
    /\ Indices = 1..Len(AgreedLog) /\ Indices \subseteq Nat /\ 0 \notin Indices
    /\ \A n \in Indices : AgreedLog[n] \in LogEntry /\ AgreedLog[n].Command \in Command
    /\ \A n \in Indices \cup {0} : n \in Nat /\ n <= Len(AgreedLog) /\ AgreedTerm(n) \in Nat
<1>1. AgreedLog \in Seq([Term : 1..LeaderTerm, Command : Command]) /\ LeaderTerm \in Nat
  BY ApplyAssumption
<1>2. [Term : 1..LeaderTerm, Command : Command] \subseteq LogEntry
  BY <1>1, SMTT(30) DEF LogEntry
<1>3. AgreedLog \in Seq(LogEntry) /\ Len(AgreedLog) \in Nat
  <2>1. PICK n \in Nat : AgreedLog \in [1..n -> [Term : 1..LeaderTerm, Command : Command]]
    BY <1>1, LenProperties
  <2>2. AgreedLog \in [1..n -> LogEntry]
    BY <1>2, <2>1
  <2>3. AgreedLog \in Seq(LogEntry)
    BY <2>1, <2>2, SeqDef
  <2> QED
    BY <2>3, LenProperties
<1>4. \A n \in 1..Len(AgreedLog) : AgreedLog[n] \in [Term : 1..LeaderTerm, Command : Command]
  BY <1>1, ElementOfSeq
<1> QED
  BY <1>1, <1>2, <1>3, <1>4, SMTT(30) DEF Indices, AgreedTerm

(* Max and Min of two indices *)
LEMMA MaxMinOfTwo ==
    ASSUME NEW a \in Int, NEW b \in Int
    PROVE  /\ Max({a, b}) = IF a >= b THEN a ELSE b
           /\ Min({a, b}) = IF a <= b THEN a ELSE b
BY SMTT(30) DEF Max, Min

(* The log that stays behind a marker: logs[0] to logs[k] make way for it. *)
Marked(e, s, k) == <<e>> \o SubSeq(s, k + 2, Len(s))

(* Cutting entries off the front of a log keeps the entries behind. *)
LEMMA MarkedTail ==
    ASSUME NEW s \in Seq(LogEntry), NEW e \in LogEntry, NEW k \in Nat, k < Len(s)
    PROVE  /\ Marked(e, s, k) \in Seq(LogEntry) /\ Len(Marked(e, s, k)) = Len(s) - k
           /\ \A a \in 1..(Len(s) - k - 1) : Marked(e, s, k)[a + 1] = s[a + k + 1]
<1> DEFINE m == k + 2
           rest == SubSeq(s, m, Len(s))
           mark == <<e>>
           t == mark \o rest
<1>1. Len(s) \in Nat /\ m \in Int
  BY LenProperties, SMTT(30)
<1>2. \A i \in m..Len(s) : s[i] \in LogEntry
  BY <1>1, ElementOfSeq, SMTT(30)
<1>3. mark \in Seq(LogEntry) /\ Len(mark) = 1
  BY SMTT(30)
<1> HIDE DEF mark
<1>4. /\ rest \in Seq(LogEntry)
      /\ Len(rest) = IF m <= Len(s) THEN Len(s) - m + 1 ELSE 0
      /\ \A i \in 1..(Len(s) - m + 1) : rest[i] = s[m + i - 1]
  <2> HIDE DEF m
  <2> QED
    BY <1>1, <1>2, SubSeqProperties, SMTT(30)
<1> HIDE DEF rest
<1>5. /\ t \in Seq(LogEntry) /\ Len(t) = Len(mark) + Len(rest)
      /\ \A i \in 1..(Len(mark) + Len(rest)) :
            t[i] = IF i <= Len(mark) THEN mark[i] ELSE rest[i - Len(mark)]
  BY <1>3, <1>4, ConcatProperties
<1> HIDE DEF t
<1>6. Len(t) = Len(s) - k
  BY <1>1, <1>3, <1>4, <1>5, SMTT(30)
<1>7. ASSUME NEW a \in 1..(Len(s) - k - 1) PROVE t[a + 1] = s[a + k + 1]
  <2>1. a \in 1..(Len(s) - m + 1) /\ m + a - 1 = a + k + 1 /\ a + 1 \in 1..(Len(mark) + Len(rest))
    BY <1>1, <1>3, <1>4, <1>7, SMTT(30)
  <2>2. t[a + 1] = rest[a + 1 - Len(mark)] /\ a + 1 - Len(mark) = a
    BY <1>3, <1>5, <1>7, <2>1, SMTT(30)
  <2>3. rest[a] = s[m + a - 1]
    BY <1>4, <2>1
  <2> QED
    BY <2>1, <2>2, <2>3
<1> QED
  BY <1>5, <1>6, <1>7 DEF Marked, t, mark, rest, m

(* The first k entries of a log with a part of another one behind them. *)
LEMMA Spliced ==
    ASSUME NEW s \in Seq(LogEntry), NEW t \in Seq(LogEntry),
           NEW k \in 0..Len(s), NEW m \in 0..Len(t), NEW n \in m..Len(t)
    PROVE  LET u == SubSeq(s, 1, k) \o SubSeq(t, m + 1, n)
           IN  /\ u \in Seq(LogEntry) /\ Len(u) = k + n - m
               /\ \A j \in 1..k : u[j] = s[j]
               /\ \A j \in (k + 1)..(k + n - m) : u[j] = t[m + j - k]
<1> DEFINE a == SubSeq(s, 1, k)
           c == m + 1
           b == SubSeq(t, c, n)
           u == a \o b
<1>1. Len(s) \in Nat /\ Len(t) \in Nat /\ k \in Int /\ m \in Int /\ n \in Int /\ c \in Int
  BY LenProperties, SMTT(30)
<1>2. (\A i \in 1..k : s[i] \in LogEntry) /\ (\A i \in c..n : t[i] \in LogEntry)
  BY <1>1, ElementOfSeq, SMTT(30)
<1>3. a \in Seq(LogEntry) /\ Len(a) = k /\ \A i \in 1..k : a[i] = s[i]
  <2>1. /\ a \in Seq(LogEntry) /\ Len(a) = IF 1 <= k THEN k - 1 + 1 ELSE 0
        /\ \A i \in 1..(k - 1 + 1) : a[i] = s[1 + i - 1]
    BY <1>1, <1>2, SubSeqProperties, SMTT(30)
  <2> HIDE DEF a
  <2> QED
    BY <1>1, <2>1, SMTT(30)
<1>4. b \in Seq(LogEntry) /\ Len(b) = n - m /\ \A i \in 1..(n - m) : b[i] = t[m + i]
  <2>1. /\ b \in Seq(LogEntry) /\ Len(b) = IF c <= n THEN n - c + 1 ELSE 0
        /\ \A i \in 1..(n - c + 1) : b[i] = t[c + i - 1]
    <3> HIDE DEF c
    <3> QED
      BY <1>1, <1>2, SubSeqProperties, SMTT(30)
  <2> HIDE DEF b
  <2> QED
    BY <1>1, <2>1, SMTT(30)
<1> HIDE DEF a, b
<1>5. /\ u \in Seq(LogEntry) /\ Len(u) = Len(a) + Len(b)
      /\ \A i \in 1..(Len(a) + Len(b)) : u[i] = IF i <= Len(a) THEN a[i] ELSE b[i - Len(a)]
  BY <1>3, <1>4, ConcatProperties
<1> HIDE DEF u
<1>6. \A j \in 1..k : u[j] = s[j]
  <2> SUFFICES ASSUME NEW j \in 1..k PROVE u[j] = s[j]
    OBVIOUS
  <2>1. Len(a) = k /\ Len(b) = n - m
    BY <1>3, <1>4
  <2>2. j \in 1..(Len(a) + Len(b)) /\ j <= Len(a)
    BY <1>1, <2>1, SMTT(30)
  <2> QED
    BY <1>3, <1>5, <2>2
<1>7. \A j \in (k + 1)..(k + n - m) : u[j] = t[m + j - k]
  <2> SUFFICES ASSUME NEW j \in (k + 1)..(k + n - m) PROVE u[j] = t[m + j - k]
    OBVIOUS
  <2>1. /\ j - k \in 1..(n - m) /\ m + (j - k) = m + j - k
        /\ j \in 1..(Len(a) + Len(b)) /\ ~(j <= Len(a))
    BY <1>1, <1>3, <1>4, SMTT(30)
  <2> QED
    BY <1>3, <1>4, <1>5, <2>1
<1> QED
  BY <1>1, <1>3, <1>4, <1>5, <1>6, <1>7 DEF u, a, b, c

-----------------------------------------------------------------------------
(* What the handlers do to the struct *)

SameLog(p, q) ==
    /\ q.logs = p.logs /\ q.lastApplied = p.lastApplied /\ q.commitIndex = p.commitIndex
    /\ q.lastIncludedIndex = p.lastIncludedIndex /\ q.lastIncludedTerm = p.lastIncludedTerm

(* the fields of a peer that the arithmetic needs *)
LEMMA SoundFields ==
    ASSUME NEW p \in Sound
    PROVE  /\ p \in Peer /\ p.logs \in Seq(LogEntry) /\ Len(p.logs) \in Nat
           /\ p.currentTerm \in Nat /\ p.commitIndex \in Int /\ p.lastApplied \in Int
           /\ p.lastIncludedIndex \in Nat /\ p.lastIncludedTerm \in Nat
           /\ p.currentTerm <= LeaderTerm
           /\ p.commitIndex <= Len(AgreedLog) \/ p.commitIndex <= p.lastIncludedIndex
           /\ LastLogicalIndex(p) \in Int /\ LastStorageIndex(p) \in Int
<1>1. p \in Peer /\ p.logs \in Seq(LogEntry)
  BY DEF Sound, Peer
<1>2. Len(p.logs) \in Nat
  BY <1>1, LenProperties
<1> QED
  BY <1>1, <1>2, SMTT(30) DEF Sound, Peer, LastLogicalIndex, LastStorageIndex

(* Another peer with the same log agrees with the cluster as well. *)
LEMMA AgreesSame ==
    ASSUME NEW p, NEW q, SameLog(p, q)
    PROVE  /\ Agrees(p) => Agrees(q)
           /\ LastLogicalIndex(q) = LastLogicalIndex(p) /\ LastStorageIndex(q) = LastStorageIndex(p)
BY DEF SameLog, Agrees, LastLogicalIndex, LastStorageIndex, Entry

(* Hearing of the leader's term changes no log. *)
LEMMA HeardSame ==
    ASSUME NEW p \in Sound
    PROVE  LET o == ObserveTerm(p, LeaderTerm)
               h == ConvertRole(o, "Follower")
           IN  o \in Sound /\ SameLog(p, o) /\ h \in Sound /\ SameLog(p, h)
<1> DEFINE o == ObserveTerm(p, LeaderTerm)
           h == ConvertRole(o, "Follower")
<1>1. p \in Peer /\ LeaderTerm \in Nat /\ p.currentTerm \in Nat
  BY Constants, SoundFields
<1>2. o \in Peer /\ SameLog(p, o) /\ o.currentTerm \in {p.currentTerm, LeaderTerm}
  BY <1>1 DEF ObserveTerm, StepDown, ConvertRole, SameLog, Peer, Role
<1> HIDE DEF o
<1>3. h \in Peer /\ SameLog(p, h) /\ h.currentTerm = o.currentTerm
  BY <1>2 DEF ConvertRole, SameLog, Peer, Role
<1> HIDE DEF h
<1> QED
  BY <1>1, <1>2, <1>3, SMTT(30) DEF Sound, SameLog, o, h

(* AppendEntries: the entries that go in are the agreed ones, commitIndex  *)
(* never falls, and what an accepted request leaves ends where the         *)
(* leader's log ended.                                                     *)
LEMMA AppendStep ==
    ASSUME NEW p \in Sound, NEW prev \in Indices \cup {0}, NEW last \in Indices \cup {0},
           NEW commit \in Indices \cup {0}, prev <= last, commit <= last,
           ~AppendEntriesPanics(p, AppendArgs(prev, last, commit))
    PROVE  LET q == AppendEntries(p, AppendArgs(prev, last, commit))
           IN  /\ q \in Sound /\ q.commitIndex >= p.commitIndex
               /\ q.lastIncludedIndex = p.lastIncludedIndex /\ q.lastApplied = p.lastApplied
               /\ Agrees(p) => Agrees(q)
               /\ prev >= p.lastIncludedIndex /\ Len(p.logs) > 0 => Len(q.logs) > 0
               /\ \/ q.commitIndex = p.commitIndex /\ LastLogicalIndex(q) = LastLogicalIndex(p)
                  \/ LastLogicalIndex(q) = last
<1> DEFINE args == AppendArgs(prev, last, commit)
           o == ObserveTerm(p, LeaderTerm)
           h == ConvertRole(o, "Follower")
           entries == SubSeq(AgreedLog, prev + 1, last)
           k == prev - p.lastIncludedIndex + 1
           log == SubSeq(p.logs, 1, k) \o entries
           e == StoreEntries(h, args)
           f == FollowCommit(e, commit)
           q == AppendEntries(p, args)
<1>1. /\ args.Term = LeaderTerm /\ args.PrevLogIndex = prev /\ args.Entries = entries
      /\ args.LeaderCommit = commit
  BY DEF AppendArgs
<1>2. h \in Sound /\ SameLog(p, h)
  BY HeardSame
<1>3. q = IF AcceptsEntries(p, args) THEN f ELSE h
  BY <1>1, SoundFields, Constants, SMTT(30) DEF AppendEntries
<1>4. ASSUME ~AcceptsEntries(p, args)
      PROVE  /\ q \in Sound /\ SameLog(p, q) /\ (Agrees(p) => Agrees(q))
             /\ LastLogicalIndex(q) = LastLogicalIndex(p)
  <2> HIDE DEF h, q, args
  <2>1. q = h
    BY <1>3, <1>4
  <2> QED
    BY <1>2, <2>1, AgreesSame
<1>5. ASSUME AcceptsEntries(p, args)
      PROVE  /\ q \in Sound /\ q.commitIndex >= p.commitIndex
             /\ q.lastIncludedIndex = p.lastIncludedIndex /\ q.lastApplied = p.lastApplied
             /\ Agrees(p) => Agrees(q)
             /\ prev >= p.lastIncludedIndex /\ Len(p.logs) > 0 => Len(q.logs) > 0
             /\ LastLogicalIndex(q) = last
  <2>1. /\ p.logs \in Seq(LogEntry) /\ Len(p.logs) \in Nat /\ p.lastIncludedIndex \in Nat
        /\ AgreedLog \in Seq(LogEntry) /\ Len(AgreedLog) \in Nat
        /\ prev \in 0..Len(AgreedLog) /\ last \in prev..Len(AgreedLog) /\ commit \in 0..last
        /\ p.commitIndex \in Int
    BY SoundFields, Constants, SMTT(30)
  <2>0. prev \in Int /\ last \in Int /\ commit \in Int /\ k \in Int
    BY <2>1, SMTT(30)
  <2>2. k \in 0..Len(p.logs)
    BY <1>1, <1>5, <2>1, SMTT(30)
       DEF AppendEntriesPanics, AcceptsEntries, PrevBeyondLog, StorageIndex, LastLogicalIndex
  <2>3. /\ log \in Seq(LogEntry) /\ Len(log) = k + last - prev
        /\ \A j \in 1..k : log[j] = p.logs[j]
        /\ \A j \in (k + 1)..(k + last - prev) : log[j] = AgreedLog[prev + j - k]
    <3> HIDE DEF k
    <3> QED
      BY <2>1, <2>2, Spliced
  <2>4. e = [h EXCEPT !.logs = log]
    <3>1. StorageIndex(h, args.PrevLogIndex) + 1 = k /\ h.logs = p.logs
      BY <1>1, <1>2 DEF SameLog, StorageIndex
    <3> HIDE DEF k, h, args, entries
    <3> QED
      BY <1>1, <3>1 DEF StoreEntries
  <2> HIDE DEF log, h
  <2>5. /\ e \in Peer /\ e.logs = log /\ e.lastIncludedIndex = p.lastIncludedIndex
        /\ e.lastApplied = p.lastApplied /\ e.commitIndex = p.commitIndex
        /\ e.lastIncludedTerm = h.lastIncludedTerm /\ e.currentTerm = h.currentTerm
    BY <1>2, <2>3, <2>4 DEF SameLog, Sound, Peer
  <2> HIDE DEF e
  <2>6. LastLogicalIndex(e) = last
    <3>1. Len(e.logs) = k + last - prev
      BY <2>3, <2>5
    <3> QED
      BY <2>0, <2>1, <2>5, <3>1, SMTT(30) DEF LastLogicalIndex
  <2>7. Min({commit, LastLogicalIndex(e)}) = commit
    BY <2>0, <2>1, <2>6, MaxMinOfTwo
  <2>8. f = IF commit > p.commitIndex THEN [e EXCEPT !.commitIndex = commit] ELSE e
    BY <2>5, <2>7 DEF FollowCommit
  <2> HIDE DEF f, args
  <2>9. /\ q \in Peer /\ q.logs = log /\ q.lastIncludedIndex = p.lastIncludedIndex
        /\ q.lastApplied = p.lastApplied
        /\ q.commitIndex = IF commit > p.commitIndex THEN commit ELSE p.commitIndex
        /\ q.lastIncludedTerm = h.lastIncludedTerm /\ q.currentTerm = h.currentTerm
    <3>1. q = f /\ commit \in Int
      BY <1>3, <1>5, <2>1, SMTT(30)
    <3> HIDE DEF q
    <3> QED
      BY <2>5, <2>8, <3>1 DEF Peer
  <2> HIDE DEF q
  <2>10. q \in Sound /\ q.commitIndex >= p.commitIndex
    <3>1. /\ h.lastIncludedTerm \in Nat /\ h.currentTerm <= LeaderTerm
          /\ p.commitIndex <= Len(AgreedLog) \/ p.commitIndex <= p.lastIncludedIndex
      BY <1>2, SoundFields
    <3>2. commit <= Len(AgreedLog)
      BY <2>0, <2>1, SMTT(30)
    <3> QED
      BY <2>0, <2>1, <2>9, <3>1, <3>2, SMTT(30) DEF Sound
  <2>11. ASSUME Agrees(p) PROVE Agrees(q)
    <3>1. ASSUME NEW i \in 1..LastStorageIndex(q)
          PROVE  /\ i + p.lastIncludedIndex \in Indices
                 /\ log[i + 1] = AgreedLog[i + p.lastIncludedIndex]
      <4>1. i \in 1..(Len(log) - 1) /\ i + p.lastIncludedIndex \in Indices
        <5>1. i \in 1..(Len(log) - 1) /\ Len(log) = k + last - prev /\ Indices = 1..Len(AgreedLog)
          BY <2>3, <2>9, <3>1, Constants DEF LastStorageIndex
        <5>2. i \in Int /\ i <= k + last - prev - 1 /\ 1 <= i
          BY <2>0, <5>1, SMTT(30)
        <5>3. i + p.lastIncludedIndex <= last /\ 1 <= i + p.lastIncludedIndex
          BY <2>0, <2>1, <5>2, SMTT(30)
        <5>4. i + p.lastIncludedIndex \in Int /\ last <= Len(AgreedLog)
          BY <2>0, <2>1, <5>2, SMTT(30)
        <5> QED
          BY <2>0, <2>1, <5>1, <5>3, <5>4, SMTT(30)
      <4>2. CASE i + 1 \in 1..k
        <5>1. i \in 1..LastStorageIndex(p)
          BY <2>1, <2>2, <4>1, <4>2, SMTT(30) DEF LastStorageIndex
        <5> QED
          BY <2>3, <2>11, <4>1, <4>2, <5>1 DEF Agrees, Entry
      <4>3. CASE i + 1 \notin 1..k
        <5>1. /\ i + 1 \in (k + 1)..(k + last - prev)
              /\ prev + (i + 1) - k = i + p.lastIncludedIndex
          <6>1. Len(log) = k + last - prev
            BY <2>3
          <6>2. i \in Int /\ i + 1 <= k + last - prev /\ 1 <= i
            BY <2>0, <4>1, <6>1, SMTT(30)
          <6>3. prev + (i + 1) - k = i + p.lastIncludedIndex
            <7>1. i \in Int /\ prev \in Int /\ p.lastIncludedIndex \in Int
              BY <2>0, <2>1, <6>2, SMTT(30)
            <7> QED
              BY <7>1, SMTT(30)
          <6> HIDE DEF k
          <6>4. i + 1 >= k + 1
            BY <2>0, <4>3, <6>2, SMTT(30)
          <6> QED
            BY <2>0, <6>2, <6>3, <6>4, SMTT(30)
        <5> HIDE DEF k
        <5> QED
          BY <2>3, <4>1, <5>1
      <4> QED
        BY <4>2, <4>3
    <3> QED
      BY <2>9, <2>11, <3>1 DEF Agrees, Entry
  <2>12. prev >= p.lastIncludedIndex => Len(q.logs) > 0
    BY <2>1, <2>3, <2>9, SMTT(30)
  <2>13. LastLogicalIndex(q) = last
    BY <2>5, <2>6, <2>9 DEF LastLogicalIndex
  <2> QED
    BY <2>9, <2>10, <2>11, <2>12, <2>13
<1> HIDE DEF q, args
<1> QED
  <2>1. p.commitIndex \in Int
    BY SoundFields
  <2> QED
    BY <1>4, <1>5, <2>1, SMTT(30) DEF q, args, SameLog

(* InstallSnapshot: a discarded snapshot changes nothing of the log; any   *)
(* other becomes lastIncludedIndex and lastApplied, ahead of both, and the *)
(* log behind it is as long as before.                                     *)
LEMMA InstallStep ==
    ASSUME NEW p \in Sound, NEW index \in Indices, NEW args,
           args = [Term |-> LeaderTerm, LeaderId |-> Leader,
                   LastIncludedIndex |-> index, LastIncludedTerm |-> AgreedTerm(index)]
    PROVE  LET q == InstallSnapshot(p, args)
           IN  /\ q \in Sound
               /\ Agrees(p) => Agrees(q)
               /\ DiscardsSnapshot(p, args) => SameLog(p, q)
               /\ ~DiscardsSnapshot(p, args) =>
                    /\ q.lastIncludedIndex = index
                    /\ q.lastApplied = index /\ p.lastApplied < index
                    /\ q.commitIndex >= p.commitIndex /\ q.commitIndex >= index
                    /\ Len(q.logs) > 0
                    /\ p.commitIndex <= LastLogicalIndex(p) =>
                            q.commitIndex <= LastLogicalIndex(q)
<1> DEFINE o == ObserveTerm(p, LeaderTerm)
           term == AgreedTerm(index)
           log == LogBehindSnapshot(p, args)
           k == StorageIndex(p, index)
           c == Max({o.commitIndex, index})
           q == [o EXCEPT !.logs = log, !.lastIncludedIndex = index,
                          !.lastIncludedTerm = term,
                          !.lastApplied = index, !.commitIndex = c]
           r == InstallSnapshot(p, args)
<1>1. /\ args.Term = LeaderTerm /\ args.LastIncludedIndex = index
      /\ args.LastIncludedTerm = term
  OBVIOUS
<1>2. /\ p.logs \in Seq(LogEntry) /\ Len(p.logs) \in Nat /\ p.lastIncludedIndex \in Nat
      /\ p.commitIndex \in Int /\ p.lastApplied \in Int
      /\ p.commitIndex <= Len(AgreedLog) \/ p.commitIndex <= p.lastIncludedIndex
      /\ LastLogicalIndex(p) \in Int /\ ~(LeaderTerm < p.currentTerm)
  BY SoundFields, Constants, SMTT(30)
<1>3. /\ index \in Nat /\ index <= Len(AgreedLog) /\ Len(AgreedLog) \in Nat
      /\ term \in Nat /\ term \in Int /\ Indices = 1..Len(AgreedLog)
  BY Constants, SMTT(30)
<1>4. o \in Sound /\ SameLog(p, o)
  BY HeardSame
<1>5. r = IF DiscardsSnapshot(p, args) THEN o ELSE q
  BY <1>1, <1>2 DEF InstallSnapshot
<1> HIDE DEF o, r, term
<1>6. CASE DiscardsSnapshot(p, args)
  BY <1>4, <1>5, <1>6, AgreesSame DEF r
<1>7. CASE ~DiscardsSnapshot(p, args)
  <2>1. index > p.lastIncludedIndex /\ index > p.lastApplied
    BY <1>1, <1>2, <1>3, <1>7, SMTT(30) DEF DiscardsSnapshot
  <2>2. /\ c = IF p.commitIndex >= index THEN p.commitIndex ELSE index
        /\ c \in Int /\ c >= p.commitIndex /\ c >= index
        /\ c <= Len(AgreedLog) \/ c <= index
    <3>1. o.commitIndex = p.commitIndex /\ index \in Int
      BY <1>3, <1>4, SMTT(30) DEF SameLog
    <3>2. c = IF p.commitIndex >= index THEN p.commitIndex ELSE index
      BY <1>2, <3>1, MaxMinOfTwo
    <3> HIDE DEF c
    <3> QED
      BY <1>2, <1>3, <2>1, <3>1, <3>2, SMTT(30)
  <2> HIDE DEF c
  <2>3. /\ log \in Seq(LogEntry) /\ Len(log) \in Nat /\ Len(log) > 0
        /\ Len(log) - 1 + index = IF LastLogicalIndex(p) <= index THEN index
                                  ELSE LastLogicalIndex(p)
        /\ \A i \in 1..(Len(log) - 1) : i + k + 1 \in 1..Len(p.logs) /\ i + k > 0
                                       /\ log[i + 1] = p.logs[i + k + 1]
    <3>1. CASE LastLogicalIndex(p) <= index
      <4>1. log = <<[Term |-> term, Command |-> Nil]>>
        BY <1>1, <3>1 DEF LogBehindSnapshot
      <4>2. [Term |-> term, Command |-> Nil] \in LogEntry
        BY <1>3 DEF LogEntry
      <4> HIDE DEF log, k
      <4>3. log \in Seq(LogEntry) /\ Len(log) = 1
        BY <4>1, <4>2, SMTT(30)
      <4> QED
        BY <1>3, <3>1, <4>3, SMTT(30)
    <3>2. CASE ~(LastLogicalIndex(p) <= index)
      <4> DEFINE mark == [Term |-> 0, Command |-> Nil]
                 tail == Marked(mark, p.logs, k)
      <4>1. log = tail
        BY <1>1, <3>2 DEF LogBehindSnapshot, Marked
      <4>2. mark \in LogEntry
        BY DEF LogEntry
      <4>3. k \in Nat /\ k > 0 /\ k < Len(p.logs) /\ k = index - p.lastIncludedIndex
        BY <1>2, <1>3, <2>1, <3>2, SMTT(30) DEF StorageIndex, LastLogicalIndex
      <4> HIDE DEF k, mark
      <4>4. /\ tail \in Seq(LogEntry) /\ Len(tail) = Len(p.logs) - k
            /\ \A a \in 1..(Len(p.logs) - k - 1) : tail[a + 1] = p.logs[a + k + 1]
        BY <1>2, <4>2, <4>3, MarkedTail
      <4> HIDE DEF log, tail
      <4>5. log \in Seq(LogEntry) /\ Len(log) = Len(p.logs) - k
        BY <4>1, <4>4
      <4>6. \A a \in 1..(Len(p.logs) - k - 1) : log[a + 1] = p.logs[a + k + 1]
        BY <4>1, <4>4
      <4>7. Len(log) \in Nat /\ Len(log) > 0 /\ Len(log) - 1 + index = LastLogicalIndex(p)
        <5>1. /\ Len(log) = Len(p.logs) - k /\ k = index - p.lastIncludedIndex /\ k < Len(p.logs)
              /\ k \in Int /\ index \in Int /\ Len(p.logs) \in Int /\ p.lastIncludedIndex \in Int
          BY <1>2, <1>3, <4>3, <4>5, SMTT(30)
        <5> QED
          BY <5>1, SMTT(30) DEF LastLogicalIndex
      <4>8. \A i \in 1..(Len(log) - 1) : i + k + 1 \in 1..Len(p.logs) /\ i + k > 0
        BY <1>2, <4>3, <4>5, SMTT(30)
      <4> QED
        BY <3>2, <4>5, <4>6, <4>7, <4>8
    <3> QED
      BY <3>1, <3>2
  <2> HIDE DEF log
  <2>4. /\ r \in Peer /\ r.logs = log /\ r.lastIncludedIndex = index
        /\ r.lastIncludedTerm = term /\ r.lastApplied = index /\ r.commitIndex = c
        /\ r.currentTerm = o.currentTerm
    <3>1. r = q /\ index \in Int /\ o \in Peer
      BY <1>3, <1>4, <1>5, <1>7, SMTT(30) DEF Sound
    <3> QED
      BY <1>3, <2>2, <2>3, <3>1 DEF Peer
  <2>5. r \in Sound
    <3>1. o.currentTerm <= LeaderTerm
      BY <1>4, SoundFields
    <3> QED
      BY <1>3, <2>2, <2>4, <3>1 DEF Sound
  <2>6. ASSUME Agrees(p) PROVE Agrees(r)
    <3>1. ASSUME NEW i \in 1..LastStorageIndex(r)
          PROVE  i + index \in Indices /\ log[i + 1] = AgreedLog[i + index]
      <4>1. i \in 1..(Len(log) - 1) /\ k \in Int /\ i \in Int
        BY <1>2, <1>3, <2>4, SMTT(30) DEF LastStorageIndex, StorageIndex
      <4>2. i + k + 1 \in 1..Len(p.logs) /\ i + k > 0 /\ log[i + 1] = p.logs[i + k + 1]
        BY <2>3, <4>1
      <4>3. i + k \in 1..LastStorageIndex(p) /\ i + k + p.lastIncludedIndex = i + index
        <5>1. /\ i \in Int /\ k \in Int /\ i + k + 1 <= Len(p.logs) /\ Len(p.logs) \in Int
              /\ p.lastIncludedIndex \in Int /\ index \in Int /\ i + k > 0
          BY <1>2, <1>3, <4>1, <4>2, SMTT(30)
        <5>2. i + k + p.lastIncludedIndex = i + index
          BY <5>1, SMTT(30) DEF StorageIndex
        <5> HIDE DEF k
        <5> QED
          BY <5>1, <5>2, SMTT(30) DEF LastStorageIndex
      <4> HIDE DEF k
      <4> QED
        BY <2>6, <4>2, <4>3 DEF Agrees, Entry
    <3> QED
      BY <1>3, <2>4, <3>1 DEF Agrees, Entry
  <2>7. p.commitIndex <= LastLogicalIndex(p) => r.commitIndex <= LastLogicalIndex(r)
    BY <1>2, <1>3, <2>2, <2>3, <2>4, SMTT(30) DEF LastLogicalIndex
  <2> QED
    BY <1>7, <2>1, <2>2, <2>3, <2>4, <2>5, <2>6, <2>7 DEF r
<1> QED
  BY <1>6, <1>7

(* Snapshot: the log ends where it ended, with the same entries. *)
LEMMA TrimStep ==
    ASSUME NEW p \in Sound, NEW index \in Indices,
           p.lastIncludedIndex < index, index <= LastLogicalIndex(p)
    PROVE  LET q == TrimLogs(p, index)
           IN  /\ q \in Sound
               /\ Agrees(p) => Agrees(q)
               /\ q.lastIncludedIndex = index
               /\ q.lastApplied = p.lastApplied /\ q.commitIndex = p.commitIndex
               /\ Len(q.logs) > 0 /\ LastLogicalIndex(q) = LastLogicalIndex(p)
<1> DEFINE k == StorageIndex(p, index)
           term == Entry(p, k).Term
           mark == [Term |-> term, Command |-> Nil]
           log == Marked(mark, p.logs, k)
           q == TrimLogs(p, index)
<1>1. /\ p \in Peer /\ p.logs \in Seq(LogEntry) /\ Len(p.logs) \in Nat
      /\ p.lastIncludedIndex \in Nat /\ p.commitIndex \in Int /\ p.currentTerm <= LeaderTerm
      /\ p.commitIndex <= Len(AgreedLog) \/ p.commitIndex <= p.lastIncludedIndex
  BY SoundFields
<1>2. index \in Nat /\ index <= Len(AgreedLog) /\ Len(AgreedLog) \in Nat
  BY Constants
<1>3. k \in Nat /\ k > 0 /\ k < Len(p.logs) /\ k = index - p.lastIncludedIndex
  BY <1>1, <1>2, SMTT(30) DEF StorageIndex, LastLogicalIndex
<1> HIDE DEF k
<1>4. term \in Nat /\ mark \in LogEntry
  <2>1. k + 1 \in 1..Len(p.logs)
    BY <1>1, <1>3, SMTT(30)
  <2>2. p.logs[k + 1] \in LogEntry
    BY <1>1, <2>1, ElementOfSeq
  <2> QED
    BY <2>2 DEF Entry, LogEntry
<1> HIDE DEF term, mark
<1>5. /\ log \in Seq(LogEntry) /\ Len(log) = Len(p.logs) - k
      /\ \A a \in 1..(Len(p.logs) - k - 1) : log[a + 1] = p.logs[a + k + 1]
  BY <1>1, <1>3, <1>4, MarkedTail
<1>6. q = [p EXCEPT !.logs = log, !.lastIncludedIndex = index, !.lastIncludedTerm = term]
  BY <1>1 DEF TrimLogs, Marked, mark, term, k, Peer
<1> HIDE DEF log, q
<1>7. /\ q \in Peer /\ q.logs = log /\ q.lastIncludedIndex = index
      /\ q.lastIncludedTerm = term /\ q.currentTerm = p.currentTerm
      /\ q.lastApplied = p.lastApplied /\ q.commitIndex = p.commitIndex
  <2>1. term \in Int /\ index \in Int
    BY <1>2, <1>4, SMTT(30)
  <2> QED
    BY <1>1, <1>5, <1>6, <2>1 DEF Peer
<1>8. q \in Sound
  BY <1>1, <1>2, <1>4, <1>7, SMTT(30) DEF Sound
<1>9. Len(q.logs) > 0 /\ LastLogicalIndex(q) = LastLogicalIndex(p)
  <2>1. /\ Len(q.logs) = Len(p.logs) - k /\ q.lastIncludedIndex = p.lastIncludedIndex + k
        /\ k \in Int /\ k < Len(p.logs) /\ Len(p.logs) \in Int /\ p.lastIncludedIndex \in Int
    BY <1>1, <1>2, <1>3, <1>5, <1>7, SMTT(30)
  <2> QED
    BY <2>1, SMTT(30) DEF LastLogicalIndex
<1>10. ASSUME Agrees(p) PROVE Agrees(q)
  <2>1. ASSUME NEW i \in 1..LastStorageIndex(q)
        PROVE  i + index \in Indices /\ log[i + 1] = AgreedLog[i + index]
    <3>1. LastStorageIndex(q) = Len(p.logs) - k - 1
      BY <1>5, <1>7 DEF LastStorageIndex
    <3>2. log[i + 1] = p.logs[i + k + 1]
      BY <1>5, <3>1
    <3>3. /\ i \in Int /\ k \in Int /\ Len(p.logs) \in Int /\ 1 <= i /\ i <= Len(p.logs) - k - 1
          /\ k > 0 /\ index = p.lastIncludedIndex + k /\ p.lastIncludedIndex \in Int
      BY <1>1, <1>2, <1>3, <3>1, SMTT(30)
    <3>4. i + k \in 1..LastStorageIndex(p) /\ i + k + p.lastIncludedIndex = i + index
      BY <3>3, SMTT(30) DEF LastStorageIndex
    <3> QED
      BY <1>10, <3>2, <3>4 DEF Agrees, Entry
  <2> QED
    BY <1>2, <1>7, <2>1 DEF Agrees, Entry
<1> QED
  BY <1>7, <1>8, <1>9, <1>10 DEF q

(* condInstallSnapshot leaves a sound peer, whatever its arguments are. *)
LEMMA CondInstallStep ==
    ASSUME NEW p \in Sound, NEW a \in Nat, NEW b \in Nat, ~CondInstallPanics(p, b)
    PROVE  CondInstall(p, a, b) \in Sound
<1> DEFINE mark == [Term |-> a, Command |-> Nil]
           k == StorageIndex(p, b)
           log == IF b > LastLogicalIndex(p) THEN <<mark>> ELSE Marked(mark, p.logs, k)
<1>1. /\ p \in Peer /\ p.logs \in Seq(LogEntry) /\ Len(p.logs) \in Nat
      /\ p.lastIncludedIndex \in Nat /\ p.currentTerm <= LeaderTerm
      /\ LastLogicalIndex(p) \in Int
  BY SoundFields
<1>2. mark \in LogEntry
  BY DEF LogEntry
<1>3. log \in Seq(LogEntry)
  <2>1. CASE b > LastLogicalIndex(p)
    BY <1>2, <2>1, SMTT(30)
  <2>2. CASE ~(b > LastLogicalIndex(p))
    <3>1. k \in Nat /\ k < Len(p.logs)
      BY <1>1, <2>2, SMTT(30) DEF StorageIndex, LastLogicalIndex, CondInstallPanics
    <3> HIDE DEF k, mark
    <3> QED
      BY <1>1, <1>2, <2>2, <3>1, MarkedTail
  <2> QED
    BY <2>1, <2>2
<1>4. CondInstall(p, a, b) =
        [p EXCEPT !.logs = log, !.lastIncludedIndex = b, !.lastIncludedTerm = a,
                  !.lastApplied = b, !.commitIndex = b]
  BY DEF CondInstall, Marked
<1> DEFINE q == CondInstall(p, a, b)
<1> HIDE DEF log, q
<1>5. /\ q \in Peer /\ q.lastIncludedIndex = b /\ q.lastIncludedTerm = a
      /\ q.commitIndex = b /\ q.currentTerm = p.currentTerm
  <2>1. q = [p EXCEPT !.logs = log, !.lastIncludedIndex = b, !.lastIncludedTerm = a,
                      !.lastApplied = b, !.commitIndex = b]
    BY <1>4 DEF q
  <2>2. a \in Int /\ b \in Int
    BY SMTT(30)
  <2> QED
    BY <1>1, <1>3, <2>1, <2>2 DEF Peer
<1> QED
  BY <1>1, <1>5, SMTT(30) DEF Sound, q

(* readPersist: the restarted peer has the log it saved, and starts from   *)
(* its snapshot.                                                           *)
LEMMA ReadPersistStep ==
    ASSUME NEW p \in Sound
    PROVE  LET q == ReadPersist(p)
           IN  /\ q \in Sound
               /\ Agrees(p) => Agrees(q)
               /\ q.lastApplied = p.lastIncludedIndex /\ q.commitIndex = p.lastIncludedIndex
               /\ q.logs = p.logs /\ LastLogicalIndex(q) = LastLogicalIndex(p)
<1> DEFINE q == ReadPersist(p)
<1>1. /\ p \in Peer /\ p.logs \in Seq(LogEntry) /\ p.lastIncludedIndex \in Nat
      /\ p.lastIncludedTerm \in Nat /\ p.currentTerm \in Nat /\ p.currentTerm <= LeaderTerm
  BY SoundFields
<1>2. /\ q.logs = p.logs /\ q.lastApplied = p.lastIncludedIndex
      /\ q.commitIndex = p.lastIncludedIndex /\ q.lastIncludedIndex = p.lastIncludedIndex
      /\ q.lastIncludedTerm = p.lastIncludedTerm /\ q.currentTerm = p.currentTerm
      /\ q \in Peer
  <2>1. /\ p.lastIncludedIndex \in Int /\ p.lastIncludedTerm \in Int /\ 0 \in Int
        /\ p.votedFor \in Server \cup {-1}
    BY <1>1, SMTT(30) DEF Peer
  <2> QED
    BY <1>1, <2>1 DEF ReadPersist, Make, Peer, Role
<1> HIDE DEF q
<1>3. q \in Sound
  BY <1>1, <1>2, SMTT(30) DEF Sound
<1> QED
  BY <1>2, <1>3 DEF Agrees, LastLogicalIndex, LastStorageIndex, Entry, q

(* applyLogs: the messages it collects are those after lastApplied up to   *)
(* commitIndex, with the agreed commands.                                  *)
LEMMA CollectedStep ==
    ASSUME NEW p \in Sound, p.lastApplied >= p.lastIncludedIndex,
           p.lastApplied < p.commitIndex, ~CollectPanics(p)
    PROVE  LET msgs == Collected(p)
           IN  /\ msgs \in Seq(ApplyMsg) /\ Len(msgs) \in Nat /\ Len(msgs) > 0
               /\ msgs[1].index = p.lastApplied + 1 /\ Consecutive(msgs)
               /\ \A n \in 1..Len(msgs) : msgs[n].index <= p.commitIndex
               /\ Agrees(p) => \A n \in 1..Len(msgs) :
                                  msgs[n].command = AgreedLog[msgs[n].index].Command
<1> DEFINE msgs == Collected(p)
           m == p.commitIndex - p.lastApplied
           k == p.lastApplied - p.lastIncludedIndex
<1>1. /\ p.logs \in Seq(LogEntry) /\ Len(p.logs) \in Nat /\ p.lastIncludedIndex \in Nat
      /\ p.lastApplied \in Int /\ p.commitIndex \in Int
      /\ p.commitIndex <= Len(AgreedLog) \/ p.commitIndex <= p.lastIncludedIndex
  BY SoundFields
<1>2. /\ m \in Nat /\ m > 0 /\ k \in Nat /\ m + k + 1 <= Len(p.logs)
      /\ p.lastApplied = p.lastIncludedIndex + k /\ p.commitIndex = p.lastApplied + m
      /\ p.commitIndex <= Len(AgreedLog) /\ Len(AgreedLog) \in Nat
      /\ Indices = 1..Len(AgreedLog)
  <2>1. p.commitIndex <= Len(p.logs) - 1 + p.lastIncludedIndex
    BY <1>1, SMTT(30) DEF CollectPanics, LastLogicalIndex
  <2>2. Len(AgreedLog) \in Nat /\ Indices = 1..Len(AgreedLog)
    BY Constants
  <2>3. m \in Nat /\ m > 0 /\ k \in Nat /\ p.commitIndex <= Len(AgreedLog)
    BY <1>1, <2>2, SMTT(30)
  <2>4. p.lastApplied = p.lastIncludedIndex + k /\ p.commitIndex = p.lastApplied + m
    BY <1>1, SMTT(30)
  <2>5. m + k = p.commitIndex - p.lastIncludedIndex
    BY <1>1, SMTT(30)
  <2> HIDE DEF m, k
  <2>6. m + k + 1 <= Len(p.logs)
    BY <1>1, <2>1, <2>3, <2>5, SMTT(30)
  <2> QED
    BY <2>2, <2>3, <2>4, <2>6
<1> HIDE DEF m, k
<1>3. \A n \in 1..m : /\ p.lastApplied + n \in Indices /\ p.lastApplied + n \in Nat
                       /\ p.lastApplied + n <= p.commitIndex
                       /\ StorageIndex(p, p.lastApplied + n) = n + k
                       /\ n + k \in 1..LastStorageIndex(p)
                       /\ n + k + p.lastIncludedIndex = p.lastApplied + n
                       /\ n + k + 1 \in 1..Len(p.logs)
  <2> SUFFICES ASSUME NEW n \in 1..m
               PROVE  /\ p.lastApplied + n \in Indices /\ p.lastApplied + n \in Nat
                      /\ p.lastApplied + n <= p.commitIndex
                      /\ StorageIndex(p, p.lastApplied + n) = n + k
                      /\ n + k \in 1..LastStorageIndex(p)
                      /\ n + k + p.lastIncludedIndex = p.lastApplied + n
                      /\ n + k + 1 \in 1..Len(p.logs)
    OBVIOUS
  <2>1. n \in Int /\ 1 <= n /\ n <= m
    BY <1>2, SMTT(30)
  <2>2. n + k + 1 <= Len(p.logs) /\ n + k + 1 \in Int
    BY <1>1, <1>2, <2>1, SMTT(30)
  <2>3. n + k \in 1..LastStorageIndex(p) /\ n + k + 1 \in 1..Len(p.logs)
    BY <1>1, <1>2, <2>1, <2>2, SMTT(30) DEF LastStorageIndex
  <2>4. /\ StorageIndex(p, p.lastApplied + n) = n + k
        /\ n + k + p.lastIncludedIndex = p.lastApplied + n
    <3>1. p.lastApplied = p.lastIncludedIndex + k /\ p.lastIncludedIndex \in Int /\ k \in Int
      BY <1>1, <1>2, SMTT(30)
    <3> QED
      BY <2>1, <3>1, SMTT(30) DEF StorageIndex
  <2>5. p.lastApplied + n <= p.commitIndex /\ p.lastApplied + n \in Nat /\ p.lastApplied + n >= 1
    BY <1>1, <1>2, <2>1, SMTT(30)
  <2>6. p.lastApplied + n \in Indices
    BY <1>1, <1>2, <2>5, SMTT(30)
  <2> QED
    BY <2>3, <2>4, <2>5, <2>6
<1>4. msgs = [n \in 1..m |-> [index |-> p.lastApplied + n,
                              command |-> Entry(p, StorageIndex(p, p.lastApplied + n)).Command]]
  BY DEF Collected, m
<1> HIDE DEF msgs
<1>5. \A n \in 1..m : /\ msgs[n].index = p.lastApplied + n
                       /\ msgs[n].command = p.logs[n + k + 1].Command
                       /\ msgs[n] \in ApplyMsg
  <2> SUFFICES ASSUME NEW n \in 1..m
               PROVE  /\ msgs[n].index = p.lastApplied + n
                      /\ msgs[n].command = p.logs[n + k + 1].Command
                      /\ msgs[n] \in ApplyMsg
    OBVIOUS
  <2>1. msgs[n] = [index |-> p.lastApplied + n,
                   command |-> Entry(p, StorageIndex(p, p.lastApplied + n)).Command]
    BY <1>4
  <2>2. Entry(p, StorageIndex(p, p.lastApplied + n)) = p.logs[n + k + 1]
    BY <1>3 DEF Entry
  <2>3. p.logs[n + k + 1] \in LogEntry
    BY <1>1, <1>3, ElementOfSeq
  <2>4. p.logs[n + k + 1].Command \in Command \cup {Nil} /\ p.lastApplied + n \in Nat
    BY <1>3, <2>3 DEF LogEntry
  <2>5. msgs[n] = [index |-> p.lastApplied + n, command |-> p.logs[n + k + 1].Command]
    BY <2>1, <2>2
  <2> QED
    BY <2>4, <2>5, SMTT(30) DEF ApplyMsg
<1>6. msgs \in Seq(ApplyMsg)
  <2>1. msgs \in [1..m -> ApplyMsg]
    BY <1>4, <1>5
  <2> QED
    BY <1>2, <2>1, SeqDef
<1>7. Len(msgs) = m
  <2>1. Len(msgs) \in Nat /\ DOMAIN msgs = 1..Len(msgs) /\ DOMAIN msgs = 1..m
    BY <1>4, <1>6, LenProperties
  <2>2. 1..Len(msgs) = 1..m /\ m \in Nat /\ m > 0 /\ Len(msgs) \in Nat
    BY <1>2, <2>1
  <2> DEFINE l == Len(msgs)
  <2> HIDE DEF l
  <2>3. 1..l = 1..m /\ l \in Nat
    BY <2>2 DEF l
  <2>4. l = m
    BY <2>2, <2>3, SMTT(30)
  <2> QED
    BY <2>4 DEF l
<1>8. msgs[1].index = p.lastApplied + 1 /\ 1 \in 1..m
  BY <1>2, <1>5, SMTT(30)
<1>9. Consecutive(msgs)
  <2> SUFFICES ASSUME NEW n \in 1..m
               PROVE  msgs[n].index \in Indices /\ msgs[n].index = msgs[1].index + n - 1
    BY <1>7 DEF Consecutive
  <2>1. msgs[n].index = p.lastApplied + n /\ p.lastApplied + n \in Indices
    BY <1>3, <1>5
  <2>2. p.lastApplied + n = p.lastApplied + 1 + n - 1
    BY <1>1, <1>2, SMTT(30)
  <2> QED
    BY <1>8, <2>1, <2>2
<1>10. ASSUME Agrees(p), NEW n \in 1..m
       PROVE  msgs[n].command = AgreedLog[msgs[n].index].Command
  <2>1. p.logs[n + k + 1] = AgreedLog[n + k + p.lastIncludedIndex]
    BY <1>3, <1>10 DEF Agrees, Entry
  <2> QED
    BY <1>3, <1>5, <2>1
<1> QED
  BY <1>2, <1>3, <1>5, <1>6, <1>7, <1>8, <1>9, <1>10 DEF msgs

-----------------------------------------------------------------------------
(* Goroutines *)

(* the types of the variables, one by one *)
LEMMA Types ==
    ASSUME TypeInv
    PROVE  /\ rf \in Sound /\ applies \subseteq Goroutine
           /\ snapshots \subseteq Indices
           /\ service \in [lastApplied : Nat, taking : Indices \cup {0}]
           /\ service.lastApplied \in Nat /\ service.taking \in Indices \cup {0}
           /\ service.taking \in Nat
           /\ status \in {"running", "panic", "apply error"}
           /\ appends \in 0..MaxAppends /\ installs \in 0..MaxInstalls
           /\ restarts \in 0..MaxRestarts /\ orphans \subseteq Seq(ApplyMsg)
           /\ windows \subseteq Window /\ <<>> \notin orphans
           /\ \A g \in applies : SenderOK(g)
           /\ rf.lastApplied \in Int /\ rf.commitIndex \in Int
           /\ rf.lastIncludedIndex \in Nat /\ LastLogicalIndex(rf) \in Int
           /\ Len(rf.logs) \in Nat
<1>1. /\ rf \in Sound /\ applies \subseteq Goroutine
      /\ snapshots \subseteq Indices
      /\ service \in [lastApplied : Nat, taking : Indices \cup {0}]
      /\ status \in {"running", "panic", "apply error"}
      /\ appends \in 0..MaxAppends /\ installs \in 0..MaxInstalls
      /\ restarts \in 0..MaxRestarts /\ orphans \subseteq Seq(ApplyMsg)
      /\ windows \subseteq Window /\ <<>> \notin orphans
      /\ \A g \in applies : SenderOK(g)
  BY DEF TypeInv
<1>2. service.lastApplied \in Nat /\ service.taking \in Indices \cup {0}
  BY <1>1
<1>3. service.taking \in Nat
  BY <1>2, Constants
<1> QED
  BY <1>1, <1>2, <1>3, SoundFields

(* and back *)
LEMMA TypesPrime ==
    ASSUME rf' \in Sound, applies' \subseteq Goroutine,
           snapshots' \subseteq Indices,
           service' \in [lastApplied : Nat, taking : Indices \cup {0}],
           status' \in {"running", "panic", "apply error"},
           appends' \in 0..MaxAppends, installs' \in 0..MaxInstalls,
           restarts' \in 0..MaxRestarts, orphans' \subseteq Seq(ApplyMsg),
           windows' \subseteq Window, <<>> \notin orphans',
           \A g \in applies' : SenderOK(g)
    PROVE  TypeInv'
BY DEF TypeInv

(* a sequence of messages is empty or has a head *)
LEMMA Messages ==
    ASSUME NEW msgs \in Seq(ApplyMsg)
    PROVE  /\ Len(msgs) \in Nat /\ DOMAIN msgs = 1..Len(msgs)
           /\ \A n \in 1..Len(msgs) : msgs[n] \in ApplyMsg /\ msgs[n].index \in Nat
           /\ msgs # <<>> => /\ 1 \in 1..Len(msgs) /\ Head(msgs) = msgs[1]
                             /\ Tail(msgs) \in Seq(ApplyMsg)
                             /\ Len(Tail(msgs)) = Len(msgs) - 1
                             /\ \A n \in 1..Len(Tail(msgs)) :
                                    n + 1 \in 1..Len(msgs) /\ Tail(msgs)[n] = msgs[n + 1]
                             /\ Len(msgs) # 1 => Tail(msgs) # <<>>
<1>1. Len(msgs) \in Nat /\ DOMAIN msgs = 1..Len(msgs)
  BY LenProperties
<1>2. \A n \in 1..Len(msgs) : msgs[n] \in ApplyMsg
  BY ElementOfSeq
<1>3. \A m \in ApplyMsg : m.index \in Nat
  BY DEF ApplyMsg
<1>4. ASSUME msgs # <<>>
      PROVE  /\ Len(msgs) > 0 /\ Head(msgs) = msgs[1] /\ Tail(msgs) \in Seq(ApplyMsg)
             /\ Len(Tail(msgs)) = Len(msgs) - 1
             /\ \A n \in 1..Len(Tail(msgs)) : Tail(msgs)[n] = msgs[n + 1]
  <2>1. Len(msgs) # 0
    BY <1>4, EmptySeq
  <2>2. Tail(msgs) \in Seq(ApplyMsg) /\ Len(Tail(msgs)) = Len(msgs) - 1
    BY <1>1, <1>4, HeadTailProperties
  <2>3. \A n \in 1..Len(Tail(msgs)) : Tail(msgs)[n] = msgs[n + 1]
    BY <1>1, <1>4, HeadTailProperties
  <2>4. Head(msgs) = msgs[1]
    BY <1>1, <1>4, <2>1, SMTT(30)
  <2> QED
    BY <1>1, <2>1, <2>2, <2>3, <2>4, SMTT(30)
<1>5. ASSUME msgs # <<>> PROVE 1 \in 1..Len(msgs)
  BY <1>1, <1>4, <1>5, SMTT(30)
<1>6. ASSUME msgs # <<>> PROVE \A n \in 1..Len(Tail(msgs)) : n + 1 \in 1..Len(msgs)
  BY <1>1, <1>4, <1>6, SMTT(30)
<1>7. ASSUME msgs # <<>>, Len(msgs) # 1 PROVE Tail(msgs) # <<>>
  BY <1>1, <1>4, <1>7, EmptySeq, SMTT(30)
<1> QED
  BY <1>1, <1>2, <1>3, <1>4, <1>5, <1>6, <1>7

(* a goroutine of applyLogs *)
LEMMA SenderFields ==
    ASSUME TypeInv, NEW g \in applies
    PROVE  /\ g \in Goroutine /\ g.msgs \in Seq(ApplyMsg) /\ g.args \in Seq(Nat)
           /\ SenderOK(g) /\ Consecutive(g.msgs)
           /\ g.pc \in {"sending", "sent"} <=> ~Silent(g)
           /\ ~Silent(g) => /\ 1 \in 1..Len(g.msgs) /\ Head(g.msgs) = g.msgs[1]
                            /\ g.msgs[1].index \in Indices /\ g.msgs[1].index \in Nat
<1>1. g \in Goroutine /\ SenderOK(g)
  BY Types
<1>2. g.msgs \in Seq(ApplyMsg) /\ g.args \in Seq(Nat)
  BY <1>1 DEF Goroutine
<1>3. Consecutive(g.msgs) /\ (g.pc \in {"sending", "sent"} <=> ~Silent(g))
  BY <1>1 DEF SenderOK
<1>4. ~Silent(g) => 1 \in 1..Len(g.msgs) /\ Head(g.msgs) = g.msgs[1]
  BY <1>2, Messages DEF Silent
<1>5. ~Silent(g) => g.msgs[1].index \in Indices
  BY <1>3, <1>4 DEF Consecutive
<1> QED
  BY <1>1, <1>2, <1>3, <1>4, <1>5, Constants

(* Some goroutines without messages more or less make no difference. *)
SameSenders ==
    /\ \A g \in applies' : g \in applies \/ Silent(g)
    /\ \A g \in applies : g \in applies' \/ Silent(g)

(* A step that neither sends nor collects keeps the service in step. *)
LEMMA QuietStep ==
    ASSUME ApplyInv, status = "running", snapshots' = snapshots,
           service'.lastApplied = service.lastApplied, windows \subseteq windows',
           rf'.lastApplied = rf.lastApplied, SameSenders
    PROVE  StepInv' /\ OneSender' /\ CollectedAgreed'
<1>1. \A g \in applies : g.pc \in {"sending", "sent"} <=> ~Silent(g)
  BY SenderFields DEF ApplyInv
<1>2. StepInv'
  <2> SUFFICES ASSUME windows' \cap {"overtake", "swapped", "orphan"} = {}
               PROVE  (Delivering \/ Waiting \/ Received \/ Repeating)'
    BY DEF StepInv
  <2>1. Delivering \/ Waiting \/ Received \/ Repeating
    BY DEF ApplyInv, StepInv
  <2>2. CASE Delivering
    BY <2>2 DEF Delivering, SameSenders
  <2>3. CASE Waiting
    BY <2>3 DEF Waiting, SameSenders
  <2>4. CASE Received
    <3>1. PICK g \in applies : /\ g.pc = "sent" /\ g.msgs[1].index = service.lastApplied
                               /\ \A h \in applies \ {g} : Silent(h)
      BY <2>4 DEF Received
    <3>2. g \in applies' /\ \A h \in applies' \ {g} : Silent(h)
      BY <1>1, <3>1 DEF SameSenders
    <3> QED
      BY <2>4, <3>1, <3>2 DEF Received
  <2>5. CASE Repeating
    <3>1. PICK g \in applies : g.pc = "sending" /\ g.msgs[1].index <= service.lastApplied
      BY <2>5 DEF Repeating
    <3>2. g \in applies'
      BY <1>1, <3>1 DEF SameSenders
    <3> QED
      BY <2>5, <3>1, <3>2 DEF Repeating
  <2> QED
    BY <2>1, <2>2, <2>3, <2>4, <2>5
<1>3. OneSender'
  BY DEF ApplyInv, OneSender, SameSenders
<1>4. CollectedAgreed'
  <2> SUFFICES ASSUME "swapped" \notin windows', NEW g \in applies', NEW n \in DOMAIN g.msgs
               PROVE  g.msgs[n].command = AgreedLog[g.msgs[n].index].Command
    BY DEF CollectedAgreed
  <2>1. ~Silent(g)
    BY SMTT(30) DEF Silent
  <2> QED
    BY <2>1 DEF ApplyInv, CollectedAgreed, SameSenders
<1> QED
  BY <1>2, <1>3, <1>4

(* Such a step keeps all within commitIndex when that does not fall. *)
LEMMA QuietCommit ==
    ASSUME ApplyInv, windows = {}, status' = "running",
           rf' \in Sound, Len(rf'.logs) > 0, rf'.commitIndex <= LastLogicalIndex(rf'),
           rf.commitIndex <= rf'.commitIndex, snapshots' \subseteq snapshots,
           service'.lastApplied = service.lastApplied, service'.taking \in {service.taking, 0},
           SameSenders
    PROVE  CommitInv'
<1>1. /\ rf.commitIndex \in Int /\ rf'.commitIndex \in Int /\ service.lastApplied \in Nat
      /\ service.taking \in Nat /\ \A index \in snapshots : index \in Nat
      /\ \A g \in applies : \A n \in 1..Len(g.msgs) : g.msgs[n].index \in Nat
  <2>1. /\ rf.commitIndex \in Int /\ service.lastApplied \in Nat /\ service.taking \in Nat
        /\ snapshots \subseteq Indices
    BY Types DEF ApplyInv
  <2>2. rf'.commitIndex \in Int
    BY SoundFields
  <2>3. \A index \in snapshots : index \in Nat
    BY <2>1, Constants
  <2>4. \A g \in applies : \A n \in 1..Len(g.msgs) : g.msgs[n].index \in Nat
    BY SenderFields, Messages DEF ApplyInv
  <2> QED
    BY <2>1, <2>2, <2>3, <2>4
<1>2. /\ service.lastApplied <= rf.commitIndex /\ service.taking <= rf.commitIndex
      /\ \A g \in applies : \A n \in 1..Len(g.msgs) : g.msgs[n].index <= rf.commitIndex
      /\ \A index \in snapshots : index <= rf.commitIndex
  BY DEF ApplyInv, CommitInv
<1>3. service'.lastApplied <= rf'.commitIndex /\ service'.taking <= rf'.commitIndex
  BY <1>1, <1>2, SMTT(30)
<1>4. \A index \in snapshots' : index <= rf'.commitIndex
  <2>1. \A index \in snapshots : index <= rf'.commitIndex
    BY <1>1, <1>2, SMTT(30)
  <2> QED
    BY <2>1
<1>5. ASSUME NEW g \in applies', NEW n \in 1..Len(g.msgs) PROVE g.msgs[n].index <= rf'.commitIndex
  <2>1. CASE g \in applies
    <3>1. g.msgs[n].index \in Nat /\ g.msgs[n].index <= rf.commitIndex
      BY <1>1, <1>2, <2>1
    <3> QED
      BY <1>1, <3>1, SMTT(30)
  <2>2. CASE Silent(g)
    BY <2>2, SMTT(30) DEF Silent
  <2> QED
    BY <2>1, <2>2 DEF SameSenders
<1> QED
  BY <1>3, <1>4, <1>5 DEF CommitInv

-----------------------------------------------------------------------------
(* The invariant holds at first and every step keeps it. *)

(* Make, on an empty persister (raft.go:951) *)
LEMMA InitInv == Init => ApplyInv
<1> SUFFICES ASSUME Init PROVE ApplyInv
  OBVIOUS
<1>1. /\ rf = Make /\ applies = {} /\ snapshots = {}
      /\ service = [lastApplied |-> 0, taking |-> 0] /\ status = "running"
      /\ appends = 0 /\ installs = 0 /\ restarts = 0 /\ orphans = {} /\ windows = {}
  BY DEF Init
<1>2. /\ rf.lastApplied = 0 /\ rf.commitIndex = 0 /\ rf.lastIncludedIndex = 0
      /\ rf.lastIncludedTerm = 0 /\ rf.currentTerm = 0 /\ Len(rf.logs) = 1
  BY <1>1 DEF Make
<1>3. rf \in Peer
  <2>1. [Term |-> 0, Command |-> Nil] \in LogEntry
    BY DEF LogEntry
  <2>2. <<[Term |-> 0, Command |-> Nil]>> \in Seq(LogEntry)
    BY <2>1, SMTT(30)
  <2> QED
    BY <1>1, <2>2, SMTT(30) DEF Make, Peer, Role
<1>4. rf \in Sound
  BY <1>2, <1>3, Constants, SMTT(30) DEF Sound
<1>5. TypeInv
  <2>1. /\ 0 \in 0..MaxAppends /\ 0 \in 0..MaxInstalls /\ 0 \in 0..MaxRestarts /\ 0 \in Nat
    BY ApplyAssumption, SMTT(30)
  <2> QED
    BY <1>1, <1>3, <1>4, <2>1 DEF TypeInv
<1>6. LogInv
  BY <1>2, Constants, SMTT(30) DEF LogInv, Agrees, LastStorageIndex
<1>7. CollectedAgreed /\ OneSender
  BY <1>1 DEF CollectedAgreed, OneSender
<1>8. StepInv
  <2>1. service.lastApplied = 0
    BY <1>1
  <2>2. Waiting
    BY <1>1, <1>2, <2>1 DEF Waiting
  <2> QED
    BY <2>2 DEF StepInv
<1>9. CommitInv
  BY <1>1, <1>2, SMTT(30) DEF CommitInv, LastLogicalIndex
<1> QED
  BY <1>5, <1>6, <1>7, <1>8, <1>9 DEF ApplyInv

(* The AppendEntries handler (raft.go:471): what it starts has nothing to  *)
(* send yet.                                                               *)
LEMMA AppendInv ==
    ASSUME ApplyInv, NEW prev \in Indices \cup {0}, NEW last \in Indices \cup {0},
           NEW commit \in Indices \cup {0}, ReceiveAppend(prev, last, commit)
    PROVE  ApplyInv'
<1> DEFINE args == AppendArgs(prev, last, commit)
           new == AppendEntries(rf, args)
           gap == {w \in {"cutBack"} : \/ prev < rf.lastIncludedIndex
                                       \/ LastLogicalIndex(new) < new.commitIndex}
<1>1. /\ status = "running" /\ appends < MaxAppends /\ prev <= last /\ commit <= last
      /\ appends' = appends + 1 /\ windows' = windows \cup gap
      /\ snapshots' = snapshots /\ service' = service /\ installs' = installs
      /\ restarts' = restarts /\ orphans' = orphans
  BY DEF ReceiveAppend, Through, restartVars
<1>2. TypeInv /\ LogInv /\ CommitInv
  BY DEF ApplyInv
<1>3. appends' \in 0..MaxAppends /\ appends + 1 \in 1..MaxAppends
  BY <1>1, <1>2, Types, ApplyAssumption, SMTT(30)
<1>4. windows' \subseteq Window /\ windows \subseteq windows'
  BY <1>1, <1>2, Types DEF Window
<1>5. CASE AppendEntriesPanics(rf, args)
  <2>1. status' = "panic" /\ rf' = rf /\ applies' = applies
    BY <1>5 DEF ReceiveAppend
  <2>2. TypeInv'
    BY <1>1, <1>2, <1>3, <1>4, <2>1, Types, TypesPrime
  <2>3. LogInv'
    BY <1>2, <1>4, <2>1 DEF LogInv
  <2>4. SameSenders
    BY <2>1 DEF SameSenders
  <2>5. StepInv' /\ OneSender' /\ CollectedAgreed'
    BY <1>1, <1>4, <2>1, <2>4, QuietStep
  <2>6. windows' # {}
    <3>1. prev < rf.lastIncludedIndex
      <4>1. rf.lastIncludedIndex \in Nat /\ prev \in Nat /\ args.PrevLogIndex = prev
        BY <1>2, Types, Constants DEF AppendArgs
      <4> QED
        BY <1>5, <4>1, SMTT(30) DEF AppendEntriesPanics, StorageIndex
    <3> HIDE DEF new, args
    <3> QED
      BY <1>1, <3>1
  <2> QED
    BY <2>2, <2>3, <2>5, <2>6 DEF ApplyInv, CommitInv
<1>6. CASE ~AppendEntriesPanics(rf, args)
  <2>1. /\ rf' = new /\ status' = status
        /\ applies' = IF Commits(rf, new) THEN applies \cup GoApplyLogs(appends + 1) ELSE applies
    BY <1>6 DEF ReceiveAppend
  <2>2. /\ rf' \in Sound /\ rf'.commitIndex >= rf.commitIndex
        /\ rf'.lastApplied = rf.lastApplied
        /\ Agrees(rf) => Agrees(rf')
        /\ prev >= rf.lastIncludedIndex /\ Len(rf.logs) > 0 => Len(rf'.logs) > 0
    <3>1. rf \in Sound
      BY <1>2, Types
    <3> QED
      BY <1>1, <1>6, <2>1, <3>1, AppendStep
  <2> HIDE DEF args
  <2>3. \A g \in GoApplyLogs(appends + 1) :
            g \in Goroutine /\ Silent(g) /\ SenderOK(g)
    <3> DEFINE g == [id |-> appends + 1, pc |-> "spawned", msgs |-> <<>>, args |-> <<>>]
    <3>1. g \in Goroutine
      BY <1>3, SMTT(30) DEF Goroutine
    <3>2. Silent(g) /\ g.pc = "spawned" /\ Consecutive(g.msgs)
      BY SMTT(30) DEF Silent, Consecutive
    <3>3. SenderOK(g)
      BY <3>2 DEF SenderOK
    <3> HIDE DEF g
    <3>4. GoApplyLogs(appends + 1) = {g}
      BY DEF GoApplyLogs, g
    <3> QED
      BY <3>1, <3>2, <3>3, <3>4
  <2>4. TypeInv'
    <3>1. applies' \subseteq Goroutine /\ \A g \in applies' : SenderOK(g)
      BY <1>2, <2>1, <2>3, Types
    <3> QED
      BY <1>1, <1>2, <1>3, <1>4, <2>1, <2>2, <3>1, Types, TypesPrime
  <2>5. LogInv'
    BY <1>2, <1>4, <2>2 DEF LogInv
  <2>6. SameSenders
    BY <2>1, <2>3 DEF SameSenders
  <2>7. StepInv' /\ OneSender' /\ CollectedAgreed'
    BY <1>1, <1>4, <2>2, <2>6, QuietStep
  <2>8. CommitInv'
    <3> SUFFICES ASSUME windows' = {} PROVE CommitInv'
      BY DEF CommitInv
    <3>1. ~(prev < rf.lastIncludedIndex) /\ ~(LastLogicalIndex(new) < new.commitIndex)
      BY <1>1
    <3>2. /\ prev >= rf.lastIncludedIndex /\ rf'.commitIndex <= LastLogicalIndex(rf')
          /\ rf.commitIndex <= rf'.commitIndex
      <4> HIDE DEF new
      <4>1. rf.lastIncludedIndex \in Nat /\ prev \in Nat /\ rf.commitIndex \in Int
        BY <1>2, Types, Constants
      <4>2. rf'.commitIndex \in Int /\ LastLogicalIndex(rf') \in Int
        BY <2>2, SoundFields
      <4>3. prev >= rf.lastIncludedIndex /\ rf.commitIndex <= rf'.commitIndex
        BY <2>2, <3>1, <4>1, <4>2, SMTT(30)
      <4>4. rf'.commitIndex <= LastLogicalIndex(rf')
        BY <2>1, <3>1, <4>2, SMTT(30)
      <4> QED
        BY <4>3, <4>4
    <3>3. windows = {} /\ Len(rf.logs) > 0
      BY <1>1, <1>2 DEF CommitInv
    <3> QED
      BY <1>1, <2>1, <2>2, <2>6, <3>2, <3>3, QuietCommit
  <2> QED
    BY <2>4, <2>5, <2>7, <2>8 DEF ApplyInv
<1> QED
  BY <1>5, <1>6

(* The InstallSnapshot handler (raft.go:732): when nothing is on its way   *)
(* the service is where Raft is, behind the snapshot.                      *)
LEMMA InstallInv ==
    ASSUME ApplyInv, NEW index \in Indices, ReceiveSnapshot(index)
    PROVE  ApplyInv'
<1> DEFINE args == [Term |-> LeaderTerm, LeaderId |-> Leader,
                    LastIncludedIndex |-> index, LastIncludedTerm |-> AgreedTerm(index)]
           installed == ~DiscardsSnapshot(rf, args)
<1>1. /\ status = "running" /\ installs < MaxInstalls /\ installs' = installs + 1
      /\ rf' = InstallSnapshot(rf, args)
      /\ snapshots' = IF installed THEN snapshots \cup {index} ELSE snapshots
      /\ windows' = windows \cup {w \in {"overtake"} : installed /\ Busy}
      /\ applies' = applies /\ service' = service /\ status' = status
      /\ appends' = appends /\ restarts' = restarts /\ orphans' = orphans
  BY DEF ReceiveSnapshot, Through, restartVars
<1>2. TypeInv /\ LogInv /\ CommitInv
  BY DEF ApplyInv
<1>3. /\ rf' \in Sound
      /\ Agrees(rf) => Agrees(rf')
      /\ ~installed => SameLog(rf, rf')
      /\ installed =>
            /\ rf'.lastApplied = index /\ rf.lastApplied < index
            /\ rf'.commitIndex >= rf.commitIndex /\ rf'.commitIndex >= index
            /\ Len(rf'.logs) > 0
            /\ rf.commitIndex <= LastLogicalIndex(rf) =>
                    rf'.commitIndex <= LastLogicalIndex(rf')
  <2>1. rf \in Sound
    BY <1>2, Types
  <2> QED
    BY <1>1, <2>1, InstallStep
<1> HIDE DEF installed
<1>4. installs' \in 0..MaxInstalls
  BY <1>1, <1>2, Types, ApplyAssumption, SMTT(30)
<1>5. windows' \subseteq Window /\ windows \subseteq windows' /\ snapshots' \subseteq Indices
  BY <1>1, <1>2, Types DEF Window
<1>6. TypeInv'
  BY <1>1, <1>2, <1>3, <1>4, <1>5, Types, TypesPrime
<1>7. LogInv'
  BY <1>2, <1>3, <1>5 DEF LogInv
<1>8. SameSenders
  BY <1>1 DEF SameSenders
<1>9. OneSender' /\ CollectedAgreed'
  BY <1>1, <1>5 DEF ApplyInv, OneSender, CollectedAgreed
<1>10. CASE ~installed
  <2>1. StepInv'
    BY <1>1, <1>3, <1>5, <1>8, <1>10, QuietStep DEF SameLog
  <2>2. CommitInv'
    <3> SUFFICES ASSUME windows' = {} PROVE CommitInv'
      BY DEF CommitInv
    <3>1. /\ windows = {} /\ Len(rf.logs) > 0 /\ rf.commitIndex <= LastLogicalIndex(rf)
          /\ service.taking \in {service.taking, 0}
      BY <1>1, <1>2 DEF CommitInv
    <3>2. LastLogicalIndex(rf') = LastLogicalIndex(rf) /\ rf'.commitIndex = rf.commitIndex
          /\ rf'.logs = rf.logs
      BY <1>3, <1>10, AgreesSame DEF SameLog
    <3>3. rf.commitIndex <= rf'.commitIndex
      <4>1. rf.commitIndex \in Int
        BY <1>2, Types
      <4> QED
        BY <3>2, <4>1, SMTT(30)
    <3> QED
      BY <1>1, <1>3, <1>8, <1>10, <3>1, <3>2, <3>3, QuietCommit
  <2> QED
    BY <1>6, <1>7, <1>9, <2>1, <2>2 DEF ApplyInv
<1>11. CASE installed
  <2>1. StepInv'
    <3> SUFFICES ASSUME windows' \cap {"overtake", "swapped", "orphan"} = {} PROVE Delivering'
      BY DEF StepInv
    <3>1. snapshots = {} /\ \A g \in applies : Silent(g)
      BY <1>1, <1>11 DEF Busy, Silent
    <3>2. Delivering \/ Waiting \/ Received \/ Repeating
      BY <1>1, <1>5 DEF ApplyInv, StepInv
    <3>3. \A g \in applies : g.pc \notin {"sending", "sent"}
      BY <1>2, <3>1, SenderFields
    <3>4. Waiting
      BY <3>1, <3>2, <3>3 DEF Delivering, Received, Repeating
    <3>5. service'.lastApplied < index /\ snapshots' = {index}
      BY <1>1, <1>3, <1>11, <3>1, <3>4 DEF Waiting
    <3> QED
      BY <1>1, <1>3, <1>11, <3>1, <3>5 DEF Delivering
  <2>2. CommitInv'
    <3> SUFFICES ASSUME windows' = {} PROVE CommitInv'
      BY DEF CommitInv
    <3>1. /\ windows = {} /\ rf.commitIndex <= LastLogicalIndex(rf)
          /\ service.lastApplied <= rf.commitIndex /\ service.taking <= rf.commitIndex
          /\ \A n \in snapshots : n <= rf.commitIndex
          /\ \A g \in applies : \A n \in 1..Len(g.msgs) : g.msgs[n].index <= rf.commitIndex
      BY <1>1, <1>2 DEF CommitInv
    <3>2. /\ rf.commitIndex \in Int /\ rf'.commitIndex \in Int /\ service.lastApplied \in Nat
          /\ service.taking \in Nat /\ rf'.commitIndex >= rf.commitIndex
          /\ rf'.commitIndex >= index /\ index \in Nat
      BY <1>2, <1>3, <1>11, Types, SoundFields, Constants
    <3>3. \A n \in Nat : n <= rf.commitIndex => n <= rf'.commitIndex
      BY <3>2, SMTT(30)
    <3>4. index <= rf'.commitIndex
      BY <3>2
    <3>5. /\ \A n \in snapshots : n \in Nat
          /\ \A g \in applies : \A n \in 1..Len(g.msgs) : g.msgs[n].index \in Nat
      BY <1>2, Types, Constants, SenderFields, Messages
    <3> QED
      BY <1>1, <1>3, <1>11, <3>1, <3>2, <3>3, <3>4, <3>5 DEF CommitInv
  <2> QED
    BY <1>6, <1>7, <1>9, <2>1, <2>2 DEF ApplyInv
<1> QED
  BY <1>10, <1>11

(* A goroutine that moves on is the only one that changes. *)
LEMMA BecomesTypes ==
    ASSUME TypeInv, NEW g \in applies, NEW h \in Goroutine, SenderOK(h), Becomes(g, h)
    PROVE  /\ applies' \subseteq Goroutine
           /\ \A x \in applies' : SenderOK(x)
           /\ \A x \in applies' : x = h \/ (x \in applies /\ x # g)
           /\ \A x \in applies : x = g \/ x \in applies'
           /\ h \in applies'
BY Types DEF Becomes

(* applyLogs, its first critical section, when there is nothing to collect *)
(* (raft.go:416)                                                           *)
LEMMA NothingCollectedInv ==
    ASSUME ApplyInv, NEW g \in applies, applyLogs(g),
           ~(/\ rf.lastApplied >= rf.lastIncludedIndex /\ ~CollectPanics(rf)
             /\ rf.lastApplied < rf.commitIndex)
    PROVE  ApplyInv'
<1>1. /\ status = "running" /\ g.pc = "spawned"
      /\ rf' = rf /\ snapshots' = snapshots /\ service' = service /\ appends' = appends
      /\ installs' = installs /\ restarts' = restarts /\ orphans' = orphans
  BY DEF applyLogs, restartVars
<1>2. TypeInv /\ LogInv /\ CommitInv
  BY DEF ApplyInv
<1>3. g \in Goroutine /\ Silent(g) /\ SenderOK(g)
  BY <1>1, <1>2, SenderFields
<1>4. /\ rf.lastApplied \in Int /\ rf.commitIndex \in Int /\ rf.lastIncludedIndex \in Nat
      /\ LastLogicalIndex(rf) \in Int /\ rf \in Sound /\ windows \subseteq Window
  BY <1>2, Types
<1>5. /\ windows' = windows /\ status' \in {"running", "panic"} /\ SameSenders
      /\ applies' \subseteq Goroutine
      /\ \A x \in applies' : SenderOK(x)
      /\ windows = {} => status' = "running"
  <2>1. CASE rf.lastApplied < rf.lastIncludedIndex
    <3> DEFINE h == [g EXCEPT !.pc = "install"]
    <3>1. Becomes(g, h) /\ status' = status /\ windows' = windows
      <4>1. ~(rf.lastApplied >= rf.lastIncludedIndex)
        BY <1>4, <2>1, SMTT(30)
      <4> QED
        BY <2>1, <4>1 DEF applyLogs
    <3>2. h \in Goroutine /\ h.msgs = g.msgs /\ h.pc = "install"
      BY <1>3 DEF Goroutine
    <3> HIDE DEF h
    <3>3. Silent(h) /\ SenderOK(h)
      BY <1>3, <3>2 DEF Silent, SenderOK
    <3>4. /\ applies' \subseteq Goroutine
          /\ \A x \in applies' : SenderOK(x)
          /\ \A x \in applies' : x = h \/ x \in applies
          /\ \A x \in applies : x = g \/ x \in applies'
      BY <1>2, <3>1, <3>2, <3>3, BecomesTypes
    <3> QED
      BY <1>1, <1>3, <3>1, <3>3, <3>4 DEF SameSenders
  <2>2. CASE rf.lastApplied >= rf.lastIncludedIndex /\ CollectPanics(rf)
    <3>1. status' = "panic" /\ applies' = applies /\ windows' = windows
      BY <1>4, <2>2, SMTT(30) DEF applyLogs
    <3>2. windows # {}
      <4>1. rf.commitIndex > LastLogicalIndex(rf)
        BY <2>2 DEF CollectPanics
      <4>2. ~(rf.commitIndex <= LastLogicalIndex(rf))
        BY <1>4, <4>1, SMTT(30)
      <4> QED
        BY <1>2, <4>2 DEF CommitInv
    <3> QED
      BY <1>2, <3>1, <3>2, Types DEF SameSenders
  <2>3. CASE rf.lastApplied >= rf.lastIncludedIndex /\ ~CollectPanics(rf)
    <3>1. rf.commitIndex <= rf.lastApplied
      BY <1>4, <2>3, SMTT(30)
    <3>2. applies' = applies \ {g} /\ status' = status /\ windows' = windows
      <4>1. ~(rf.lastApplied < rf.lastIncludedIndex)
        BY <1>4, <2>3, SMTT(30)
      <4> QED
        BY <2>3, <3>1, <4>1 DEF applyLogs, Through
    <3> QED
      BY <1>1, <1>2, <1>3, <3>2, Types DEF SameSenders
  <2> QED
    BY <1>4, <2>1, <2>2, <2>3, SMTT(30)
<1>6. TypeInv'
  BY <1>1, <1>2, <1>5, Types, TypesPrime
<1>7. LogInv'
  BY <1>1, <1>2, <1>5 DEF LogInv
<1>8. StepInv' /\ OneSender' /\ CollectedAgreed'
  BY <1>1, <1>5, QuietStep
<1>9. CommitInv'
  <2> SUFFICES ASSUME windows' = {} PROVE CommitInv'
    BY DEF CommitInv
  <2>1. windows = {} /\ Len(rf.logs) > 0 /\ rf.commitIndex <= LastLogicalIndex(rf)
    BY <1>2, <1>5 DEF CommitInv
  <2>2. rf.commitIndex <= rf.commitIndex
    BY <1>4, SMTT(30)
  <2> QED
    BY <1>1, <1>4, <1>5, <2>1, <2>2, QuietCommit
<1> QED
  BY <1>6, <1>7, <1>8, <1>9 DEF ApplyInv

(* applyLogs, when it collects commands: another goroutine that has some   *)
(* as well makes this an overlap, and a snapshot on its way an overtaking. *)
LEMMA CollectedInv ==
    ASSUME ApplyInv, NEW g \in applies, applyLogs(g),
           rf.lastApplied >= rf.lastIncludedIndex, ~CollectPanics(rf),
           rf.lastApplied < rf.commitIndex
    PROVE  ApplyInv'
<1> DEFINE msgs == Collected(rf)
           h == [g EXCEPT !.pc = "sending", !.msgs = msgs]
<1>1. /\ status = "running" /\ g.pc = "spawned"
      /\ rf' = rf /\ snapshots' = snapshots /\ service' = service /\ appends' = appends
      /\ installs' = installs /\ restarts' = restarts /\ orphans' = orphans
  BY DEF applyLogs, restartVars
<1>2. TypeInv /\ LogInv /\ CommitInv /\ StepInv /\ OneSender /\ CollectedAgreed
  BY DEF ApplyInv
<1>3. g \in Goroutine /\ Silent(g) /\ SenderOK(g)
  BY <1>1, <1>2, SenderFields
<1>4. /\ rf.lastApplied \in Int /\ rf.commitIndex \in Int /\ rf.lastIncludedIndex \in Nat
      /\ LastLogicalIndex(rf) \in Int /\ rf \in Sound /\ windows \subseteq Window
  BY <1>2, Types
<1>5. /\ Becomes(g, h) /\ status' = status
      /\ windows' = windows \cup {w \in {"overlap"} : \E x \in applies : x.msgs # <<>>}
                            \cup {w \in {"overtake"} : snapshots # {}}
  <2>1. ~(rf.lastApplied < rf.lastIncludedIndex) /\ ~(rf.commitIndex <= rf.lastApplied)
    BY <1>4, SMTT(30)
  <2> HIDE DEF msgs, h
  <2>2. /\ Becomes(g, [g EXCEPT !.pc = "sending", !.msgs = Collected(rf)]) /\ UNCHANGED status
        /\ Through({w \in {"overlap"} : \E x \in applies : x.msgs # <<>>}
                    \cup {w \in {"overtake"} : snapshots # {}})
    BY <2>1 DEF applyLogs
  <2> QED
    BY <2>2 DEF Through, msgs, h
<1>6. /\ msgs \in Seq(ApplyMsg) /\ Len(msgs) > 0
      /\ msgs[1].index = rf.lastApplied + 1 /\ Consecutive(msgs)
      /\ \A n \in 1..Len(msgs) : msgs[n].index <= rf.commitIndex
      /\ Agrees(rf) => \A n \in 1..Len(msgs) :
                          msgs[n].command = AgreedLog[msgs[n].index].Command
  BY <1>4, CollectedStep
<1> HIDE DEF msgs
<1>7. h \in Goroutine /\ h.msgs = msgs /\ h.pc = "sending"
  BY <1>3, <1>6 DEF Goroutine
<1> HIDE DEF h
<1>8. ~Silent(h) /\ SenderOK(h)
  <2>1. msgs # <<>>
    BY <1>6, SMTT(30)
  <2> QED
    BY <1>6, <1>7, <2>1 DEF Silent, SenderOK
<1>9. /\ applies' \subseteq Goroutine
      /\ \A x \in applies' : SenderOK(x)
      /\ \A x \in applies' : x = h \/ (x \in applies /\ x # g)
      /\ \A x \in applies : x = g \/ x \in applies'
      /\ h \in applies'
  BY <1>2, <1>5, <1>7, <1>8, BecomesTypes
<1>10. windows' \subseteq Window /\ windows \subseteq windows'
  BY <1>4, <1>5 DEF Window
<1>11. TypeInv'
  BY <1>1, <1>2, <1>5, <1>9, <1>10, Types, TypesPrime
<1>12. LogInv'
  BY <1>1, <1>2, <1>10 DEF LogInv
<1>13. CollectedAgreed'
  <2> SUFFICES ASSUME "swapped" \notin windows', NEW x \in applies', NEW n \in DOMAIN x.msgs
               PROVE  x.msgs[n].command = AgreedLog[x.msgs[n].index].Command
    BY DEF CollectedAgreed
  <2>1. CASE x = h
    BY <1>2, <1>6, <1>7, <1>10, <2>1, Messages DEF LogInv
  <2>2. CASE x \in applies
    BY <1>2, <1>10, <2>2 DEF CollectedAgreed
  <2> QED
    BY <1>9, <2>1, <2>2
<1>14. OneSender'
  <2> SUFFICES ASSUME "overlap" \notin windows', NEW x \in applies', NEW y \in applies'
               PROVE  Silent(x) \/ Silent(y) \/ x = y
    BY DEF OneSender
  <2>1. \A z \in applies : Silent(z)
    BY <1>5 DEF Silent
  <2> QED
    BY <1>9, <2>1
<1>15. StepInv'
  <2> SUFFICES ASSUME windows' \cap {"overtake", "swapped", "orphan"} = {}
               PROVE  (Delivering \/ Waiting \/ Received \/ Repeating)'
    BY DEF StepInv
  <2>1. snapshots = {}
    BY <1>5
  <2>2. Waiting \/ Received \/ Repeating
    BY <1>1, <1>2, <1>10, <2>1 DEF StepInv, Delivering
  <2>3. CASE Waiting
    <3>1. h.pc = "sending" /\ h.msgs[1].index = service.lastApplied + 1
      BY <1>6, <1>7, <2>3 DEF Waiting
    <3>2. Waiting'
      BY <1>1, <1>9, <2>3, <3>1 DEF Waiting
    <3> QED
      BY <3>2
  <2>4. CASE Received
    <3>1. "overlap" \in windows'
      <4>1. PICK x \in applies : x.pc = "sent"
        BY <2>4 DEF Received
      <4>2. x.msgs # <<>>
        BY <1>2, <4>1, SenderFields DEF Silent
      <4> QED
        BY <1>5, <4>2
    <3>2. h.msgs[1].index <= service.lastApplied
      <4>1. rf.lastApplied = service.lastApplied - 1 /\ service.lastApplied \in Nat
        BY <1>2, <2>4, Types DEF Received
      <4> QED
        BY <1>6, <1>7, <4>1, SMTT(30)
    <3>3. Repeating'
      BY <1>1, <1>7, <1>9, <2>1, <3>1, <3>2 DEF Repeating
    <3> QED
      BY <3>3
  <2>5. CASE Repeating
    <3>1. PICK x \in applies : x.pc = "sending" /\ x.msgs[1].index <= service.lastApplied
      BY <2>5 DEF Repeating
    <3>2. x \in applies'
      BY <1>1, <1>9, <3>1
    <3>3. Repeating'
      BY <1>1, <1>10, <2>5, <3>1, <3>2 DEF Repeating
    <3> QED
      BY <3>3
  <2> QED
    BY <2>2, <2>3, <2>4, <2>5
<1>16. CommitInv'
  <2> SUFFICES ASSUME windows' = {} PROVE CommitInv'
    BY DEF CommitInv
  <2>1. windows = {}
    BY <1>10
  <2>2. \A x \in applies' : \A n \in 1..Len(x.msgs) : x.msgs[n].index <= rf.commitIndex
    BY <1>2, <1>6, <1>7, <1>9, <2>1 DEF CommitInv
  <2> QED
    BY <1>1, <1>2, <1>5, <2>1, <2>2 DEF CommitInv
<1> QED
  BY <1>11, <1>12, <1>13, <1>14, <1>15, <1>16 DEF ApplyInv

(* applyCh <- msg and the applier (raft.go:438, config.go:212): the        *)
(* service waits for this command, or another applyLogs has sent it.       *)
LEMMA SendInv == ASSUME ApplyInv, NEW g \in applies, SendCommand(g) PROVE ApplyInv'
<1> DEFINE h == [g EXCEPT !.pc = "sent"]
           i == g.msgs[1].index
<1>1. /\ status = "running" /\ g.pc = "sending" /\ Becomes(g, h)
      /\ service' = [lastApplied |-> Head(g.msgs).index,
                     taking |-> IF (Head(g.msgs).index + 1) % SnapShotInterval = 0
                                THEN Head(g.msgs).index ELSE 0]
      /\ status' = IF ChecksOut(Head(g.msgs)) THEN status ELSE "apply error"
      /\ rf' = rf /\ snapshots' = snapshots /\ appends' = appends
      /\ installs' = installs /\ restarts' = restarts /\ orphans' = orphans /\ windows' = windows
  BY DEF SendCommand, restartVars
<1>2. TypeInv /\ LogInv /\ CommitInv /\ StepInv /\ OneSender /\ CollectedAgreed
  BY DEF ApplyInv
<1>3. /\ g \in Goroutine /\ ~Silent(g) /\ SenderOK(g) /\ 1 \in 1..Len(g.msgs)
      /\ Head(g.msgs) = g.msgs[1] /\ i \in Indices /\ i \in Nat
  BY <1>1, <1>2, SenderFields
<1>4. /\ service.lastApplied \in Nat /\ rf.lastApplied \in Int /\ rf.commitIndex \in Int
  BY <1>2, Types
<1>5. service'.lastApplied = i /\ service'.taking \in {i, 0}
  BY <1>1, <1>3
<1>6. service' \in [lastApplied : Nat, taking : Indices \cup {0}]
  <2> DEFINE t == IF (Head(g.msgs).index + 1) % SnapShotInterval = 0 THEN Head(g.msgs).index ELSE 0
  <2>1. t \in Indices \cup {0}
    BY <1>3
  <2> HIDE DEF t
  <2>2. service' = [lastApplied |-> i, taking |-> t]
    BY <1>1, <1>3 DEF t
  <2> QED
    BY <1>3, <2>1, <2>2
<1>7. h \in Goroutine /\ h.msgs = g.msgs /\ h.pc = "sent"
  BY <1>3 DEF Goroutine
<1> HIDE DEF h
<1>8. ~Silent(h) /\ SenderOK(h)
  BY <1>3, <1>7 DEF Silent, SenderOK
<1>9. /\ applies' \subseteq Goroutine
      /\ \A x \in applies' : SenderOK(x)
      /\ \A x \in applies' : x = h \/ (x \in applies /\ x # g)
      /\ \A x \in applies : x = g \/ x \in applies'
      /\ h \in applies'
  BY <1>1, <1>2, <1>7, <1>8, BecomesTypes
<1>10. TypeInv'
  BY <1>1, <1>2, <1>6, <1>9, Types, TypesPrime
<1>11. LogInv'
  BY <1>1, <1>2 DEF LogInv
<1>12. CollectedAgreed'
  BY <1>1, <1>2, <1>7, <1>9 DEF CollectedAgreed
<1>13. OneSender'
  BY <1>1, <1>2, <1>3, <1>9 DEF OneSender
<1>14. ASSUME windows \cap {"overtake", "swapped", "orphan"} = {} PROVE Waiting \/ Repeating
  BY <1>1, <1>2, <1>3, <1>14 DEF StepInv, Delivering, Received
<1>15. StepInv'
  <2> SUFFICES ASSUME status' = "running", windows \cap {"overtake", "swapped", "orphan"} = {}
               PROVE  (Delivering \/ Waiting \/ Received \/ Repeating)'
    BY <1>1 DEF StepInv
  <2>1. i = service.lastApplied + 1
    <3>1. ChecksOut(g.msgs[1])
      BY <1>1, <1>3
    <3> QED
      BY <3>1 DEF ChecksOut
  <2>2. CASE Waiting
    <3>1. CASE \A x \in applies : x # g => Silent(x)
      <4>1. rf.lastApplied = service'.lastApplied - 1
        <5>1. rf.lastApplied = service.lastApplied /\ service'.lastApplied = service.lastApplied + 1
          BY <1>5, <2>1, <2>2 DEF Waiting
        <5> QED
          BY <1>4, <5>1, SMTT(30)
      <4>2. /\ h.pc = "sent" /\ h.msgs[1].index = service'.lastApplied
            /\ \A x \in applies' \ {h} : Silent(x)
        BY <1>5, <1>7, <1>9, <3>1
      <4>3. Received'
        BY <1>1, <1>9, <2>2, <4>1, <4>2 DEF Received, Waiting
      <4> QED
        BY <4>3
    <3>2. ASSUME NEW x \in applies, x # g, ~Silent(x) PROVE Repeating'
      <4>1. "overlap" \in windows
        BY <1>2, <1>3, <3>2 DEF OneSender
      <4>2. x.pc = "sending" /\ x.msgs[1].index = service'.lastApplied /\ x \in applies'
        BY <1>5, <1>9, <2>1, <2>2, <3>2 DEF Waiting
      <4>3. x.msgs[1].index <= service'.lastApplied
        BY <1>3, <1>5, <4>2, SMTT(30)
      <4> QED
        BY <1>1, <2>2, <4>1, <4>2, <4>3 DEF Repeating, Waiting
    <3> QED
      BY <3>1, <3>2
  <2>3. CASE Repeating
    <3>1. PICK x \in applies : x.pc = "sending" /\ x.msgs[1].index <= service.lastApplied
      BY <2>3 DEF Repeating
    <3>2. x.msgs[1].index \in Nat
      BY <1>2, <3>1, SenderFields
    <3>3. x # g /\ x.msgs[1].index <= service'.lastApplied
      BY <1>4, <1>5, <2>1, <3>1, <3>2, SMTT(30)
    <3>4. Repeating'
      BY <1>1, <1>9, <2>3, <3>1, <3>3 DEF Repeating
    <3> QED
      BY <3>4
  <2> QED
    BY <1>14, <2>2, <2>3
<1>16. CommitInv'
  <2> SUFFICES ASSUME windows = {} PROVE CommitInv'
    BY <1>1 DEF CommitInv
  <2>1. /\ Len(rf.logs) > 0 /\ rf.commitIndex <= LastLogicalIndex(rf)
        /\ service.lastApplied <= rf.commitIndex
        /\ \A x \in applies : \A n \in 1..Len(x.msgs) : x.msgs[n].index <= rf.commitIndex
        /\ \A index \in snapshots : index <= rf.commitIndex
    BY <1>2 DEF CommitInv
  <2>2. Waiting
    BY <1>14 DEF Repeating
  <2>3. ChecksOut(Head(g.msgs))
    <3>1. g.msgs[1].index = service.lastApplied + 1
      BY <1>1, <1>3, <2>2 DEF Waiting
    <3>2. 1 \in DOMAIN g.msgs
      BY <1>3, Messages DEF Goroutine
    <3>3. g.msgs[1].command = AgreedLog[g.msgs[1].index].Command
      BY <1>2, <3>2 DEF CollectedAgreed
    <3> QED
      BY <1>3, <3>1, <3>3 DEF ChecksOut
  <2>4. i <= rf.commitIndex /\ 0 <= rf.commitIndex
    <3>1. i <= rf.commitIndex
      BY <1>3, <2>1
    <3> QED
      BY <1>3, <1>4, <3>1, SMTT(30)
  <2>5. service'.lastApplied <= rf.commitIndex /\ service'.taking <= rf.commitIndex
    BY <1>5, <2>4
  <2>6. \A x \in applies' : \A n \in 1..Len(x.msgs) : x.msgs[n].index <= rf.commitIndex
    BY <1>7, <1>9, <2>1
  <2> QED
    BY <1>1, <2>1, <2>3, <2>5, <2>6 DEF CommitInv
<1> QED
  BY <1>10, <1>11, <1>12, <1>13, <1>15, <1>16 DEF ApplyInv

(* rf.lastApplied = msg.CommandIndex (raft.go:443) *)
LEMMA AppliedInv == ASSUME ApplyInv, NEW g \in applies, SetApplied(g) PROVE ApplyInv'
<1> DEFINE i == g.msgs[1].index
           rest == Tail(g.msgs)
           h == [g EXCEPT !.pc = "sending", !.msgs = rest]
           more == Len(g.msgs) # 1
<1>1. /\ status = "running" /\ g.pc = "sent"
      /\ rf' = [rf EXCEPT !.lastApplied = Head(g.msgs).index]
      /\ more => Becomes(g, h)
      /\ ~more => applies' = applies \ {g}
      /\ snapshots' = snapshots /\ service' = service /\ status' = status /\ appends' = appends
      /\ installs' = installs /\ restarts' = restarts /\ orphans' = orphans /\ windows' = windows
  BY DEF SetApplied, restartVars
<1>2. TypeInv /\ LogInv /\ CommitInv /\ StepInv /\ OneSender /\ CollectedAgreed
  BY DEF ApplyInv
<1>3. /\ g \in Goroutine /\ ~Silent(g) /\ SenderOK(g) /\ 1 \in 1..Len(g.msgs)
      /\ Head(g.msgs) = g.msgs[1] /\ i \in Indices /\ i \in Nat /\ g.msgs \in Seq(ApplyMsg)
      /\ Consecutive(g.msgs) /\ g.msgs # <<>>
  BY <1>1, <1>2, SenderFields DEF Silent
<1>4. /\ rf' \in Sound /\ rf'.lastApplied = i /\ rf'.commitIndex = rf.commitIndex
      /\ rf'.logs = rf.logs /\ rf'.lastIncludedIndex = rf.lastIncludedIndex
  <2>0. rf \in Sound /\ rf \in Peer
    BY <1>2, Types, SoundFields
  <2>1. i \in Int /\ rf \in Sound /\ rf \in Peer
    BY <1>3, <2>0, SMTT(30)
  <2>2. rf' = [rf EXCEPT !.lastApplied = i]
    BY <1>1, <1>3
  <2>3. /\ rf' \in Peer /\ rf'.lastApplied = i /\ rf'.commitIndex = rf.commitIndex
        /\ rf'.logs = rf.logs /\ rf'.lastIncludedIndex = rf.lastIncludedIndex
        /\ rf'.lastIncludedTerm = rf.lastIncludedTerm /\ rf'.currentTerm = rf.currentTerm
    BY <2>1, <2>2 DEF Peer
  <2> QED
    BY <2>1, <2>3 DEF Sound
<1>5. /\ rest \in Seq(ApplyMsg) /\ Len(rest) \in Nat /\ DOMAIN rest = 1..Len(rest)
      /\ \A n \in 1..Len(rest) : n + 1 \in 1..Len(g.msgs) /\ rest[n] = g.msgs[n + 1]
      /\ more => rest # <<>> /\ 1 \in 1..Len(rest)
  BY <1>3, Messages
<1> HIDE DEF rest
<1>6. ASSUME more
      PROVE  /\ h \in Goroutine /\ h.msgs = rest /\ h.pc = "sending" /\ ~Silent(h)
             /\ SenderOK(h) /\ rest[1].index = i + 1
  <2>1. h \in Goroutine /\ h.msgs = rest /\ h.pc = "sending"
    BY <1>3, <1>5 DEF Goroutine
  <2> HIDE DEF h
  <2>2. \A n \in 1..Len(rest) : rest[n].index \in Indices /\ rest[n].index = i + n
    <3> SUFFICES ASSUME NEW n \in 1..Len(rest)
                 PROVE  rest[n].index \in Indices /\ rest[n].index = i + n
      OBVIOUS
    <3>1. /\ n + 1 \in 1..Len(g.msgs) /\ rest[n] = g.msgs[n + 1]
          /\ g.msgs[n + 1].index \in Indices /\ g.msgs[n + 1].index = i + (n + 1) - 1
      BY <1>3, <1>5 DEF Consecutive
    <3>2. i + (n + 1) - 1 = i + n
      BY <1>3, <1>5, SMTT(30)
    <3> QED
      BY <3>1, <3>2
  <2>3. rest[1].index = i + 1
    BY <1>5, <1>6, <2>2
  <2>4. Consecutive(rest)
    <3>1. \A n \in 1..Len(rest) : i + n = i + 1 + n - 1
      <4> HIDE DEF i
      <4>1. i \in Nat
        BY <1>3
      <4> QED
        BY <4>1, SMTT(30)
    <3> QED
      BY <2>2, <2>3, <3>1 DEF Consecutive
  <2> QED
    BY <1>5, <1>6, <2>1, <2>3, <2>4 DEF SenderOK, Silent
<1> HIDE DEF h
<1>7. /\ applies' \subseteq Goroutine
      /\ \A x \in applies' : SenderOK(x)
      /\ \A x \in applies' : (more /\ x = h) \/ (x \in applies /\ x # g)
      /\ \A x \in applies : x = g \/ x \in applies'
  <2>1. CASE more
    BY <1>1, <1>2, <1>6, <2>1, BecomesTypes
  <2>2. CASE ~more
    BY <1>1, <1>2, <2>2, Types
  <2> QED
    BY <2>1, <2>2
<1>8. TypeInv'
  BY <1>1, <1>2, <1>4, <1>7, Types, TypesPrime
<1>9. LogInv'
  BY <1>1, <1>2, <1>4 DEF LogInv, Agrees, LastStorageIndex, Entry
<1>10. CollectedAgreed'
  <2> SUFFICES ASSUME "swapped" \notin windows, NEW x \in applies', NEW n \in DOMAIN x.msgs
               PROVE  x.msgs[n].command = AgreedLog[x.msgs[n].index].Command
    BY <1>1 DEF CollectedAgreed
  <2>1. CASE more /\ x = h
    <3>1. /\ n + 1 \in DOMAIN g.msgs /\ x.msgs[n] = g.msgs[n + 1]
      BY <1>3, <1>5, <1>6, <2>1, Messages
    <3> QED
      BY <1>2, <3>1 DEF CollectedAgreed
  <2>2. CASE x \in applies
    BY <1>2, <2>2 DEF CollectedAgreed
  <2> QED
    BY <1>7, <2>1, <2>2
<1>11. OneSender'
  BY <1>1, <1>2, <1>3, <1>7 DEF OneSender
<1>12. StepInv'
  <2> SUFFICES ASSUME windows \cap {"overtake", "swapped", "orphan"} = {}
               PROVE  (Delivering \/ Waiting \/ Received \/ Repeating)'
    BY <1>1 DEF StepInv
  <2>1. Received \/ Repeating
    BY <1>1, <1>2, <1>3 DEF StepInv, Delivering, Waiting
  <2>2. CASE Received
    <3>1. i = service.lastApplied /\ \A x \in applies \ {g} : Silent(x)
      BY <1>3, <2>2 DEF Received
    <3>2. ASSUME NEW x \in applies'
          PROVE  Silent(x) \/ (x.pc = "sending" /\ x.msgs[1].index = service.lastApplied + 1)
      BY <1>6, <1>7, <3>1
    <3>3. Waiting'
      BY <1>1, <1>4, <2>2, <3>1, <3>2 DEF Waiting, Received
    <3> QED
      BY <3>3
  <2>3. CASE Repeating
    <3>1. PICK x \in applies : x.pc = "sending" /\ x.msgs[1].index <= service.lastApplied
      BY <2>3 DEF Repeating
    <3>2. x \in applies'
      BY <1>1, <1>7, <3>1
    <3>3. Repeating'
      BY <1>1, <2>3, <3>1, <3>2 DEF Repeating
    <3> QED
      BY <3>3
  <2> QED
    BY <2>1, <2>2, <2>3
<1>13. CommitInv'
  <2> SUFFICES ASSUME windows = {} PROVE CommitInv'
    BY <1>1 DEF CommitInv
  <2>1. /\ \A x \in applies : \A n \in 1..Len(x.msgs) : x.msgs[n].index <= rf.commitIndex
    BY <1>2 DEF CommitInv
  <2>2. \A x \in applies' : \A n \in 1..Len(x.msgs) : x.msgs[n].index <= rf.commitIndex
    <3> SUFFICES ASSUME NEW x \in applies', NEW n \in 1..Len(x.msgs)
                 PROVE  x.msgs[n].index <= rf.commitIndex
      OBVIOUS
    <3>1. CASE x \in applies
      BY <2>1, <3>1
    <3>2. CASE more /\ x = h
      <4>1. n + 1 \in 1..Len(g.msgs) /\ x.msgs[n] = g.msgs[n + 1]
        BY <1>5, <1>6, <3>2
      <4> QED
        BY <2>1, <4>1
    <3> QED
      BY <1>7, <3>1, <3>2
  <2> QED
    BY <1>1, <1>2, <1>4, <2>2 DEF CommitInv, LastLogicalIndex
<1> QED
  BY <1>8, <1>9, <1>10, <1>11, <1>12, <1>13 DEF ApplyInv

(* applyLogs after its unlock (raft.go:421): one more argument is read. *)
LEMMA ReadArgsInv == ASSUME ApplyInv, NEW g \in applies, ReadInstallArgs(g) PROVE ApplyInv'
<1> DEFINE a == IF g.args = <<>> THEN rf.lastIncludedIndex ELSE rf.lastIncludedTerm
           h == [g EXCEPT !.args = Append(g.args, a)]
<1>1. /\ status = "running" /\ g.pc = "install" /\ Becomes(g, h)
      /\ rf' = rf /\ snapshots' = snapshots /\ service' = service /\ status' = status
      /\ appends' = appends /\ installs' = installs /\ restarts' = restarts
      /\ orphans' = orphans /\ windows' = windows
  BY DEF ReadInstallArgs, restartVars
<1>2. TypeInv /\ LogInv /\ CommitInv /\ rf \in Sound
  BY Types DEF ApplyInv
<1>3. g \in Goroutine /\ Silent(g) /\ SenderOK(g) /\ g.args \in Seq(Nat)
  BY <1>1, <1>2, SenderFields
<1>4. a \in Nat
  BY <1>2, SoundFields
<1> HIDE DEF a
<1>5. Append(g.args, a) \in Seq(Nat)
  BY <1>3, <1>4, AppendProperties
<1>6. h \in Goroutine /\ h.msgs = g.msgs /\ h.pc = g.pc
  BY <1>3, <1>5 DEF Goroutine
<1> HIDE DEF h
<1>7. Silent(h) /\ SenderOK(h)
  BY <1>3, <1>6 DEF Silent, SenderOK
<1>8. /\ applies' \subseteq Goroutine
      /\ \A x \in applies' : SenderOK(x)
      /\ \A x \in applies' : x = h \/ x \in applies
      /\ \A x \in applies : x = g \/ x \in applies'
  BY <1>1, <1>2, <1>6, <1>7, BecomesTypes
<1>9. SameSenders
  BY <1>3, <1>7, <1>8 DEF SameSenders
<1>10. TypeInv'
  BY <1>1, <1>2, <1>8, Types, TypesPrime
<1>11. LogInv'
  BY <1>1, <1>2 DEF LogInv
<1>12. StepInv' /\ OneSender' /\ CollectedAgreed'
  BY <1>1, <1>9, QuietStep
<1>13. CommitInv'
  <2> SUFFICES ASSUME windows = {} PROVE CommitInv'
    BY <1>1 DEF CommitInv
  <2>1. Len(rf.logs) > 0 /\ rf.commitIndex <= LastLogicalIndex(rf) /\ rf.commitIndex \in Int
    BY <1>2, Types DEF CommitInv
  <2>2. rf.commitIndex <= rf.commitIndex
    BY <2>1, SMTT(30)
  <2> QED
    BY <1>1, <1>2, <1>9, <2>1, <2>2, QuietCommit
<1> QED
  BY <1>10, <1>11, <1>12, <1>13 DEF ApplyInv

(* condInstallSnapshot (raft.go:448), with index and term exchanged *)
LEMMA CondInstallInv ==
    ASSUME ApplyInv, NEW g \in applies, condInstallSnapshot(g) PROVE ApplyInv'
<1>1. /\ g.pc = "install" /\ Len(g.args) = 2
      /\ IF CondInstallPanics(rf, g.args[2]) THEN status' = "panic" /\ rf' = rf
         ELSE rf' = CondInstall(rf, g.args[1], g.args[2]) /\ status' = status
      /\ applies' = applies \ {g} /\ windows' = windows \cup {"swapped"}
      /\ snapshots' = snapshots /\ service' = service /\ appends' = appends
      /\ installs' = installs /\ restarts' = restarts /\ orphans' = orphans
  BY DEF condInstallSnapshot, Through, restartVars
<1>2. TypeInv /\ rf \in Sound /\ g.args \in Seq(Nat)
  BY Types, SenderFields DEF ApplyInv
<1>3. g.args[1] \in Nat /\ g.args[2] \in Nat
  BY <1>1, <1>2, ElementOfSeq, SMTT(30)
<1>4. rf' \in Sound
  BY <1>1, <1>2, <1>3, CondInstallStep
<1>5. /\ status' \in {"running", "panic", "apply error"} /\ windows' \subseteq Window
      /\ applies' \subseteq Goroutine
      /\ \A x \in applies' : SenderOK(x)
  BY <1>1, <1>2, Types DEF Window
<1>6. TypeInv'
  BY <1>1, <1>2, <1>4, <1>5, Types, TypesPrime
<1>7. "swapped" \in windows'
  BY <1>1
<1>8. OneSender'
  BY <1>1 DEF ApplyInv, OneSender
<1> QED
  BY <1>6, <1>7, <1>8 DEF ApplyInv, LogInv, CollectedAgreed, StepInv, CommitInv

(* A snapshot that is sent is ahead of the service. *)
LEMMA SnapshotAhead ==
    ASSUME ApplyInv, status = "running", NEW index \in snapshots,
           windows \cap {"overtake", "swapped", "orphan"} = {}
    PROVE  Delivering /\ snapshots = {index} /\ service.lastApplied < index
BY DEF ApplyInv, StepInv, Delivering, Waiting, Received, Repeating

(* applyCh <- the installed snapshot (raft.go:786) *)
LEMMA SendSnapshotInv ==
    ASSUME ApplyInv, NEW index \in snapshots, SendSnapshot(index) PROVE ApplyInv'
<1>1. /\ status = "running" /\ snapshots' = snapshots \ {index}
      /\ service' = [service EXCEPT !.lastApplied = index]
      /\ rf' = rf /\ applies' = applies /\ status' = status /\ appends' = appends
      /\ installs' = installs /\ restarts' = restarts /\ orphans' = orphans /\ windows' = windows
  BY DEF SendSnapshot, restartVars
<1>2. TypeInv /\ LogInv /\ CommitInv /\ OneSender /\ CollectedAgreed
  BY DEF ApplyInv
<1>3. /\ index \in Nat /\ service' \in [lastApplied : Nat, taking : Indices \cup {0}]
      /\ service'.lastApplied = index /\ service'.taking = service.taking
  <2>1. index \in Nat /\ service \in [lastApplied : Nat, taking : Indices \cup {0}]
    BY <1>2, Types, Constants
  <2> QED
    BY <1>1, <2>1
<1>4. TypeInv'
  <2>1. snapshots' \subseteq Indices
    BY <1>1, <1>2, Types
  <2> QED
    BY <1>1, <1>2, <1>3, <2>1, Types, TypesPrime
<1>5. LogInv' /\ OneSender' /\ CollectedAgreed'
  BY <1>1, <1>2 DEF LogInv, OneSender, CollectedAgreed
<1>6. StepInv'
  <2> SUFFICES ASSUME windows \cap {"overtake", "swapped", "orphan"} = {} PROVE Waiting'
    BY <1>1 DEF StepInv
  <2>1. Delivering /\ snapshots = {index}
    BY <1>1, SnapshotAhead
  <2> QED
    BY <1>1, <1>3, <2>1 DEF Delivering, Waiting
<1>7. CommitInv'
  BY <1>1, <1>2, <1>3 DEF CommitInv
<1> QED
  BY <1>4, <1>5, <1>6, <1>7 DEF ApplyInv

(* Snapshot (raft.go:183): the service asks for what it has applied, and   *)
(* that is in the log.                                                     *)
LEMMA SnapshotInv == ASSUME ApplyInv, Snapshot PROVE ApplyInv'
<1> DEFINE t == service.taking
<1>1. /\ status = "running" /\ t # 0 /\ service' = [service EXCEPT !.taking = 0]
      /\ applies' = applies /\ snapshots' = snapshots /\ appends' = appends
      /\ installs' = installs /\ restarts' = restarts /\ orphans' = orphans /\ windows' = windows
  BY DEF Snapshot, restartVars
<1>2. TypeInv /\ LogInv /\ CommitInv
  BY DEF ApplyInv
<1>3. /\ t \in Indices /\ t \in Nat /\ rf \in Sound /\ rf.lastIncludedIndex \in Nat
      /\ LastLogicalIndex(rf) \in Int /\ rf.commitIndex \in Int
  BY <1>1, <1>2, Types
<1>4. /\ service' \in [lastApplied : Nat, taking : Indices \cup {0}]
      /\ service'.lastApplied = service.lastApplied /\ service'.taking = 0
  <2>1. service \in [lastApplied : Nat, taking : Indices \cup {0}]
    BY <1>2, Types
  <2> QED
    BY <1>1, <2>1
<1>5. /\ rf' \in Sound /\ rf'.lastApplied = rf.lastApplied /\ rf'.commitIndex = rf.commitIndex
      /\ status' \in {"running", "panic"}
      /\ LastLogicalIndex(rf') = LastLogicalIndex(rf)
      /\ Agrees(rf) => Agrees(rf')
      /\ Len(rf.logs) > 0 => Len(rf'.logs) > 0
      /\ t <= LastLogicalIndex(rf) => status' = "running"
  <2>1. CASE t <= rf.lastIncludedIndex
    <3>1. ~(t > rf.lastIncludedIndex) /\ t \notin (rf.lastIncludedIndex + 1)..LastLogicalIndex(rf)
      BY <1>3, <2>1, SMTT(30)
    <3>2. rf' = rf /\ status' = status
      BY <2>1, <3>1 DEF Snapshot
    <3> QED
      BY <1>1, <1>3, <3>2
  <2>2. CASE t > LastLogicalIndex(rf) /\ t > rf.lastIncludedIndex
    <3>1. /\ ~(t <= rf.lastIncludedIndex) /\ ~(t <= LastLogicalIndex(rf))
          /\ t \notin (rf.lastIncludedIndex + 1)..LastLogicalIndex(rf)
      BY <1>3, <2>2, SMTT(30)
    <3>2. rf' = rf /\ status' = "panic"
      BY <2>2, <3>1 DEF Snapshot
    <3> QED
      BY <1>3, <3>1, <3>2
  <2>3. CASE t \in (rf.lastIncludedIndex + 1)..LastLogicalIndex(rf)
    <3>1. /\ ~(t <= rf.lastIncludedIndex) /\ ~(t > LastLogicalIndex(rf))
          /\ rf.lastIncludedIndex < t /\ t <= LastLogicalIndex(rf)
      BY <1>3, <2>3, SMTT(30)
    <3>2. rf' = TrimLogs(rf, t) /\ status' = status
      BY <2>3, <3>1 DEF Snapshot
    <3> HIDE DEF t
    <3> QED
      BY <1>1, <1>3, <3>1, <3>2, TrimStep
  <2> QED
    BY <1>3, <2>1, <2>2, <2>3, SMTT(30)
<1>6. SameSenders
  BY <1>1 DEF SameSenders
<1>7. TypeInv'
  BY <1>1, <1>2, <1>4, <1>5, Types, TypesPrime
<1>8. LogInv'
  BY <1>1, <1>2, <1>5 DEF LogInv
<1>9. StepInv' /\ OneSender' /\ CollectedAgreed'
  BY <1>1, <1>4, <1>5, <1>6, QuietStep
<1>10. CommitInv'
  <2> SUFFICES ASSUME windows = {} PROVE CommitInv'
    BY <1>1 DEF CommitInv
  <2>1. Len(rf.logs) > 0 /\ rf.commitIndex <= LastLogicalIndex(rf) /\ t <= rf.commitIndex
    BY <1>2 DEF CommitInv
  <2>2. t <= LastLogicalIndex(rf) /\ rf.commitIndex <= rf'.commitIndex
    BY <1>3, <1>5, <2>1, SMTT(30)
  <2> QED
    BY <1>1, <1>4, <1>5, <1>6, <2>1, <2>2, QuietCommit
<1> QED
  BY <1>7, <1>8, <1>9, <1>10 DEF ApplyInv

(* what a goroutine of a killed instance sends *)
LEMMA LeftoverType ==
    ASSUME TypeInv, NEW g \in applies PROVE Leftover(g) \in Seq(ApplyMsg)
<1>1. g.msgs \in Seq(ApplyMsg) /\ (g.pc \in {"sending", "sent"} <=> g.msgs # <<>>) /\ rf \in Sound
  BY SenderFields, Types DEF Silent
<1>2. CASE g.pc = "sending"
  BY <1>1, <1>2 DEF Leftover
<1>3. CASE g.pc = "sent"
  <2>1. Leftover(g) = Tail(g.msgs)
    BY <1>3 DEF Leftover
  <2> QED
    BY <1>1, <1>3, <2>1, Messages
<1>4. CASE g.pc = "spawned" /\ rf.lastApplied >= rf.lastIncludedIndex
           /\ rf.lastApplied < rf.commitIndex /\ ~CollectPanics(rf)
  <2>1. Leftover(g) = Collected(rf)
    BY <1>4 DEF Leftover
  <2> QED
    BY <1>1, <1>4, <2>1, CollectedStep
<1>5. CASE ~(\/ g.pc = "sending" \/ g.pc = "sent"
             \/ g.pc = "spawned" /\ rf.lastApplied >= rf.lastIncludedIndex
                /\ rf.lastApplied < rf.commitIndex /\ ~CollectPanics(rf))
  <2>1. Leftover(g) = <<>>
    BY <1>5 DEF Leftover
  <2> QED
    BY <2>1, SMTT(30)
<1> QED
  BY <1>2, <1>3, <1>4, <1>5

(* crash1 and start1 (config.go:109, 273): Raft and its service start from *)
(* the snapshot that was saved with the log.                               *)
LEMMA RestartInv == ASSUME ApplyInv, SavedInv, Restart PROVE ApplyInv'
<1>1. /\ status = "running" /\ restarts < MaxRestarts /\ restarts' = restarts + 1
      /\ rf' = ReadPersist(rf)
      /\ service' = [lastApplied |-> snapshot, taking |-> 0]
      /\ orphans' = (orphans \cup {Leftover(g) : g \in applies}
                             \cup {SnapshotMsg(index) : index \in snapshots}) \ {<<>>}
      /\ applies' = {} /\ snapshots' = {}
      /\ status' = status /\ appends' = appends /\ installs' = installs /\ windows' = windows
  BY DEF Restart
<1>2. TypeInv /\ LogInv /\ CommitInv /\ rf \in Sound
  BY Types DEF ApplyInv
<1>3. /\ rf' \in Sound
      /\ Agrees(rf) => Agrees(rf')
      /\ rf'.lastApplied = rf.lastIncludedIndex /\ rf'.commitIndex = rf.lastIncludedIndex
      /\ rf'.logs = rf.logs /\ LastLogicalIndex(rf') = LastLogicalIndex(rf)
  BY <1>1, <1>2, ReadPersistStep
<1>4. rf.lastIncludedIndex \in Nat /\ Len(rf.logs) \in Nat
  BY <1>2, SoundFields
<1>5. /\ "swapped" \notin windows => service'.lastApplied = rf.lastIncludedIndex
      /\ service'.taking = 0 /\ service' \in [lastApplied : Nat, taking : Indices \cup {0}]
  <2>1. snapshot \in Nat
    BY Constants DEF SavedInv
  <2> QED
    BY <1>1, <2>1 DEF SavedInv
<1>6. orphans' \subseteq Seq(ApplyMsg) /\ <<>> \notin orphans'
  <2>1. \A index \in snapshots : SnapshotMsg(index) \in Seq(ApplyMsg)
    <3> SUFFICES ASSUME NEW index \in snapshots PROVE SnapshotMsg(index) \in Seq(ApplyMsg)
      OBVIOUS
    <3>1. index \in Nat
      BY <1>2, Types, Constants
    <3>2. [index |-> index, command |-> Nil] \in ApplyMsg
      BY <3>1 DEF ApplyMsg
    <3> QED
      BY <3>2, SMTT(30) DEF SnapshotMsg
  <2>2. orphans \subseteq Seq(ApplyMsg) /\ \A g \in applies : Leftover(g) \in Seq(ApplyMsg)
    BY <1>2, Types, LeftoverType
  <2> QED
    BY <1>1, <2>1, <2>2
<1>7. restarts' \in 0..MaxRestarts
  BY <1>1, <1>2, Types, ApplyAssumption, SMTT(30)
<1>8. TypeInv'
  BY <1>1, <1>2, <1>3, <1>5, <1>6, <1>7, Types, TypesPrime
<1>9. LogInv'
  BY <1>1, <1>2, <1>3 DEF LogInv
<1>10. OneSender' /\ CollectedAgreed'
  BY <1>1 DEF OneSender, CollectedAgreed
<1>11. StepInv'
  <2>1. "swapped" \notin windows => Waiting'
    BY <1>1, <1>3, <1>5 DEF Waiting
  <2> QED
    BY <1>1, <2>1 DEF StepInv
<1>12. CommitInv'
  <2> SUFFICES ASSUME windows = {} PROVE CommitInv'
    BY <1>1 DEF CommitInv
  <2>1. Len(rf.logs) > 0
    BY <1>2 DEF CommitInv
  <2>2. rf.lastIncludedIndex <= LastLogicalIndex(rf)
    BY <1>4, <2>1, SMTT(30) DEF LastLogicalIndex
  <2>3. rf.lastIncludedIndex <= rf.lastIncludedIndex /\ 0 <= rf.lastIncludedIndex
    BY <1>4, SMTT(30)
  <2> QED
    BY <1>1, <1>3, <1>5, <2>1, <2>2, <2>3 DEF CommitInv
<1> QED
  BY <1>8, <1>9, <1>10, <1>11, <1>12 DEF ApplyInv

(* the applier of a killed instance *)
LEMMA OrphanInv == ASSUME ApplyInv, NEW msgs \in orphans, OrphanSends(msgs) PROVE ApplyInv'
<1>1. /\ service' = [service EXCEPT !.lastApplied = Head(msgs).index]
      /\ status' = IF ChecksOut(Head(msgs)) \/ Head(msgs).command = Nil
                   THEN status ELSE "apply error"
      /\ orphans' = (orphans \ {msgs}) \cup ({Tail(msgs)} \ {<<>>})
      /\ windows' = windows \cup {"orphan"}
      /\ rf' = rf /\ applies' = applies /\ snapshots' = snapshots /\ appends' = appends
      /\ installs' = installs /\ restarts' = restarts
  BY DEF OrphanSends, Through
<1>2. /\ TypeInv /\ LogInv /\ OneSender /\ CollectedAgreed /\ msgs \in Seq(ApplyMsg)
      /\ msgs # <<>>
  BY Types DEF ApplyInv
<1>3. Head(msgs).index \in Nat /\ Tail(msgs) \in Seq(ApplyMsg)
  BY <1>2, Messages
<1>4. service' \in [lastApplied : Nat, taking : Indices \cup {0}]
  <2>1. service \in [lastApplied : Nat, taking : Indices \cup {0}]
    BY <1>2, Types
  <2> QED
    BY <1>1, <1>3, <2>1
<1>5. /\ status' \in {"running", "panic", "apply error"} /\ windows' \subseteq Window
      /\ orphans' \subseteq Seq(ApplyMsg) /\ <<>> \notin orphans'
  BY <1>1, <1>2, <1>3, Types DEF Window
<1>6. TypeInv'
  BY <1>1, <1>2, <1>4, <1>5, Types, TypesPrime
<1>7. "orphan" \in windows' /\ windows \subseteq windows'
  BY <1>1
<1>8. LogInv' /\ OneSender' /\ CollectedAgreed'
  BY <1>1, <1>2, <1>7 DEF LogInv, OneSender, CollectedAgreed
<1> QED
  BY <1>6, <1>7, <1>8 DEF ApplyInv, StepInv, CommitInv

(* every step *)
LEMMA NextInv == ApplyInv /\ SavedInv /\ [Next]_vars => ApplyInv'
<1> SUFFICES ASSUME ApplyInv, SavedInv, [Next]_vars PROVE ApplyInv'
  OBVIOUS
<1>1. CASE UNCHANGED vars
  BY <1>1 DEF vars, restartVars, ApplyInv, TypeInv, LogInv, CollectedAgreed,
                     StepInv, Delivering, Waiting, Received, Repeating, OneSender, CommitInv
<1>2. ASSUME NEW g \in applies, ApplyStep(g) PROVE ApplyInv'
  <2>1. CASE applyLogs(g)
    BY <2>1, NothingCollectedInv, CollectedInv
  <2> QED
    BY <1>2, <2>1, SendInv, AppliedInv, ReadArgsInv, CondInstallInv DEF ApplyStep
<1> QED
  BY <1>1, <1>2, AppendInv, InstallInv, SendSnapshotInv, SnapshotInv, RestartInv, OrphanInv DEF Next

-----------------------------------------------------------------------------

(* Whatever changes lastIncludedIndex keeps the snapshot with it, but for  *)
(* condInstallSnapshot.                                                    *)
LEMMA SavedNext == ApplyInv /\ SavedInv /\ [Next]_vars => SavedInv'
<1> SUFFICES ASSUME ApplyInv, SavedInv, [Next]_vars PROVE SavedInv'
  OBVIOUS
<1>1. /\ TypeInv /\ rf \in Sound /\ service.taking \in Indices \cup {0}
      /\ service.taking \in Nat /\ rf.lastIncludedIndex \in Nat
      /\ LastLogicalIndex(rf) \in Int /\ rf.lastApplied \in Int
  BY Types DEF ApplyInv
<1>2. ASSUME snapshot' = snapshot, windows \subseteq windows',
             rf'.lastIncludedIndex = rf.lastIncludedIndex \/ "swapped" \in windows'
      PROVE  SavedInv'
  BY <1>2 DEF SavedInv
<1>3. ASSUME NEW prev \in Indices \cup {0}, NEW last \in Indices \cup {0},
             NEW commit \in Indices \cup {0}, ReceiveAppend(prev, last, commit)
      PROVE  SavedInv'
  <2> DEFINE args == AppendArgs(prev, last, commit)
             q == AppendEntries(rf, args)
  <2>1. /\ prev <= last /\ commit <= last /\ snapshot' = snapshot
        /\ windows \subseteq windows'
        /\ rf' = rf \/ (~AppendEntriesPanics(rf, args) /\ rf' = q)
    BY <1>3 DEF ReceiveAppend, Through
  <2>2. ~AppendEntriesPanics(rf, args) => q.lastIncludedIndex = rf.lastIncludedIndex
    BY <1>1, <2>1, AppendStep
  <2> HIDE DEF args, q
  <2> QED
    BY <1>2, <2>1, <2>2
<1>4. ASSUME NEW index \in Indices, ReceiveSnapshot(index) PROVE SavedInv'
  <2> DEFINE args == [Term |-> LeaderTerm, LeaderId |-> Leader,
                      LastIncludedIndex |-> index, LastIncludedTerm |-> AgreedTerm(index)]
             q == InstallSnapshot(rf, args)
  <2>1. /\ rf' = q /\ windows \subseteq windows'
        /\ snapshot' = IF ~DiscardsSnapshot(rf, args) THEN index ELSE snapshot
    BY <1>4 DEF ReceiveSnapshot, Through
  <2>2. q.lastIncludedIndex = IF DiscardsSnapshot(rf, args) THEN rf.lastIncludedIndex
                              ELSE index
    BY <1>1, InstallStep DEF SameLog
  <2> HIDE DEF args, q
  <2> QED
    BY <1>2, <2>1, <2>2 DEF SavedInv
<1>5. CASE Snapshot
  <2> DEFINE t == service.taking
  <2>1. windows' = windows
    BY <1>5 DEF Snapshot
  <2>2. \/ rf' = rf /\ snapshot' = snapshot
        \/ /\ t \in (rf.lastIncludedIndex + 1)..LastLogicalIndex(rf)
           /\ rf' = TrimLogs(rf, t) /\ snapshot' = t
    <3>1. \/ t <= rf.lastIncludedIndex
          \/ t > LastLogicalIndex(rf) /\ t > rf.lastIncludedIndex
          \/ t \in (rf.lastIncludedIndex + 1)..LastLogicalIndex(rf)
      BY <1>1, SMTT(30)
    <3> QED
      BY <1>5, <3>1 DEF Snapshot
  <2> HIDE DEF t
  <2>3. CASE /\ t \in (rf.lastIncludedIndex + 1)..LastLogicalIndex(rf)
             /\ rf' = TrimLogs(rf, t) /\ snapshot' = t
    <3>1. /\ rf.lastIncludedIndex < t /\ t <= LastLogicalIndex(rf) /\ t # 0
      BY <1>1, <2>3, SMTT(30)
    <3>2. t \in Indices
      BY <1>1, <3>1 DEF t
    <3>3. TrimLogs(rf, t).lastIncludedIndex = t
      BY <1>1, <3>1, <3>2, TrimStep
    <3> QED
      BY <2>3, <3>2, <3>3 DEF SavedInv
  <2> QED
    BY <1>2, <2>1, <2>2, <2>3
<1>6. CASE Restart
  <2>1. rf' = ReadPersist(rf) /\ snapshot' = snapshot /\ windows' = windows
    BY <1>6 DEF Restart
  <2>2. ReadPersist(rf).lastIncludedIndex = rf.lastIncludedIndex
    BY DEF ReadPersist, Make
  <2> QED
    BY <1>2, <2>1, <2>2
<1>7. ASSUME NEW g \in applies, ApplyStep(g) PROVE SavedInv'
  <2>1. CASE applyLogs(g)
    <3>1. rf' = rf /\ snapshot' = snapshot
      BY <2>1 DEF applyLogs
    <3>2. windows' = windows \/ \E passed : Through(passed)
      <4>1. rf.lastApplied < rf.lastIncludedIndex \/ rf.lastApplied >= rf.lastIncludedIndex
        BY <1>1, SMTT(30)
      <4> QED
        BY <2>1, <4>1 DEF applyLogs
    <3> QED
      BY <1>2, <3>1, <3>2 DEF Through
  <2>2. CASE SetApplied(g)
    <3>1. /\ rf' = [rf EXCEPT !.lastApplied = Head(g.msgs).index]
          /\ snapshot' = snapshot /\ windows' = windows
      BY <2>2 DEF SetApplied
    <3>2. rf'.lastIncludedIndex = rf.lastIncludedIndex
      BY <1>1, <3>1 DEF Sound, Peer
    <3> QED
      BY <1>2, <3>1, <3>2
  <2>3. CASE SendCommand(g) \/ ReadInstallArgs(g)
    BY <1>2, <2>3 DEF SendCommand, ReadInstallArgs
  <2>4. CASE condInstallSnapshot(g)
    BY <1>2, <2>4 DEF condInstallSnapshot, Through
  <2> QED
    BY <1>7, <2>1, <2>2, <2>3, <2>4 DEF ApplyStep
<1>8. ASSUME NEW index \in snapshots, SendSnapshot(index) PROVE SavedInv'
  BY <1>2, <1>8 DEF SendSnapshot
<1>9. ASSUME NEW msgs \in orphans, OrphanSends(msgs) PROVE SavedInv'
  BY <1>2, <1>9 DEF OrphanSends, Through
<1>10. CASE UNCHANGED vars
  BY <1>2, <1>10 DEF vars
<1> QED
  BY <1>3, <1>4, <1>5, <1>6, <1>7, <1>8, <1>9, <1>10 DEF Next

(* The inductive invariant holds in every reachable state. *)
THEOREM ApplyInvHolds == Spec => [](ApplyInv /\ SavedInv)
<1>1. Init => SavedInv
  <2>1. Make.lastIncludedIndex = 0
    BY DEF Make
  <2> QED
    BY <2>1 DEF Init, SavedInv
<1> QED
  BY <1>1, InitInv, NextInv, SavedNext, PTL DEF Spec

(* The variables of the follower and its service always have their types:  *)
(* no handler leaves an index the next one cannot use.                     *)
THEOREM ApplyTypeCorrect == Spec => []TypeOK
<1>1. ApplyInv /\ SavedInv => TypeOK
  BY DEF ApplyInv, SavedInv, TypeInv, TypeOK, Goroutine, Sound
<1> QED
  BY <1>1, ApplyInvHolds, PTL

(* What applyLogs collects at an index is the agreed command, however the  *)
(* log was trimmed, cut back or replaced by a snapshot before              *)
(* (convertToStorageIndex, raft.go:229).                                    *)
THEOREM CollectedIsAgreed == Spec => []CollectedAgreed
<1>1. ApplyInv => CollectedAgreed
  BY DEF ApplyInv
<1> QED
  BY <1>1, ApplyInvHolds, PTL

(* Without one of the race windows the program does not crash, nor does    *)
(* the service get a command out of order.                                 *)
THEOREM ApplySound == Spec => []SoundButWindows
<1>1. ApplyInv => SoundButWindows
  BY DEF ApplyInv, CommitInv, SoundButWindows
<1> QED
  BY <1>1, ApplyInvHolds, PTL

(* Without one of the race windows Raft's lastApplied is the service's     *)
(* whenever no message is on its way.                                      *)
THEOREM AppliedInStep == Spec => []AppliedInStepButWindows
<1>1. ApplyInv => AppliedInStepButWindows
  <2> SUFFICES ASSUME ApplyInv, windows = {}, ~Busy PROVE rf.lastApplied = service.lastApplied
    BY DEF AppliedInStepButWindows
  <2>1. snapshots = {} /\ \A g \in applies : Silent(g)
    BY DEF Busy, Silent
  <2>2. TypeInv /\ CommitInv /\ StepInv
    BY DEF ApplyInv
  <2>3. \A g \in applies : g.pc \notin {"sending", "sent"}
    BY <2>1, <2>2, SenderFields
  <2> QED
    BY <2>1, <2>2, <2>3 DEF CommitInv, StepInv, Delivering, Waiting, Received, Repeating
<1> QED
  BY <1>1, ApplyInvHolds, PTL

(* An installed snapshot never takes the service back to an older state    *)
(* (raft.go:756, "If the snapshot is old, discard snapshot").              *)
THEOREM SnapshotsGoForward == Spec => SnapshotNeverBack
<1> DEFINE Step == \A index \in snapshots \ snapshots' :
                      \/ service.lastApplied < index
                      \/ restarts' # restarts
                      \/ windows \cap {"overtake", "swapped", "orphan"} # {}
<1>1. ApplyInv /\ [Next]_vars => [Step]_vars
  <2> SUFFICES ASSUME ApplyInv, Next, NEW index \in snapshots \ snapshots', restarts' = restarts,
                      windows \cap {"overtake", "swapped", "orphan"} = {}
               PROVE  service.lastApplied < index
    OBVIOUS
  <2>1. restarts \in Int /\ restarts + 1 # restarts
    <3>1. restarts \in 0..MaxRestarts
      BY Types DEF ApplyInv
    <3> QED
      BY <3>1, ApplyAssumption, SMTT(30)
  <2>2. status = "running"
    BY <2>1 DEF Next, ReceiveAppend, ReceiveSnapshot, ApplyStep, applyLogs, SendCommand,
       SetApplied, ReadInstallArgs, condInstallSnapshot, SendSnapshot, Snapshot, Restart,
       OrphanSends
  <2> QED
    BY <2>2, SnapshotAhead
<1> QED
  BY <1>1, ApplyInvHolds, PTL DEF Spec, SnapshotNeverBack
=============================================================================
