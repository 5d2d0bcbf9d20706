-------------------------- MODULE RaftCatchUpProofs --------------------------
(***************************************************************************)
(* Why storage and logical indices do not slip while a leader brings a     *)
(* follower up to date, and why an AppendEntries that cuts a log too far   *)
(* is all that takes the indices of a peer out of order or makes the       *)
(* leader read beyond its log: the safety of RaftCatchUp, for all logs of  *)
(* earlier leaders and any number of requests, goroutines, losses and new  *)
(* commands.                                                               *)
(***************************************************************************)
EXTENDS RaftCatchUp, SequenceTheorems, WellFoundedInduction, TLAPS

(* Most facts are first-order; the ones with arithmetic name SMTT. *)
USE ZenonT(30)

(* A peer that no handler indexes wrongly *)
Fit ==
    {p \in Peer :
        /\ p.lastIncludedIndex \in Nat /\ p.lastIncludedTerm \in Nat
        /\ p.currentTerm <= NewTerm}

(* entry e is one that some leader had at the logical index n *)
InPlace(n, e) ==
    \/ e.Term = NewTerm
    \/ \E t \in OldTerms : n <= Len(OldLog[t]) /\ OldLog[t][n] = e

(* what a peer stores is in place, *)
Placed(p) ==
    \A i \in 1..LastStorageIndex(p) : InPlace(LogicalIndex(p, i), Entry(p, i))

(* and so is what a request of AppendEntries brings *)
EntriesPlaced(args) ==
    \A j \in 1..Len(args.Entries) : InPlace(args.PrevLogIndex + j, args.Entries[j])

Ordered(p) ==
    /\ p.lastIncludedIndex <= p.commitIndex /\ p.lastApplied <= p.commitIndex
    /\ p.commitIndex <= LastLogicalIndex(p)

(* logs[0] is there *)
Marker(p) == p.lastIncludedIndex <= LastLogicalIndex(p)

Call ==
    [pc : {"idle", "snapshot", "append", "install", "appended", "installed", "setNext",
           "setMatch"},
     args : AppendEntriesArgs \cup InstallSnapshotArgs \cup {Nil},
     reply : AppendEntriesReplies \cup [Term : Nat] \cup {Nil}]

(* A goroutine is one of a leader p, and asks for nothing beyond p's log,  *)
(* nor does an answer point beyond it.                                     *)
CallOK(c, p) ==
    /\ c.pc # "idle" => p.role = "Leader"
    /\ c.pc \in {"append", "appended"} =>
         /\ c.args \in AppendEntriesArgs /\ c.args.Term <= NewTerm
         /\ c.args.PrevLogIndex <= LastLogicalIndex(p)
    /\ c.pc = "append" => EntriesPlaced(c.args)
    /\ c.pc = "appended" =>
         /\ c.reply \in AppendEntriesReplies /\ c.reply.Term <= NewTerm
         /\ c.reply.ConflictIndex <= LastLogicalIndex(p) + 1
    /\ c.pc \in {"install", "installed", "setNext", "setMatch"} =>
         /\ c.args \in InstallSnapshotArgs /\ c.args.Term <= NewTerm
         /\ c.args.LastIncludedIndex \in Nat /\ c.args.LastIncludedTerm \in Nat
         /\ c.args.LastIncludedIndex <= p.lastIncludedIndex

TypeInv ==
    /\ rf \in [Peers -> Fit] /\ call \in [Slots -> Call]
    /\ feeds \in 0..MaxFeeds /\ started \in 0..Len(NewCommands) /\ losses \in 0..MaxLosses
    /\ panicked \subseteq Peers /\ swapped \subseteq Peers /\ cutBack \subseteq Peers

OrderInv == \A s \in Peers : s \notin cutBack => Ordered(rf[s])

(* No request cuts into the log of ldr once it leads. *)
LeadInv ==
    /\ ldr \in panicked => ldr \in cutBack
    /\ Leads => /\ feeds = MaxFeeds /\ rf[ldr].currentTerm = NewTerm
                /\ Marker(rf[ldr])
                /\ rf[ldr].nextIndex[fol] <= LastLogicalIndex(rf[ldr]) + 1

(* the inductive invariant *)
CatchUpInv ==
    /\ TypeInv /\ OrderInv /\ LeadInv
    /\ \A s \in Peers : Placed(rf[s])
    /\ \A k \in Slots : CallOK(call[k], rf[ldr])

-----------------------------------------------------------------------------
(* Logs *)

(* the logs of earlier leaders, and what else the constants are *)
LEMMA Constants ==
    /\ NewTerm \in Nat /\ Len(OldLog) \in Nat /\ NewTerm = Len(OldLog) + 1
    /\ OldTerms = 1..Len(OldLog)
    /\ \A t \in OldTerms : OldLog[t] \in Seq(LogEntry) /\ Len(OldLog[t]) \in Nat
    /\ ldr \in Peers /\ fol \in Peers /\ ldr # fol /\ ldr \in Server /\ fol \in Server
<1> DEFINE Old == [Term : 1..Len(OldLog), Command : Command]
<1>1. OldLog \in Seq(Seq(Old))
  BY CatchUpAssumption
<1>2. Len(OldLog) \in Nat /\ OldTerms = 1..Len(OldLog)
  BY <1>1, LenProperties DEF OldTerms
<1>3. Old \subseteq LogEntry
  BY <1>2, SMTT(30) DEF LogEntry
<1>4. ASSUME NEW t \in OldTerms
      PROVE  OldLog[t] \in Seq(LogEntry) /\ Len(OldLog[t]) \in Nat
  <2> HIDE DEF Old
  <2>1. OldLog[t] \in Seq(Old)
    BY <1>1, <1>2, ElementOfSeq
  <2>2. PICK n \in Nat : OldLog[t] \in [1..n -> Old]
    BY <2>1, LenProperties
  <2>3. OldLog[t] \in [1..n -> LogEntry]
    BY <1>3, <2>2
  <2>4. OldLog[t] \in Seq(LogEntry)
    BY <2>2, <2>3, SeqDef
  <2> QED
    BY <2>4, LenProperties
<1>5. NewTerm \in Nat
  BY <1>2, SMTT(30) DEF NewTerm
<1> QED
  BY <1>2, <1>4, <1>5, CatchUpAssumption DEF NewTerm, Peers

NatPairs == {p \in Nat \X Nat : p[1] < p[2]}

(* The usual order of the naturals is well founded. *)
LEMMA NatPairsWellFounded == IsWellFoundedOn(NatPairs, Nat)
BY NatLessThanWellFounded DEF OpToRel, NatPairs

(* A nonempty set of log indices has a greatest element, and Max is it:     *)
(* what the descending scans of handleAppendEntries and AppendEntries find. *)
LEMMA MaxOfIndices ==
    ASSUME NEW a \in Int, NEW b \in Int, NEW S \in SUBSET (a..b), S # {}
    PROVE  Max(S) \in S
<1> DEFINE T == {b - x : x \in S}
<1>1. T \subseteq Nat
  BY SMTT(30)
<1>2. T # {}
  OBVIOUS
<1>3. PICK t \in T : \A y \in T : <<y, t>> \notin NatPairs
  <2> HIDE DEF T
  <2> QED BY <1>1, <1>2, NatPairsWellFounded, WFMin
<1>4. PICK x \in S : t = b - x
  BY <1>3
<1>5. ASSUME NEW y \in S PROVE x >= y
  <2>1. b - y \in T
    OBVIOUS
  <2>2. b - y \in Nat /\ t \in Nat
    BY <1>1, <1>3, <2>1
  <2>3. ~(b - y < t)
    BY <1>3, <2>1, <2>2 DEF NatPairs
  <2> QED
    BY <1>4, <2>2, <2>3, SMTT(30)
<1> QED
  BY <1>5 DEF Max

(* Max and Min of two indices *)
LEMMA MaxMinOfTwo ==
    ASSUME NEW a \in Int, NEW b \in Int
    PROVE  /\ Max({a, b}) = IF a >= b THEN a ELSE b
           /\ Min({a, b}) = IF a <= b THEN a ELSE b
BY SMTT(30) DEF Max, Min

(* The log that stays behind a marker: logs[0] to logs[k] make way for it. *)
Marked(e, s, k) == <<e>> \o SubSeq(s, k + 2, Len(s))

(* Cutting entries off the front of a log keeps the entries behind. *)
LEMMA MarkedTail ==
    ASSUME NEW s \in Seq(LogEntry), NEW e \in LogEntry, NEW k \in Nat, k < Len(s)
    PROVE  /\ Marked(e, s, k) \in Seq(LogEntry) /\ Len(Marked(e, s, k)) = Len(s) - k
           /\ \A a \in 1..(Len(s) - k - 1) : Marked(e, s, k)[a + 1] = s[a + k + 1]
<1> DEFINE m == k + 2
           rest == SubSeq(s, m, Len(s))
           mark == <<e>>
           t == mark \o rest
<1>1. Len(s) \in Nat /\ m \in Int
  BY LenProperties, SMTT(30)
<1>2. \A i \in m..Len(s) : s[i] \in LogEntry
  BY <1>1, ElementOfSeq, SMTT(30)
<1>3. mark \in Seq(LogEntry) /\ Len(mark) = 1
  BY SMTT(30)
<1> HIDE DEF mark
<1>4. /\ rest \in Seq(LogEntry)
      /\ Len(rest) = IF m <= Len(s) THEN Len(s) - m + 1 ELSE 0
      /\ \A i \in 1..(Len(s) - m + 1) : rest[i] = s[m + i - 1]
  <2> HIDE DEF m
  <2> QED
    BY <1>1, <1>2, SubSeqProperties, SMTT(30)
<1> HIDE DEF rest
<1>5. /\ t \in Seq(LogEntry) /\ Len(t) = Len(mark) + Len(rest)
      /\ \A i \in 1..(Len(mark) + Len(rest)) :
            t[i] = IF i <= Len(mark) THEN mark[i] ELSE rest[i - Len(mark)]
  BY <1>3, <1>4, ConcatProperties
<1> HIDE DEF t
<1>6. Len(t) = Len(s) - k
  BY <1>1, <1>3, <1>4, <1>5, SMTT(30)
<1>7. ASSUME NEW a \in 1..(Len(s) - k - 1) PROVE t[a + 1] = s[a + k + 1]
  <2>1. a \in 1..(Len(s) - m + 1) /\ m + a - 1 = a + k + 1 /\ a + 1 \in 1..(Len(mark) + Len(rest))
    BY <1>1, <1>3, <1>4, <1>7, SMTT(30)
  <2>2. t[a + 1] = rest[a + 1 - Len(mark)] /\ a + 1 - Len(mark) = a
    BY <1>3, <1>5, <1>7, <2>1, SMTT(30)
  <2>3. rest[a] = s[m + a - 1]
    BY <1>4, <2>1
  <2> QED
    BY <2>1, <2>2, <2>3
<1> QED
  BY <1>5, <1>6, <1>7 DEF Marked, t, mark, rest, m

(* The first k entries of a log with the entries of a request behind them. *)
LEMMA Spliced ==
    ASSUME NEW s \in Seq(LogEntry), NEW t \in Seq(LogEntry), NEW k \in 0..Len(s)
    PROVE  LET u == SubSeq(s, 1, k) \o t
           IN  /\ u \in Seq(LogEntry) /\ Len(u) = k + Len(t)
               /\ \A j \in 1..k : u[j] = s[j]
               /\ \A j \in (k + 1)..(k + Len(t)) : u[j] = t[j - k]
<1> DEFINE a == SubSeq(s, 1, k)
           u == a \o t
<1>1. Len(s) \in Nat /\ Len(t) \in Nat /\ k \in Int
  BY LenProperties, SMTT(30)
<1>2. \A i \in 1..k : s[i] \in LogEntry
  BY <1>1, ElementOfSeq, SMTT(30)
<1>3. a \in Seq(LogEntry) /\ Len(a) = k /\ \A i \in 1..k : a[i] = s[i]
  <2>1. /\ a \in Seq(LogEntry) /\ Len(a) = IF 1 <= k THEN k - 1 + 1 ELSE 0
        /\ \A i \in 1..(k - 1 + 1) : a[i] = s[1 + i - 1]
    BY <1>1, <1>2, SubSeqProperties, SMTT(30)
  <2> HIDE DEF a
  <2> QED
    BY <1>1, <2>1, SMTT(30)
<1> HIDE DEF a
<1>4. /\ u \in Seq(LogEntry) /\ Len(u) = Len(a) + Len(t)
      /\ \A i \in 1..(Len(a) + Len(t)) : u[i] = IF i <= Len(a) THEN a[i] ELSE t[i - Len(a)]
  BY <1>3, ConcatProperties
<1> HIDE DEF u
<1>5. ASSUME NEW j \in 1..k PROVE u[j] = s[j]
  <2>1. j \in 1..(k + Len(t)) /\ j <= k
    BY <1>1, SMTT(30)
  <2> QED
    BY <1>3, <1>4, <2>1
<1>6. ASSUME NEW j \in (k + 1)..(k + Len(t)) PROVE u[j] = t[j - k]
  <2>1. j \in 1..(k + Len(t)) /\ ~(j <= k)
    BY <1>1, SMTT(30)
  <2> QED
    BY <1>3, <1>4, <2>1
<1> QED
  BY <1>3, <1>4, <1>5, <1>6 DEF u, a

-----------------------------------------------------------------------------
(* What the handlers do to the struct *)

SameLog(p, q) ==
    /\ q.logs = p.logs /\ q.lastApplied = p.lastApplied /\ q.commitIndex = p.commitIndex
    /\ q.lastIncludedIndex = p.lastIncludedIndex

(* the fields of a peer that the arithmetic needs *)
LEMMA FitFields ==
    ASSUME NEW p \in Fit
    PROVE  /\ p \in Peer /\ p.logs \in Seq(LogEntry) /\ Len(p.logs) \in Nat
           /\ p.currentTerm \in Nat /\ p.commitIndex \in Int /\ p.lastApplied \in Int
           /\ p.lastIncludedIndex \in Nat /\ p.lastIncludedTerm \in Nat
           /\ p.currentTerm <= NewTerm /\ NewTerm \in Nat
           /\ p.nextIndex \in [Server -> Int] /\ p.matchIndex \in [Server -> Int]
           /\ p.role \in Role /\ p.votedFor \in Server \cup {-1}
           /\ LastLogicalIndex(p) \in Int /\ LastStorageIndex(p) \in Int
           /\ p.lastIncludedIndex \in Int /\ Len(p.logs) \in Int
           /\ LastLogicalIndex(p) = Len(p.logs) - 1 + p.lastIncludedIndex
<1>1. p \in Peer /\ p.logs \in Seq(LogEntry)
  BY DEF Fit, Peer
<1>2. Len(p.logs) \in Nat
  BY <1>1, LenProperties
<1>3. p.lastIncludedIndex \in Nat /\ p.lastIncludedTerm \in Nat /\ p.currentTerm <= NewTerm
  BY DEF Fit
<1>4. /\ LastLogicalIndex(p) \in Int /\ LastStorageIndex(p) \in Int
      /\ p.lastIncludedIndex \in Int /\ Len(p.logs) \in Int
      /\ LastLogicalIndex(p) = Len(p.logs) - 1 + p.lastIncludedIndex
  BY <1>2, <1>3, SMTT(30) DEF LastLogicalIndex, LastStorageIndex
<1> QED
  BY <1>1, <1>2, <1>3, <1>4, Constants DEF Peer

(* A peer with the same log and indices is as well placed and ordered. *)
LEMMA SameKeeps ==
    ASSUME NEW p, NEW q, SameLog(p, q)
    PROVE  /\ Placed(p) => Placed(q)
           /\ Ordered(p) => Ordered(q)
           /\ Marker(p) => Marker(q)
           /\ LastLogicalIndex(q) = LastLogicalIndex(p)
BY DEF SameLog, Placed, Ordered, Marker, LastLogicalIndex, LastStorageIndex, LogicalIndex,
       Entry

(* Hearing of a leader changes no log. *)
LEMMA HeardSame ==
    ASSUME NEW p \in Fit, NEW term \in Nat, term <= NewTerm
    PROVE  LET o == ObserveTerm(p, term)
               h == ConvertRole(o, "Follower")
           IN  /\ o \in Fit /\ SameLog(p, o) /\ o.role \in {p.role, "Follower"}
               /\ h \in Fit /\ SameLog(p, h) /\ h.role = "Follower"
<1> DEFINE o == ObserveTerm(p, term)
           h == ConvertRole(o, "Follower")
<1>1. p \in Peer /\ p.currentTerm <= NewTerm
  BY FitFields
<1>2. /\ o \in Peer /\ SameLog(p, o) /\ o.currentTerm \in {p.currentTerm, term}
      /\ o.lastIncludedTerm = p.lastIncludedTerm /\ o.role \in {p.role, "Follower"}
  BY <1>1 DEF ObserveTerm, StepDown, ConvertRole, SameLog, Peer, Role
<1> HIDE DEF o
<1>3. /\ h \in Peer /\ SameLog(p, h) /\ h.currentTerm = o.currentTerm
      /\ h.lastIncludedTerm = p.lastIncludedTerm /\ h.role = "Follower"
  BY <1>2 DEF ConvertRole, SameLog, Peer, Role
<1> HIDE DEF h
<1>4. o \in Fit /\ h \in Fit
  <2>1. /\ o.currentTerm <= NewTerm /\ h.currentTerm <= NewTerm
        /\ p.lastIncludedIndex \in Nat /\ p.lastIncludedTerm \in Nat
    BY <1>1, <1>2, <1>3, FitFields
  <2> QED
    BY <1>2, <1>3, <2>1 DEF Fit, SameLog
<1> QED
  BY <1>2, <1>3, <1>4 DEF o, h

(* StoreEntries: behind the entry before PrevLogIndex + 1 come the ones of *)
(* the request, each at its logical index; also if they begin in the       *)
(* snapshot.                                                               *)
LEMMA StoreStep ==
    ASSUME NEW p \in Fit, NEW args \in AppendEntriesArgs,
           p.lastIncludedIndex - 1 <= args.PrevLogIndex,
           args.PrevLogIndex <= LastLogicalIndex(p)
    PROVE  LET q == StoreEntries(p, args)
           IN  /\ q \in Fit /\ q.role = p.role /\ q.currentTerm = p.currentTerm
               /\ q.lastIncludedIndex = p.lastIncludedIndex
               /\ q.lastApplied = p.lastApplied /\ q.commitIndex = p.commitIndex
               /\ LastLogicalIndex(q) = args.PrevLogIndex + Len(args.Entries)
               /\ Placed(p) /\ EntriesPlaced(args) => Placed(q)
<1> DEFINE prev == args.PrevLogIndex
           entries == args.Entries
           base == p.lastIncludedIndex
           k == prev - base + 1
           log == SubSeq(p.logs, 1, k) \o entries
           q == StoreEntries(p, args)
<1>1. /\ p.logs \in Seq(LogEntry) /\ Len(p.logs) \in Nat /\ base \in Nat /\ base \in Int
      /\ p \in Peer /\ p.lastIncludedTerm \in Nat /\ p.currentTerm <= NewTerm
      /\ LastLogicalIndex(p) = Len(p.logs) - 1 + base
  BY FitFields
<1>2. prev \in Nat /\ entries \in Seq(LogEntry)
  BY DEF AppendEntriesArgs
<1>3. Len(entries) \in Nat /\ prev \in Int
  BY <1>2, LenProperties, SMTT(30)
<1>4. k \in 0..Len(p.logs) /\ k \in Int /\ k = prev - base + 1
  BY <1>1, <1>2, SMTT(30)
<1>5. q = [p EXCEPT !.logs = log]
  BY DEF StoreEntries, StorageIndex
<1> HIDE DEF k, entries
<1>6. /\ log \in Seq(LogEntry) /\ Len(log) = k + Len(entries)
      /\ \A j \in 1..k : log[j] = p.logs[j]
      /\ \A j \in (k + 1)..(k + Len(entries)) : log[j] = entries[j - k]
  BY <1>1, <1>2, <1>4, Spliced
<1> HIDE DEF log, q
<1>7. /\ q \in Peer /\ q.logs = log /\ q.lastIncludedIndex = base
      /\ q.lastApplied = p.lastApplied /\ q.commitIndex = p.commitIndex
      /\ q.lastIncludedTerm = p.lastIncludedTerm /\ q.currentTerm = p.currentTerm
      /\ q.role = p.role
  BY <1>1, <1>5, <1>6 DEF Peer
<1>8. q \in Fit
  BY <1>1, <1>7 DEF Fit
<1>9. LastLogicalIndex(q) = prev + Len(entries)
  <2>1. Len(q.logs) = prev - base + 1 + Len(entries)
    BY <1>4, <1>6, <1>7
  <2> HIDE DEF prev, base
  <2> QED
    BY <1>1, <1>3, <1>7, <2>1, SMTT(30) DEF LastLogicalIndex
<1>10. ASSUME Placed(p), EntriesPlaced(args), NEW i \in 1..LastStorageIndex(q)
       PROVE  InPlace(LogicalIndex(q, i), Entry(q, i))
  <2>1. LastStorageIndex(q) = (k + Len(entries)) - 1
    BY <1>6, <1>7 DEF LastStorageIndex
  <2>2. /\ i \in Int /\ 1 <= i /\ i + 1 <= k + Len(entries)
        /\ Entry(q, i) = log[i + 1] /\ LogicalIndex(q, i) = i + base
    BY <1>3, <1>4, <1>7, <1>10, <2>1, SMTT(30) DEF Entry, LogicalIndex
  <2>3. CASE i + 1 <= k
    <3>1. i + 1 \in 1..k /\ i \in 1..LastStorageIndex(p)
      BY <1>1, <1>4, <2>2, <2>3, SMTT(30) DEF LastStorageIndex
    <3>2. InPlace(LogicalIndex(p, i), Entry(p, i))
      BY <1>10, <3>1 DEF Placed
    <3>3. log[i + 1] = p.logs[i + 1]
      BY <1>6, <3>1
    <3> QED
      BY <2>2, <3>2, <3>3 DEF LogicalIndex, Entry
  <2>4. CASE ~(i + 1 <= k)
    <3> DEFINE j == (i + 1) - k
    <3>1. i + 1 \in (k + 1)..(k + Len(entries)) /\ j \in 1..Len(entries) /\ j \in Int
      BY <1>3, <1>4, <2>2, <2>4, SMTT(30)
    <3>2. prev + j = i + base
      <4>1. k = prev - base + 1 /\ k \in Int /\ prev \in Int /\ base \in Int /\ i \in Int
        BY <1>1, <1>3, <1>4, <2>2
      <4> HIDE DEF prev, base
      <4> QED
        BY <4>1, SMTT(30)
    <3>3. log[i + 1] = entries[j]
      BY <1>6, <3>1
    <3> HIDE DEF j
    <3>4. InPlace(prev + j, entries[j])
      BY <1>10, <3>1 DEF EntriesPlaced, entries
    <3> QED
      BY <2>2, <3>2, <3>3, <3>4
  <2> QED
    BY <2>3, <2>4
<1>11. Placed(p) /\ EntriesPlaced(args) => Placed(q)
  BY <1>10 DEF Placed
<1> QED
  BY <1>7, <1>8, <1>9, <1>11 DEF q, entries

(* AppendEntries: what goes in is in place, and unless the request cuts    *)
(* into the snapshot or below commitIndex the indices stay in order.       *)
LEMMA AppendStep ==
    ASSUME NEW p \in Fit, NEW args \in AppendEntriesArgs, args.Term <= NewTerm,
           EntriesPlaced(args), ~AppendEntriesPanics(p, args)
    PROVE  LET q == AppendEntries(p, args)
           IN  /\ q \in Fit /\ q.role \in {p.role, "Follower"}
               /\ Placed(p) => Placed(q)
               /\ \/ ~Ordered(p)
                  \/ Ordered(q)
                  \/ /\ AcceptsEntries(p, args)
                     /\ \/ args.PrevLogIndex < p.lastIncludedIndex
                        \/ args.PrevLogIndex + Len(args.Entries) < p.commitIndex
<1> DEFINE o == ObserveTerm(p, args.Term)
           h == ConvertRole(o, "Follower")
           e == StoreEntries(h, args)
           f == FollowCommit(e, args.LeaderCommit)
           q == AppendEntries(p, args)
           last == args.PrevLogIndex + Len(args.Entries)
<1>1. /\ args.Term \in Nat /\ args.PrevLogIndex \in Nat /\ args.LeaderCommit \in Int
      /\ args.Entries \in Seq(LogEntry)
  BY DEF AppendEntriesArgs
<1>2. h \in Fit /\ SameLog(p, h) /\ h.role = "Follower"
  BY <1>1, HeardSame
<1>3. q = IF args.Term < p.currentTerm THEN p ELSE IF AcceptsEntries(p, args) THEN f ELSE h
  BY DEF AppendEntries
<1> HIDE DEF h, q
<1>4. CASE args.Term < p.currentTerm
  BY <1>3, <1>4 DEF q
<1>5. CASE ~(args.Term < p.currentTerm) /\ ~AcceptsEntries(p, args)
  <2>1. q = h
    BY <1>3, <1>5
  <2> QED
    BY <1>2, <2>1, SameKeeps DEF q
<1>6. CASE ~(args.Term < p.currentTerm) /\ AcceptsEntries(p, args)
  <2>1. q = f
    BY <1>3, <1>6
  <2>2. /\ p.lastIncludedIndex - 1 <= args.PrevLogIndex
        /\ args.PrevLogIndex <= LastLogicalIndex(p)
    BY <1>1, <1>6, FitFields, SMTT(30)
       DEF AppendEntriesPanics, AcceptsEntries, PrevBeyondLog, StorageIndex
  <2>3. /\ h.lastIncludedIndex = p.lastIncludedIndex /\ h.lastApplied = p.lastApplied
        /\ h.commitIndex = p.commitIndex /\ LastLogicalIndex(h) = LastLogicalIndex(p)
        /\ Placed(p) => Placed(h)
    BY <1>2, SameKeeps DEF SameLog
  <2>4. /\ e \in Fit /\ e.role = "Follower"
        /\ e.lastIncludedIndex = p.lastIncludedIndex
        /\ e.lastApplied = p.lastApplied /\ e.commitIndex = p.commitIndex
        /\ LastLogicalIndex(e) = last
        /\ Placed(p) => Placed(e)
    <3>1. /\ h.lastIncludedIndex - 1 <= args.PrevLogIndex
          /\ args.PrevLogIndex <= LastLogicalIndex(h)
      BY <2>2, <2>3
    <3> QED
      BY <1>2, <2>3, <3>1, StoreStep
  <2> HIDE DEF e
  <2>5. /\ p.commitIndex \in Int /\ p.lastApplied \in Int /\ p.lastIncludedIndex \in Int
        /\ last \in Int /\ args.PrevLogIndex \in Int
    <3>1. Len(args.Entries) \in Nat
      BY <1>1, LenProperties
    <3> QED
      BY <1>1, <3>1, FitFields, SMTT(30)
  <2> DEFINE m == Min({args.LeaderCommit, LastLogicalIndex(e)})
  <2>6. m = IF args.LeaderCommit <= last THEN args.LeaderCommit ELSE last
    BY <1>1, <2>4, <2>5, MaxMinOfTwo
  <2>7. f = IF args.LeaderCommit > p.commitIndex THEN [e EXCEPT !.commitIndex = m] ELSE e
    BY <2>4 DEF FollowCommit
  <2> HIDE DEF m, f, last
  <2>8. m \in Int
    BY <1>1, <2>5, <2>6
  <2>9. /\ f \in Peer /\ f.logs = e.logs /\ f.role = "Follower"
        /\ f.lastIncludedIndex = p.lastIncludedIndex
        /\ f.lastIncludedTerm = e.lastIncludedTerm /\ f.currentTerm = e.currentTerm
        /\ f.lastApplied = p.lastApplied
        /\ f.commitIndex = IF args.LeaderCommit > p.commitIndex THEN m ELSE p.commitIndex
    BY <2>4, <2>7, <2>8 DEF Fit, Peer
  <2>10. f \in Fit
    BY <2>4, <2>9 DEF Fit
  <2>11. ASSUME Placed(p) PROVE Placed(f)
    BY <2>4, <2>9, <2>11 DEF Placed, LastStorageIndex, LogicalIndex, Entry
  <2>12. LastLogicalIndex(f) = last
    BY <2>4, <2>9 DEF LastLogicalIndex
  <2>13. ASSUME Ordered(p), ~(last < p.commitIndex) PROVE Ordered(f)
    <3>1. p.lastIncludedIndex <= p.commitIndex /\ p.lastApplied <= p.commitIndex
      BY <2>13 DEF Ordered
    <3>2. /\ p.lastIncludedIndex <= f.commitIndex /\ p.lastApplied <= f.commitIndex
          /\ f.commitIndex <= last
      BY <1>1, <2>5, <2>6, <2>9, <2>13, <3>1, SMTT(30)
    <3> QED
      BY <2>9, <2>12, <3>2 DEF Ordered
  <2> QED
    BY <1>6, <2>1, <2>9, <2>10, <2>11, <2>13 DEF q, last
<1> QED
  BY <1>4, <1>5, <1>6

(* InstallSnapshot: a discarded snapshot changes nothing of the log; any   *)
(* other becomes lastIncludedIndex and lastApplied, and what stays behind  *)
(* it is where it was.                                                     *)
LEMMA InstallStep ==
    ASSUME NEW p \in Fit, NEW args \in InstallSnapshotArgs, args.Term <= NewTerm,
           args.LastIncludedIndex \in Nat, args.LastIncludedTerm \in Nat
    PROVE  LET q == InstallSnapshot(p, args)
           IN  /\ q \in Fit /\ q.role \in {p.role, "Follower"}
               /\ Placed(p) => Placed(q)
               /\ Ordered(p) => Ordered(q)
<1> DEFINE index == args.LastIncludedIndex
           term == args.LastIncludedTerm
           o == ObserveTerm(p, args.Term)
           log == LogBehindSnapshot(p, args)
           k == StorageIndex(p, index)
           c == Max({o.commitIndex, index})
           q == [o EXCEPT !.logs = log, !.lastIncludedIndex = index,
                          !.lastIncludedTerm = term,
                          !.lastApplied = index, !.commitIndex = c]
           r == InstallSnapshot(p, args)
<1>1. args.Term \in Nat
  BY DEF InstallSnapshotArgs
<1>2. /\ p.logs \in Seq(LogEntry) /\ Len(p.logs) \in Nat /\ p.lastIncludedIndex \in Nat
      /\ p.commitIndex \in Int /\ p.lastApplied \in Int /\ LastLogicalIndex(p) \in Int
      /\ LastLogicalIndex(p) = Len(p.logs) - 1 + p.lastIncludedIndex
      /\ Len(p.logs) \in Int /\ p.lastIncludedIndex \in Int
  BY FitFields
<1>3. index \in Int /\ term \in Int
  BY SMTT(30)
<1>4. o \in Fit /\ SameLog(p, o) /\ o.role \in {p.role, "Follower"}
  BY <1>1, HeardSame
<1>5. r = IF args.Term < p.currentTerm THEN p
          ELSE IF DiscardsSnapshot(p, args) THEN o ELSE q
  BY DEF InstallSnapshot
<1> HIDE DEF o, r
<1>6. CASE args.Term < p.currentTerm
  BY <1>5, <1>6 DEF r
<1>7. CASE ~(args.Term < p.currentTerm) /\ DiscardsSnapshot(p, args)
  <2>1. r = o
    BY <1>5, <1>7
  <2> QED
    BY <1>4, <2>1, SameKeeps DEF r
<1>8. CASE ~(args.Term < p.currentTerm) /\ ~DiscardsSnapshot(p, args)
  <2>1. index > p.lastIncludedIndex /\ index > p.lastApplied
    BY <1>2, <1>3, <1>8, SMTT(30) DEF DiscardsSnapshot
  <2>2. c = (IF p.commitIndex >= index THEN p.commitIndex ELSE index) /\ c \in Int
    <3>1. o.commitIndex = p.commitIndex
      BY <1>4 DEF SameLog
    <3>2. c = IF p.commitIndex >= index THEN p.commitIndex ELSE index
      BY <1>2, <1>3, <3>1, MaxMinOfTwo
    <3> HIDE DEF c, index
    <3> QED
      BY <1>2, <1>3, <3>2
  <2> HIDE DEF c
  <2>3. /\ log \in Seq(LogEntry) /\ Len(log) \in Nat
        /\ Len(log) - 1 + index = IF LastLogicalIndex(p) <= index THEN index
                                  ELSE LastLogicalIndex(p)
        /\ \A i \in 1..(Len(log) - 1) : i + k + 1 \in 1..Len(p.logs) /\ i + k > 0
                                       /\ log[i + 1] = p.logs[i + k + 1]
    <3>1. CASE LastLogicalIndex(p) <= index
      <4>1. log = <<[Term |-> term, Command |-> Nil]>>
        BY <3>1 DEF LogBehindSnapshot
      <4>2. [Term |-> term, Command |-> Nil] \in LogEntry
        BY DEF LogEntry
      <4> HIDE DEF log, k
      <4>3. log \in Seq(LogEntry) /\ Len(log) = 1
        BY <4>1, <4>2, SMTT(30)
      <4> QED
        BY <1>3, <3>1, <4>3, SMTT(30)
    <3>2. CASE ~(LastLogicalIndex(p) <= index)
      <4> DEFINE mark == [Term |-> 0, Command |-> Nil]
                 tail == Marked(mark, p.logs, k)
      <4>1. log = tail
        BY <3>2 DEF LogBehindSnapshot, Marked
      <4>2. mark \in LogEntry
        BY DEF LogEntry
      <4>3. k \in Nat /\ k > 0 /\ k < Len(p.logs) /\ k = index - p.lastIncludedIndex
        BY <1>2, <1>3, <2>1, <3>2, SMTT(30) DEF StorageIndex
      <4> HIDE DEF k, mark
      <4>4. /\ tail \in Seq(LogEntry) /\ Len(tail) = Len(p.logs) - k
            /\ \A a \in 1..(Len(p.logs) - k - 1) : tail[a + 1] = p.logs[a + k + 1]
        BY <1>2, <4>2, <4>3, MarkedTail
      <4> HIDE DEF log, tail, index
      <4>5. log \in Seq(LogEntry) /\ Len(log) = Len(p.logs) - k
        BY <4>1, <4>4
      <4>6. \A a \in 1..(Len(p.logs) - k - 1) : log[a + 1] = p.logs[a + k + 1]
        BY <4>1, <4>4
      <4>7. Len(log) \in Nat /\ Len(log) - 1 + index = LastLogicalIndex(p)
        BY <1>2, <1>3, <4>3, <4>5, SMTT(30)
      <4>8. \A i \in 1..(Len(log) - 1) : i + k + 1 \in 1..Len(p.logs) /\ i + k > 0
        BY <1>2, <4>3, <4>5, SMTT(30)
      <4> QED
        BY <3>2, <4>5, <4>6, <4>7, <4>8
    <3> QED
      BY <3>1, <3>2
  <2> HIDE DEF log
  <2>4. /\ r \in Peer /\ r.logs = log /\ r.lastIncludedIndex = index
        /\ r.lastIncludedTerm = term /\ r.lastApplied = index /\ r.commitIndex = c
        /\ r.currentTerm = o.currentTerm /\ r.role = o.role
    <3>1. r = q /\ o \in Peer
      BY <1>4, <1>5, <1>8 DEF Fit
    <3> QED
      BY <1>3, <2>2, <2>3, <3>1 DEF Peer
  <2>5. r \in Fit
    <3>1. o.currentTerm <= NewTerm
      BY <1>4, FitFields
    <3> QED
      BY <2>4, <3>1 DEF Fit
  <2>6. ASSUME Placed(p), NEW i \in 1..LastStorageIndex(r)
        PROVE  InPlace(LogicalIndex(r, i), Entry(r, i))
    <3>1. i \in 1..(Len(log) - 1) /\ k \in Int /\ i \in Int /\ k = index - p.lastIncludedIndex
      BY <1>2, <1>3, <2>4, SMTT(30) DEF LastStorageIndex, StorageIndex
    <3>2. i + k + 1 \in 1..Len(p.logs) /\ i + k > 0 /\ log[i + 1] = p.logs[i + k + 1]
      BY <2>3, <3>1
    <3> HIDE DEF k, index
    <3>3. i + k \in 1..LastStorageIndex(p) /\ i + k + p.lastIncludedIndex = i + index
      <4>1. /\ i \in Int /\ k \in Int /\ i + k + 1 <= Len(p.logs) /\ Len(p.logs) \in Int
            /\ p.lastIncludedIndex \in Int /\ index \in Int /\ i + k > 0
            /\ k = index - p.lastIncludedIndex
        BY <1>2, <1>3, <3>1, <3>2, SMTT(30)
      <4>2. i + k + p.lastIncludedIndex = i + index
        BY <4>1, SMTT(30)
      <4> QED
        BY <4>1, <4>2, SMTT(30) DEF LastStorageIndex
    <3>4. InPlace(i + k + p.lastIncludedIndex, p.logs[i + k + 1])
      BY <2>6, <3>3 DEF Placed, LogicalIndex, Entry
    <3>5. Entry(r, i) = log[i + 1] /\ LogicalIndex(r, i) = i + index
      BY <2>4 DEF Entry, LogicalIndex
    <3> QED
      BY <3>2, <3>3, <3>4, <3>5
  <2>7. ASSUME Ordered(p) PROVE Ordered(r)
    <3>1. p.commitIndex <= LastLogicalIndex(p)
      BY <2>7 DEF Ordered
    <3>2. LastLogicalIndex(r) = Len(log) - 1 + index
      BY <2>4 DEF LastLogicalIndex
    <3> HIDE DEF index
    <3>3. index <= c /\ c <= LastLogicalIndex(r)
      BY <1>2, <1>3, <2>2, <2>3, <3>1, <3>2, SMTT(30)
    <3> QED
      BY <2>4, <3>3 DEF Ordered
  <2>8. Placed(p) => Placed(r)
    BY <2>6 DEF Placed
  <2> QED
    BY <1>4, <2>4, <2>5, <2>7, <2>8 DEF r
<1> QED
  BY <1>6, <1>7, <1>8

(* Snapshot: the log ends where it ended, with the same entries. *)
LEMMA TrimStep ==
    ASSUME NEW p \in Fit, NEW index \in Int,
           index > p.lastIncludedIndex, index <= LastLogicalIndex(p), index <= p.commitIndex
    PROVE  LET q == TrimLogs(p, index)
           IN  /\ q \in Fit
               /\ Placed(p) => Placed(q)
               /\ Ordered(p) => Ordered(q)
               /\ q.role = p.role /\ q.currentTerm = p.currentTerm
               /\ q.nextIndex = p.nextIndex /\ p.lastIncludedIndex <= q.lastIncludedIndex
               /\ LastLogicalIndex(q) = LastLogicalIndex(p) /\ Marker(q)
<1> DEFINE k == StorageIndex(p, index)
           term == Entry(p, k).Term
           mark == [Term |-> term, Command |-> Nil]
           log == Marked(mark, p.logs, k)
           q == TrimLogs(p, index)
<1>1. /\ p \in Peer /\ p.logs \in Seq(LogEntry) /\ Len(p.logs) \in Nat
      /\ p.lastIncludedIndex \in Nat /\ p.currentTerm <= NewTerm /\ index \in Int
      /\ p.commitIndex \in Int /\ Len(p.logs) \in Int /\ p.lastIncludedIndex \in Int
      /\ LastLogicalIndex(p) = Len(p.logs) - 1 + p.lastIncludedIndex
  BY FitFields
<1>2. index \in Nat /\ p.lastIncludedIndex <= index
  BY <1>1, SMTT(30)
<1>3. k \in Nat /\ k > 0 /\ k < Len(p.logs) /\ k = index - p.lastIncludedIndex
  BY <1>1, <1>2, SMTT(30) DEF StorageIndex
<1> HIDE DEF k
<1>4. term \in Nat /\ mark \in LogEntry
  <2>1. k + 1 \in 1..Len(p.logs)
    BY <1>1, <1>3, SMTT(30)
  <2>2. p.logs[k + 1] \in LogEntry
    BY <1>1, <2>1, ElementOfSeq
  <2> QED
    BY <2>2 DEF Entry, LogEntry
<1> HIDE DEF term, mark
<1>5. /\ log \in Seq(LogEntry) /\ Len(log) = Len(p.logs) - k
      /\ \A a \in 1..(Len(p.logs) - k - 1) : log[a + 1] = p.logs[a + k + 1]
  BY <1>1, <1>3, <1>4, MarkedTail
<1>6. q = [p EXCEPT !.logs = log, !.lastIncludedIndex = index, !.lastIncludedTerm = term]
  BY <1>1 DEF TrimLogs, Marked, mark, term, k, Peer
<1> HIDE DEF log, q
<1>7. /\ q \in Peer /\ q.logs = log /\ q.lastIncludedIndex = index
      /\ q.lastIncludedTerm = term /\ q.currentTerm = p.currentTerm
      /\ q.lastApplied = p.lastApplied /\ q.commitIndex = p.commitIndex
      /\ q.role = p.role /\ q.nextIndex = p.nextIndex
  <2>1. term \in Int
    BY <1>4, SMTT(30)
  <2> QED
    BY <1>1, <1>5, <1>6, <2>1 DEF Peer
<1>8. q \in Fit
  BY <1>1, <1>2, <1>4, <1>7 DEF Fit
<1>9. LastLogicalIndex(q) = LastLogicalIndex(p)
  <2>1. /\ Len(q.logs) = Len(p.logs) - k /\ q.lastIncludedIndex = p.lastIncludedIndex + k
        /\ k \in Int
    BY <1>1, <1>3, <1>5, <1>7, SMTT(30)
  <2> QED
    BY <1>1, <2>1, SMTT(30) DEF LastLogicalIndex
<1>10. ASSUME Placed(p), NEW i \in 1..LastStorageIndex(q)
       PROVE  InPlace(LogicalIndex(q, i), Entry(q, i))
  <2>1. LastStorageIndex(q) = Len(p.logs) - k - 1
    BY <1>5, <1>7 DEF LastStorageIndex
  <2>2. log[i + 1] = p.logs[i + k + 1]
    BY <1>5, <1>10, <2>1
  <2>3. /\ i \in Int /\ k \in Int /\ 1 <= i /\ i <= Len(p.logs) - k - 1
        /\ k > 0 /\ index = p.lastIncludedIndex + k
    BY <1>1, <1>3, <1>10, <2>1, SMTT(30)
  <2>4. i + k \in 1..LastStorageIndex(p) /\ i + k + p.lastIncludedIndex = i + index
    BY <1>1, <2>3, SMTT(30) DEF LastStorageIndex
  <2>5. InPlace(i + k + p.lastIncludedIndex, p.logs[i + k + 1])
    BY <1>10, <2>4 DEF Placed, LogicalIndex, Entry
  <2>6. Entry(q, i) = log[i + 1] /\ LogicalIndex(q, i) = i + index
    BY <1>7 DEF Entry, LogicalIndex
  <2> QED
    BY <2>2, <2>4, <2>5, <2>6
<1>11. Placed(p) => Placed(q)
  BY <1>10 DEF Placed
<1>12. Ordered(p) => Ordered(q)
  BY <1>7, <1>9 DEF Ordered
<1>13. Marker(q)
  BY <1>7, <1>9 DEF Marker
<1> QED
  BY <1>2, <1>7, <1>8, <1>9, <1>11, <1>12, <1>13 DEF q

(* The commit loop of handleAppendEntries stays within the log. *)
LEMMA CommitStep ==
    ASSUME NEW p \in Fit, NEW me
    PROVE  LET q == CommitMatched(p, me)
           IN  /\ q \in Fit
               /\ Placed(p) => Placed(q)
               /\ Ordered(p) => Ordered(q)
               /\ q.role = p.role /\ q.currentTerm = p.currentTerm
               /\ q.nextIndex = p.nextIndex /\ q.lastIncludedIndex = p.lastIncludedIndex
               /\ LastLogicalIndex(q) = LastLogicalIndex(p)
<1> DEFINE C == Committable(p, me)
           low == p.commitIndex + 1
           high == LastLogicalIndex(p)
           q == CommitMatched(p, me)
<1>1. /\ p \in Peer /\ p.commitIndex \in Int /\ p.lastApplied \in Int /\ high \in Int
      /\ p.lastIncludedIndex \in Int
  BY FitFields
<1>2. low \in Int /\ C \subseteq low..high
  BY <1>1, SMTT(30) DEF Committable
<1>3. CASE C = {}
  BY <1>3 DEF CommitMatched
<1>4. CASE C # {}
  <2> HIDE DEF C
  <2>1. Max(C) \in low..high
    <3> HIDE DEF low, high
    <3> QED
      BY <1>1, <1>2, <1>4, MaxOfIndices
  <2>2. q = [p EXCEPT !.commitIndex = Max(C)]
    BY <1>4 DEF CommitMatched, C
  <2> HIDE DEF q, high
  <2>3. Max(C) \in Int /\ Max(C) >= p.commitIndex /\ Max(C) <= high
    BY <1>1, <2>1, SMTT(30)
  <2>4. /\ q \in Peer /\ q.logs = p.logs /\ q.lastIncludedIndex = p.lastIncludedIndex
        /\ q.lastIncludedTerm = p.lastIncludedTerm /\ q.currentTerm = p.currentTerm
        /\ q.role = p.role /\ q.nextIndex = p.nextIndex /\ q.lastApplied = p.lastApplied
        /\ q.commitIndex = Max(C)
    BY <1>1, <2>2, <2>3 DEF Peer
  <2>5. q \in Fit
    BY <2>4 DEF Fit
  <2>6. Placed(p) => Placed(q)
    BY <2>4 DEF Placed, LastStorageIndex, LogicalIndex, Entry
  <2>7. LastLogicalIndex(q) = high
    BY <2>4 DEF LastLogicalIndex, high
  <2>8. ASSUME Ordered(p) PROVE Ordered(q)
    <3>1. p.lastIncludedIndex <= p.commitIndex /\ p.lastApplied <= p.commitIndex
      BY <2>8 DEF Ordered
    <3>2. p.lastIncludedIndex <= Max(C) /\ p.lastApplied <= Max(C)
      BY <1>1, <2>3, <3>1, SMTT(30)
    <3> QED
      BY <2>3, <2>4, <2>7, <3>2 DEF Ordered
  <2> QED
    BY <2>4, <2>5, <2>6, <2>7, <2>8 DEF q, high
<1> QED
  BY <1>3, <1>4

(* genAppendEntries sends entries of the own log as being where they are. *)
LEMMA GenStep ==
    ASSUME NEW p \in Fit, Placed(p), ~NeedsSnapshot(p, fol), ~GenAppendEntriesPanics(p, fol)
    PROVE  LET args == GenAppendEntries(p, ldr, fol)
           IN  /\ args \in AppendEntriesArgs /\ args.Term <= NewTerm
               /\ args.PrevLogIndex <= LastLogicalIndex(p)
               /\ EntriesPlaced(args)
<1> DEFINE prev == p.nextIndex[fol] - 1
           index == StorageIndex(p, prev)
           m == index + 2
           entries == SubSeq(p.logs, m, Len(p.logs))
           args == GenAppendEntries(p, ldr, fol)
<1>1. /\ p.logs \in Seq(LogEntry) /\ Len(p.logs) \in Nat /\ Len(p.logs) \in Int
      /\ p.lastIncludedIndex \in Nat /\ p.lastIncludedIndex \in Int
      /\ p.nextIndex[fol] \in Int /\ p.currentTerm \in Nat /\ p.currentTerm <= NewTerm
      /\ p.commitIndex \in Int /\ LastLogicalIndex(p) = Len(p.logs) - 1 + p.lastIncludedIndex
  BY FitFields, Constants
<1>2. /\ prev \in Int /\ prev >= p.lastIncludedIndex /\ index = prev - p.lastIncludedIndex
      /\ index <= Len(p.logs) - 1
  BY <1>1, SMTT(30) DEF NeedsSnapshot, GenAppendEntriesPanics, LastStorageIndex, StorageIndex
<1>3. args = [Term |-> p.currentTerm, LeaderId |-> ldr, PrevLogIndex |-> prev,
              PrevLogTerm |-> p.logs[index + 1].Term, Entries |-> entries,
              LeaderCommit |-> p.commitIndex]
  BY DEF GenAppendEntries, Entry
<1> HIDE DEF prev, args
<1>4. /\ prev \in Nat /\ prev <= LastLogicalIndex(p) /\ index \in Nat /\ m \in Int
      /\ index + 1 \in 1..Len(p.logs) /\ m = index + 2
  BY <1>1, <1>2, SMTT(30)
<1> HIDE DEF index, m
<1>5. p.logs[index + 1].Term \in Nat
  <2>1. p.logs[index + 1] \in LogEntry
    BY <1>1, <1>4, ElementOfSeq
  <2> QED
    BY <2>1 DEF LogEntry
<1>6. \A i \in m..Len(p.logs) : p.logs[i] \in LogEntry
  BY <1>1, <1>4, ElementOfSeq, SMTT(30)
<1>7. /\ entries \in Seq(LogEntry)
      /\ Len(entries) = IF m <= Len(p.logs) THEN Len(p.logs) - m + 1 ELSE 0
      /\ \A i \in 1..(Len(p.logs) - m + 1) : entries[i] = p.logs[m + i - 1]
  BY <1>1, <1>4, <1>6, SubSeqProperties, SMTT(30)
<1> HIDE DEF entries
<1>8. /\ args.Term = p.currentTerm /\ args.PrevLogIndex = prev /\ args.Entries = entries
      /\ args \in AppendEntriesArgs
  BY <1>1, <1>3, <1>4, <1>5, <1>7, Constants DEF AppendEntriesArgs
<1>9. ASSUME NEW j \in 1..Len(entries) PROVE InPlace(prev + j, entries[j])
  <2>1. /\ j \in Int /\ 1 <= j /\ j \in 1..(Len(p.logs) - m + 1)
        /\ index + j \in 1..LastStorageIndex(p)
        /\ m + j - 1 = index + j + 1
    <3>1. /\ Len(entries) = IF m <= Len(p.logs) THEN Len(p.logs) - m + 1 ELSE 0
          /\ Len(p.logs) \in Int /\ index \in Int /\ index >= 0 /\ m = index + 2
      BY <1>1, <1>4, <1>7, SMTT(30)
    <3>2. j \in Int /\ 1 <= j /\ j <= Len(p.logs) - m + 1
      BY <1>9, <3>1, SMTT(30)
    <3> QED
      BY <3>1, <3>2, SMTT(30) DEF LastStorageIndex
  <2>2. index + j + p.lastIncludedIndex = prev + j
    BY <1>1, <1>2, <1>4, <2>1, SMTT(30)
  <2>3. InPlace(index + j + p.lastIncludedIndex, p.logs[index + j + 1])
    BY <2>1 DEF Placed, LogicalIndex, Entry
  <2>4. entries[j] = p.logs[m + j - 1]
    BY <1>7, <2>1
  <2> QED
    BY <2>1, <2>2, <2>3, <2>4
<1> QED
  BY <1>1, <1>4, <1>8, <1>9 DEF EntriesPlaced, args

(* An answer of AppendEntries points to no index beyond PrevLogIndex. *)
LEMMA ReplyStep ==
    ASSUME NEW p \in Fit, NEW args \in AppendEntriesArgs, args.Term <= NewTerm
    PROVE  LET reply == AppendEntriesReply(p, args)
           IN  /\ reply \in AppendEntriesReplies /\ reply.Term <= NewTerm
               /\ reply.ConflictIndex <= args.PrevLogIndex
<1> DEFINE index == StorageIndex(p, args.PrevLogIndex)
           prev == args.PrevLogIndex
           base == p.lastIncludedIndex
<1>1. /\ p.currentTerm \in Nat /\ p.currentTerm <= NewTerm /\ LastLogicalIndex(p) \in Int
      /\ base \in Nat /\ base \in Int /\ p.logs \in Seq(LogEntry) /\ Len(p.logs) \in Nat
      /\ LastLogicalIndex(p) = Len(p.logs) - 1 + base
  BY FitFields
<1>2. args.Term \in Nat /\ prev \in Nat /\ prev \in Int
  BY SMTT(30) DEF AppendEntriesArgs
<1>3. 0 <= prev /\ index = prev - base /\ index \in Int
  BY <1>1, <1>2, SMTT(30) DEF StorageIndex
<1>4. CASE args.Term < p.currentTerm
  <2>1. AppendEntriesReply(p, args) = [Term |-> p.currentTerm, Success |-> FALSE,
                                       ConflictIndex |-> 0, ConflictTerm |-> 0]
    BY <1>1, <1>2, <1>4, SMTT(30) DEF AppendEntriesReply, AcceptsEntries
  <2> QED
    BY <1>1, <1>3, <2>1, SMTT(30) DEF AppendEntriesReplies
<1>5. CASE args.Term >= p.currentTerm /\ PrevBeyondLog(p, args)
  <2>1. AppendEntriesReply(p, args) =
            [Term |-> args.Term, Success |-> FALSE,
             ConflictIndex |-> LastLogicalIndex(p), ConflictTerm |-> 0]
    BY <1>1, <1>2, <1>5, SMTT(30) DEF AppendEntriesReply, AcceptsEntries
  <2>2. LastLogicalIndex(p) <= prev
    BY <1>1, <1>2, <1>5, SMTT(30) DEF PrevBeyondLog
  <2> QED
    BY <1>1, <1>2, <2>1, <2>2, SMTT(30) DEF AppendEntriesReplies
<1>6. CASE AcceptsEntries(p, args)
  <2>1. AppendEntriesReply(p, args) = [Term |-> args.Term, Success |-> TRUE,
                                       ConflictIndex |-> 0, ConflictTerm |-> 0]
    BY <1>1, <1>2, <1>6, SMTT(30) DEF AppendEntriesReply, AcceptsEntries
  <2> QED
    BY <1>2, <1>3, <2>1, SMTT(30) DEF AppendEntriesReplies
<1>7. CASE args.Term >= p.currentTerm /\ ~PrevBeyondLog(p, args) /\ PrevConflicts(p, args)
  <2> DEFINE first == FirstOfConflict(p, index)
             below == {0} \cup {i \in 1..index : Entry(p, i).Term < Entry(p, index).Term}
  <2>1. AppendEntriesReply(p, args) =
            [Term |-> args.Term, Success |-> FALSE,
             ConflictIndex |-> LogicalIndex(p, first), ConflictTerm |-> Entry(p, index).Term]
    BY <1>1, <1>2, <1>7, SMTT(30) DEF AppendEntriesReply, AcceptsEntries
  <2>2. index > 0 /\ prev <= LastLogicalIndex(p)
    BY <1>1, <1>2, <1>7, SMTT(30) DEF PrevConflicts, PrevBeyondLog
  <2> HIDE DEF index
  <2>3. index + 1 \in 1..Len(p.logs)
    BY <1>1, <1>2, <1>3, <2>2, SMTT(30)
  <2>4. Entry(p, index).Term \in Nat
    <3>1. p.logs[index + 1] \in LogEntry
      BY <1>1, <2>3, ElementOfSeq
    <3> QED
      BY <3>1 DEF Entry, LogEntry
  <2>5. below \subseteq 0..(index - 1)
    BY <1>3, <2>2, <2>4, SMTT(30)
  <2>6. Max(below) \in 0..(index - 1)
    <3>1. below # {} /\ 0 \in Int /\ index - 1 \in Int
      BY <1>3, SMTT(30)
    <3> HIDE DEF below
    <3>2. Max(below) \in below
      BY <2>5, <3>1, MaxOfIndices
    <3> QED
      BY <2>5, <3>2
  <2>7. first = 1 + Max(below)
    BY DEF FirstOfConflict
  <2> HIDE DEF first, below
  <2>8. LogicalIndex(p, first) \in Int /\ LogicalIndex(p, first) <= prev
    BY <1>1, <1>2, <1>3, <2>6, <2>7, SMTT(30) DEF LogicalIndex
  <2> QED
    BY <1>2, <2>1, <2>4, <2>8, SMTT(30) DEF AppendEntriesReplies
<1> QED
  BY <1>1, <1>2, <1>4, <1>5, <1>6, <1>7, SMTT(30) DEF AcceptsEntries

(* A leader whose log has at least what it had. *)
Grown(p, q) ==
    /\ q.role = p.role /\ q.currentTerm = p.currentTerm /\ (Marker(p) => Marker(q))
    /\ p.lastIncludedIndex <= q.lastIncludedIndex
    /\ LastLogicalIndex(p) <= LastLogicalIndex(q)

(* New nextIndex and matchIndex leave the log as it is. *)
LEMMA IndexStep ==
    ASSUME NEW p \in Fit, NEW next \in [Server -> Int], NEW match \in [Server -> Int]
    PROVE  LET q == [p EXCEPT !.nextIndex = next, !.matchIndex = match]
           IN  /\ q \in Fit /\ SameLog(p, q) /\ q.nextIndex = next /\ Grown(p, q)
               /\ q.role = p.role /\ q.currentTerm = p.currentTerm
<1> DEFINE q == [p EXCEPT !.nextIndex = next, !.matchIndex = match]
<1>1. /\ p \in Peer /\ p.lastIncludedIndex \in Int /\ LastLogicalIndex(p) \in Int
  BY FitFields
<1>2. /\ q \in Peer /\ SameLog(p, q) /\ q.nextIndex = next
      /\ q.role = p.role /\ q.currentTerm = p.currentTerm
      /\ q.lastIncludedTerm = p.lastIncludedTerm
  BY <1>1 DEF Peer, SameLog
<1> HIDE DEF q
<1>3. q \in Fit
  BY <1>2 DEF Fit, SameLog
<1>4. p.lastIncludedIndex <= p.lastIncludedIndex /\ LastLogicalIndex(p) <= LastLogicalIndex(p)
  BY <1>1, SMTT(30)
<1>5. Grown(p, q)
  BY <1>2, <1>4, SameKeeps DEF Grown, SameLog
<1> QED
  BY <1>2, <1>3, <1>5 DEF q

(* nextIndex after a rejection lies within the log, or is the hint. *)
LEMMA BackedUpStep ==
    ASSUME NEW p \in Fit, NEW reply \in AppendEntriesReplies,
           p.nextIndex[fol] <= LastLogicalIndex(p) + 1,
           reply.ConflictIndex <= LastLogicalIndex(p) + 1
    PROVE  LET n == BackedUpNextIndex(p, fol, reply)
           IN  n \in Int /\ n <= LastLogicalIndex(p) + 1
<1> DEFINE start == StorageIndex(p, p.nextIndex[fol] - 1)
           older == {i \in 0..start : Entry(p, i).Term <= reply.ConflictTerm}
           n == BackedUpNextIndex(p, fol, reply)
<1>1. /\ p.lastIncludedIndex \in Nat /\ LastLogicalIndex(p) \in Int /\ p.nextIndex[fol] \in Int
  BY FitFields, Constants
<1>2. start \in Int /\ start <= LastLogicalIndex(p)
  BY <1>1, SMTT(30) DEF StorageIndex
<1>3. (n = Max(older) + 1 /\ older # {}) \/ n = reply.ConflictIndex
  BY DEF BackedUpNextIndex
<1>4. older \subseteq 0..start
  OBVIOUS
<1> HIDE DEF older, start, n
<1>5. CASE n = Max(older) + 1 /\ older # {}
  <2>1. Max(older) \in 0..start
    <3>1. 0 \in Int
      BY SMTT(30)
    <3> QED
      BY <1>2, <1>4, <1>5, <3>1, MaxOfIndices
  <2>2. n \in Int /\ n <= LastLogicalIndex(p) + 1
    BY <1>1, <1>2, <1>5, <2>1, SMTT(30)
  <2> QED
    BY <2>2 DEF n
<1>6. CASE n = reply.ConflictIndex
  BY <1>6 DEF AppendEntriesReplies, n
<1> QED
  BY <1>3, <1>5, <1>6

(* handleAppendEntries of a leader whose indices are in range: it does not *)
(* panic, and leaves them in range.                                        *)
LEMMA HandleStep ==
    ASSUME NEW p \in Fit, p.role = "Leader", p.currentTerm = NewTerm,
           p.nextIndex[fol] <= LastLogicalIndex(p) + 1,
           NEW args \in AppendEntriesArgs, NEW reply \in AppendEntriesReplies,
           reply.Term <= NewTerm, reply.ConflictIndex <= LastLogicalIndex(p) + 1
    PROVE  LET q == HandleAppendEntries(p, ldr, fol, args, reply)
           IN  /\ ~HandleAppendEntriesPanics(p, fol, reply)
               /\ q \in Fit /\ Grown(p, q)
               /\ Placed(p) => Placed(q)
               /\ Ordered(p) => Ordered(q)
               /\ q.nextIndex[fol] <= LastLogicalIndex(q) + 1
<1> DEFINE q == HandleAppendEntries(p, ldr, fol, args, reply)
           last == LastLogicalIndex(p) + 1
           n == IF reply.Success THEN last ELSE BackedUpNextIndex(p, fol, reply)
           m == IF reply.Success THEN args.PrevLogIndex + Len(args.Entries)
                ELSE p.matchIndex[fol]
           next == [p.nextIndex EXCEPT ![fol] = n]
           match == [p.matchIndex EXCEPT ![fol] = m]
           r == [p EXCEPT !.nextIndex = next, !.matchIndex = match]
<1>1. /\ p \in Peer /\ p.nextIndex \in [Server -> Int] /\ p.matchIndex \in [Server -> Int]
      /\ LastLogicalIndex(p) \in Int /\ p.lastIncludedIndex \in Int /\ Len(p.logs) \in Int
      /\ LastLogicalIndex(p) = Len(p.logs) - 1 + p.lastIncludedIndex /\ NewTerm \in Nat
      /\ fol \in Server
  BY FitFields, Constants
<1>2. /\ args.PrevLogIndex \in Nat /\ args.Entries \in Seq(LogEntry)
      /\ reply.Term \in Nat /\ reply.Success \in BOOLEAN
  BY DEF AppendEntriesArgs, AppendEntriesReplies
<1>3. Len(args.Entries) \in Nat
  BY <1>2, LenProperties
<1>4. ~HandleAppendEntriesPanics(p, fol, reply)
  <2>1. p.nextIndex[fol] \in Int
    BY <1>1
  <2> QED
    BY <1>1, <2>1, SMTT(30) DEF HandleAppendEntriesPanics, StorageIndex, LastStorageIndex
<1>5. ~(reply.Term > p.currentTerm)
  BY <1>1, <1>2, SMTT(30)
<1>6. n \in Int /\ n <= last /\ m \in Int
  <2>1. last \in Int /\ last <= last /\ args.PrevLogIndex + Len(args.Entries) \in Int
    BY <1>1, <1>2, <1>3, SMTT(30)
  <2> QED
    BY <1>1, <2>1, BackedUpStep
<1>7. q = IF reply.Success THEN CommitMatched(r, ldr) ELSE r
  <2>1. CASE reply.Success
    BY <1>1, <1>5, <2>1 DEF HandleAppendEntries, Peer
  <2>2. CASE ~reply.Success
    <3>1. q = [p EXCEPT !.nextIndex = next]
      BY <1>1, <1>5, <2>2 DEF HandleAppendEntries, Peer
    <3>2. match = p.matchIndex
      BY <1>1, <2>2
    <3> HIDE DEF next, match, q
    <3>3. r = [p EXCEPT !.nextIndex = next]
      BY <1>1, <3>2 DEF Peer
    <3> QED
      BY <2>2, <3>1, <3>3
  <2> QED
    BY <2>1, <2>2
<1> HIDE DEF n, m, last, q
<1>8. next \in [Server -> Int] /\ next[fol] = n /\ match \in [Server -> Int]
  BY <1>1, <1>6
<1> HIDE DEF next, match
<1>9. r \in Fit /\ SameLog(p, r) /\ r.nextIndex = next /\ Grown(p, r)
  BY <1>8, IndexStep
<1> HIDE DEF r
<1>10. /\ Placed(p) => Placed(r)
       /\ Ordered(p) => Ordered(r)
       /\ LastLogicalIndex(r) = LastLogicalIndex(p)
  BY <1>9, SameKeeps
<1>11. LET c == CommitMatched(r, ldr)
       IN  /\ c \in Fit /\ (Placed(r) => Placed(c)) /\ (Ordered(r) => Ordered(c))
           /\ Grown(p, c) /\ c.nextIndex = next /\ LastLogicalIndex(c) = LastLogicalIndex(p)
  <2> DEFINE c == CommitMatched(r, ldr)
  <2>1. /\ c \in Fit /\ (Placed(r) => Placed(c)) /\ (Ordered(r) => Ordered(c))
        /\ c.role = r.role /\ c.currentTerm = r.currentTerm /\ c.nextIndex = r.nextIndex
        /\ c.lastIncludedIndex = r.lastIncludedIndex
        /\ LastLogicalIndex(c) = LastLogicalIndex(r)
    BY <1>9, CommitStep
  <2> HIDE DEF c
  <2> QED
    BY <1>9, <1>10, <2>1 DEF Grown, Marker, c
<1>12. /\ q \in Fit /\ Grown(p, q) /\ q.nextIndex = next
       /\ (Placed(p) => Placed(q)) /\ (Ordered(p) => Ordered(q))
       /\ LastLogicalIndex(q) = LastLogicalIndex(p)
  BY <1>2, <1>7, <1>9, <1>10, <1>11
<1> QED
  BY <1>4, <1>6, <1>8, <1>12 DEF q, last

(* Start adds an entry of the new term behind the log. *)
LEMMA StartStep ==
    ASSUME NEW p \in Fit, NEW command \in Command
    PROVE  LET q == AppendCommand(p, NewTerm, command)
           IN  /\ q \in Fit /\ Grown(p, q) /\ q.nextIndex = p.nextIndex
               /\ Placed(p) => Placed(q)
               /\ Ordered(p) => Ordered(q)
<1> DEFINE e == [Term |-> NewTerm, Command |-> command]
           log == Append(p.logs, e)
           q == AppendCommand(p, NewTerm, command)
           base == p.lastIncludedIndex
<1>1. /\ p \in Peer /\ p.logs \in Seq(LogEntry) /\ Len(p.logs) \in Nat /\ NewTerm \in Nat
      /\ LastLogicalIndex(p) = Len(p.logs) - 1 + base /\ base \in Int
      /\ p.commitIndex \in Int /\ LastLogicalIndex(p) \in Int
  BY FitFields
<1>2. e \in LogEntry /\ e.Term = NewTerm
  BY <1>1 DEF LogEntry
<1>3. q = [p EXCEPT !.logs = log]
  BY DEF AppendCommand
<1> HIDE DEF e
<1>4. /\ log \in Seq(LogEntry) /\ Len(log) = Len(p.logs) + 1 /\ log[Len(p.logs) + 1] = e
      /\ \A i \in 1..Len(p.logs) : log[i] = p.logs[i]
  BY <1>1, <1>2, AppendProperties
<1> HIDE DEF log, q
<1>5. /\ q \in Peer /\ q.logs = log /\ q.lastIncludedIndex = base
      /\ q.lastIncludedTerm = p.lastIncludedTerm /\ q.role = p.role
      /\ q.currentTerm = p.currentTerm /\ q.nextIndex = p.nextIndex
      /\ q.lastApplied = p.lastApplied /\ q.commitIndex = p.commitIndex
  BY <1>1, <1>3, <1>4 DEF Peer
<1>6. q \in Fit
  BY <1>5 DEF Fit
<1>7. LastLogicalIndex(q) = LastLogicalIndex(p) + 1
  BY <1>1, <1>4, <1>5, SMTT(30) DEF LastLogicalIndex
<1>8. Grown(p, q)
  <2>1. /\ base <= base /\ LastLogicalIndex(p) <= LastLogicalIndex(q)
        /\ base <= LastLogicalIndex(q)
    BY <1>1, <1>7, SMTT(30)
  <2> QED
    BY <1>5, <2>1 DEF Grown, Marker
<1>9. ASSUME Ordered(p) PROVE Ordered(q)
  <2>1. p.commitIndex <= LastLogicalIndex(q)
    BY <1>1, <1>7, <1>9, SMTT(30) DEF Ordered
  <2> QED
    BY <1>5, <1>9, <2>1 DEF Ordered
<1>10. ASSUME Placed(p), NEW i \in 1..LastStorageIndex(q)
       PROVE  InPlace(LogicalIndex(q, i), Entry(q, i))
  <2>1. i \in Int /\ (i = Len(p.logs) \/ i \in 1..(Len(p.logs) - 1))
    BY <1>1, <1>4, <1>5, SMTT(30) DEF LastStorageIndex
  <2>2. CASE i = Len(p.logs)
    BY <1>2, <1>4, <1>5, <2>2 DEF InPlace, Entry
  <2>3. CASE i \in 1..(Len(p.logs) - 1)
    <3>1. i + 1 \in 1..Len(p.logs)
      BY <1>1, <2>3, SMTT(30)
    <3>2. Entry(q, i) = Entry(p, i) /\ LogicalIndex(q, i) = LogicalIndex(p, i)
      BY <1>4, <1>5, <3>1 DEF Entry, LogicalIndex
    <3> QED
      BY <1>10, <2>3, <3>2 DEF Placed, LastStorageIndex
  <2> QED
    BY <2>1, <2>2, <2>3
<1> QED
  BY <1>5, <1>6, <1>8, <1>9, <1>10 DEF Placed, q

(* The answers of the other followers move nothing but their own indices  *)
(* and commitIndex.                                                        *)
LEMMA OthersStep ==
    ASSUME NEW p \in Fit, NEW n \in Int, NEW m \in Int
    PROVE  LET next == [o \in Server |-> IF o \in Peers THEN p.nextIndex[o] ELSE n]
               match == [o \in Server |-> IF o \in Peers THEN p.matchIndex[o] ELSE m]
               q == CommitMatched([p EXCEPT !.nextIndex = next, !.matchIndex = match], ldr)
           IN  /\ q \in Fit /\ Grown(p, q) /\ q.nextIndex[fol] = p.nextIndex[fol]
               /\ Placed(p) => Placed(q)
               /\ Ordered(p) => Ordered(q)
               /\ LastLogicalIndex(q) = LastLogicalIndex(p)
<1> DEFINE next == [o \in Server |-> IF o \in Peers THEN p.nextIndex[o] ELSE n]
           match == [o \in Server |-> IF o \in Peers THEN p.matchIndex[o] ELSE m]
           r == [p EXCEPT !.nextIndex = next, !.matchIndex = match]
           q == CommitMatched(r, ldr)
<1>1. p.nextIndex \in [Server -> Int] /\ p.matchIndex \in [Server -> Int]
  BY FitFields
<1>2. /\ next \in [Server -> Int] /\ next[fol] = p.nextIndex[fol]
      /\ match \in [Server -> Int]
  BY <1>1, Constants
<1> HIDE DEF next, match
<1>3. r \in Fit /\ SameLog(p, r) /\ r.nextIndex = next /\ Grown(p, r)
  BY <1>2, IndexStep
<1> HIDE DEF r
<1>4. /\ Placed(p) => Placed(r)
      /\ Ordered(p) => Ordered(r)
      /\ LastLogicalIndex(r) = LastLogicalIndex(p)
  BY <1>3, SameKeeps
<1>5. /\ q \in Fit /\ (Placed(r) => Placed(q)) /\ (Ordered(r) => Ordered(q))
      /\ q.role = r.role /\ q.currentTerm = r.currentTerm /\ q.nextIndex = r.nextIndex
      /\ q.lastIncludedIndex = r.lastIncludedIndex
      /\ LastLogicalIndex(q) = LastLogicalIndex(r)
  BY <1>3, CommitStep
<1> HIDE DEF q
<1>6. Grown(p, q)
  BY <1>3, <1>4, <1>5 DEF Grown, Marker
<1> QED
  BY <1>2, <1>3, <1>4, <1>5, <1>6 DEF q, r, next, match

(* An elected leader starts with nextIndex right behind its log. *)
LEMMA ElectStep ==
    ASSUME NEW p \in Fit
    PROVE  LET candidate == [BecomeCandidate(p, ldr) EXCEPT !.currentTerm = NewTerm]
               q == ConvertRole(candidate, "Leader")
           IN  /\ q \in Fit /\ SameLog(p, q) /\ q.role = "Leader" /\ q.currentTerm = NewTerm
               /\ q.nextIndex[fol] <= LastLogicalIndex(q) + 1
<1> DEFINE c == [BecomeCandidate(p, ldr) EXCEPT !.currentTerm = NewTerm]
           last == LastLogicalIndex(p) + 1
           next == [i \in Server |-> last]
           match == [i \in Server |-> -1]
           d == [p EXCEPT !.role = "Leader", !.currentTerm = NewTerm, !.votedFor = ldr]
           q == [d EXCEPT !.nextIndex = next, !.matchIndex = match]
<1>1. /\ p \in Peer /\ LastLogicalIndex(p) \in Int /\ NewTerm \in Nat /\ ldr \in Server
      /\ fol \in Server
  BY FitFields, Constants
<1>2. /\ d \in Peer /\ SameLog(p, d) /\ d.role = "Leader" /\ d.currentTerm = NewTerm
      /\ d.lastIncludedTerm = p.lastIncludedTerm
  BY <1>1 DEF Peer, Role, SameLog
<1>3. c = [p EXCEPT !.role = "Candidate", !.currentTerm = NewTerm, !.votedFor = ldr]
  BY <1>1 DEF BecomeCandidate, ConvertRole, Peer
<1>4. LastLogicalIndex(c) = LastLogicalIndex(p)
  BY <1>1, <1>3 DEF LastLogicalIndex, Peer
<1>5. ConvertRole(c, "Leader") = q
  <2>1. ConvertRole(c, "Leader") = [c EXCEPT !.role = "Leader", !.nextIndex = next,
                                             !.matchIndex = match]
    BY <1>4 DEF ConvertRole
  <2> HIDE DEF c, next, match
  <2> QED
    BY <1>1, <1>3, <2>1 DEF Peer
<1>6. last \in Int /\ -1 \in Int /\ last <= last
  BY <1>1, SMTT(30)
<1> HIDE DEF last
<1>7. next \in [Server -> Int] /\ match \in [Server -> Int] /\ next[fol] = last
  BY <1>1, <1>6
<1>8. d \in Fit
  <2>1. NewTerm <= NewTerm
    BY <1>1, SMTT(30)
  <2> HIDE DEF d
  <2> QED
    BY <1>2, <2>1 DEF Fit, SameLog
<1> HIDE DEF next, match, d
<1>9. /\ q \in Fit /\ SameLog(d, q) /\ q.nextIndex = next /\ q.role = d.role
      /\ q.currentTerm = d.currentTerm
  <2>1. \A x \in Fit : LET y == [x EXCEPT !.nextIndex = next, !.matchIndex = match]
                       IN  y \in Fit /\ SameLog(x, y) /\ y.nextIndex = next /\ Grown(x, y)
    BY <1>7, IndexStep
  <2>2. q \in Fit /\ SameLog(d, q) /\ q.nextIndex = next /\ Grown(d, q)
    BY <1>8, <2>1
  <2> HIDE DEF q
  <2> QED
    BY <2>2 DEF Grown
<1> HIDE DEF q
<1>10. SameLog(p, q)
  BY <1>2, <1>9 DEF SameLog
<1>11. q.nextIndex[fol] <= LastLogicalIndex(q) + 1
  BY <1>6, <1>7, <1>9, <1>10, SameKeeps DEF last
<1> QED
  BY <1>2, <1>5, <1>9, <1>10, <1>11

(* The answer of InstallSnapshot is a term. *)
LEMMA SnapshotReplyType ==
    ASSUME NEW p \in Fit, NEW args \in InstallSnapshotArgs
    PROVE  InstallSnapshotReply(p, args) \in [Term : Nat]
<1>1. p.currentTerm \in Nat /\ args.Term \in Nat
  BY FitFields DEF InstallSnapshotArgs
<1>2. Max({args.Term, p.currentTerm}) \in Nat /\ 0 \in Nat
  <2>1. args.Term \in Int /\ p.currentTerm \in Int /\ 0 \in Nat
    BY <1>1, SMTT(30)
  <2> QED
    BY <1>1, <2>1, MaxMinOfTwo
<1> QED
  BY <1>2 DEF InstallSnapshotReply

-----------------------------------------------------------------------------
(* Steps *)

(* What CatchUpInv says of the leader goes on to hold as its log grows. *)
LEMMA CallGrown ==
    ASSUME NEW p \in Fit, NEW q \in Fit, Grown(p, q), NEW c, CallOK(c, p)
    PROVE  CallOK(c, q)
<1>1. /\ LastLogicalIndex(p) \in Int /\ LastLogicalIndex(q) \in Int
      /\ p.lastIncludedIndex \in Int /\ q.lastIncludedIndex \in Int
  BY FitFields
<1>2. q.role = p.role
  BY DEF Grown
<1>3. /\ LastLogicalIndex(p) <= LastLogicalIndex(q)
      /\ p.lastIncludedIndex <= q.lastIncludedIndex
  BY DEF Grown
<1>4. ASSUME c.pc \in {"append", "appended"}
      PROVE  c.args.PrevLogIndex <= LastLogicalIndex(q)
  <2>1. c.args \in AppendEntriesArgs /\ c.args.PrevLogIndex <= LastLogicalIndex(p)
    BY <1>4 DEF CallOK
  <2>2. c.args.PrevLogIndex \in Nat
    BY <2>1 DEF AppendEntriesArgs
  <2> QED
    BY <1>1, <1>3, <2>1, <2>2, SMTT(30)
<1>5. ASSUME c.pc = "appended"
      PROVE  c.reply.ConflictIndex <= LastLogicalIndex(q) + 1
  <2>1. c.reply \in AppendEntriesReplies /\ c.reply.ConflictIndex <= LastLogicalIndex(p) + 1
    BY <1>5 DEF CallOK
  <2>2. c.reply.ConflictIndex \in Int
    BY <2>1 DEF AppendEntriesReplies
  <2> QED
    BY <1>1, <1>3, <2>1, <2>2, SMTT(30)
<1>6. ASSUME c.pc \in {"install", "installed", "setNext", "setMatch"}
      PROVE  c.args.LastIncludedIndex <= q.lastIncludedIndex
  <2>1. c.args.LastIncludedIndex \in Nat /\ c.args.LastIncludedIndex <= p.lastIncludedIndex
    BY <1>6 DEF CallOK
  <2> QED
    BY <1>1, <1>3, <2>1, SMTT(30)
<1> QED
  BY <1>2, <1>4, <1>5, <1>6 DEF CallOK

(* A goroutine that is done asks for nothing. *)
LEMMA IdleOK == Idle \in Call /\ \A p : CallOK(Idle, p)
<1>1. Idle.pc = "idle" /\ Idle \in Call
  BY DEF Idle, Call
<1> QED
  BY <1>1 DEF CallOK

(* what every step leaves of the other variables *)
Tidy ==
    /\ call' \in [Slots -> Call] /\ feeds' \in 0..MaxFeeds
    /\ started' \in 0..Len(NewCommands) /\ losses' \in 0..MaxLosses
    /\ panicked' \subseteq Peers /\ swapped' \subseteq Peers
    /\ cutBack \subseteq cutBack' /\ cutBack' \subseteq Peers
    /\ ldr \in panicked' => ldr \in cutBack'

(* Steps that change the leader's state *)
LEMMA LeaderStep ==
    ASSUME CatchUpInv, Tidy, NEW q \in Fit, rf' = [rf EXCEPT ![ldr] = q],
           Placed(q), ldr \notin cutBack' => Ordered(q),
           q.role = "Leader" => /\ feeds' = MaxFeeds /\ q.currentTerm = NewTerm /\ Marker(q)
                                /\ q.nextIndex[fol] <= LastLogicalIndex(q) + 1,
           \A k \in Slots : CallOK(call'[k], q)
    PROVE  CatchUpInv'
<1>1. rf \in [Peers -> Fit] /\ ldr \in Peers /\ fol \in Peers /\ ldr # fol
  BY Constants DEF CatchUpInv, TypeInv
<1>2. rf' \in [Peers -> Fit] /\ rf'[ldr] = q /\ \A s \in Peers : s # ldr => rf'[s] = rf[s]
  BY <1>1
<1>3. TypeInv'
  BY <1>2 DEF TypeInv, Tidy
<1>4. OrderInv'
  BY <1>1, <1>2 DEF CatchUpInv, OrderInv, Tidy
<1>5. LeadInv'
  BY <1>2 DEF LeadInv, Leads, Tidy
<1>6. \A s \in Peers : Placed(rf'[s])
  BY <1>2 DEF CatchUpInv
<1>7. \A k \in Slots : CallOK(call'[k], rf'[ldr])
  BY <1>2
<1> QED
  BY <1>3, <1>4, <1>5, <1>6, <1>7 DEF CatchUpInv

(* Steps that change at most the follower's state *)
LEMMA FollowerStep ==
    ASSUME CatchUpInv, Tidy, NEW q \in Fit, rf' = [rf EXCEPT ![fol] = q],
           Placed(q), fol \notin cutBack' => Ordered(q),
           Leads => feeds' = MaxFeeds,
           \A k \in Slots : CallOK(call'[k], rf[ldr])
    PROVE  CatchUpInv'
<1>1. rf \in [Peers -> Fit] /\ ldr \in Peers /\ fol \in Peers /\ ldr # fol
  BY Constants DEF CatchUpInv, TypeInv
<1>2. rf' \in [Peers -> Fit] /\ rf'[fol] = q /\ \A s \in Peers : s # fol => rf'[s] = rf[s]
  BY <1>1
<1>3. TypeInv'
  BY <1>2 DEF TypeInv, Tidy
<1>4. OrderInv'
  BY <1>1, <1>2 DEF CatchUpInv, OrderInv, Tidy
<1>5. LeadInv'
  BY <1>1, <1>2 DEF CatchUpInv, LeadInv, Leads, Tidy
<1>6. \A s \in Peers : Placed(rf'[s])
  BY <1>2 DEF CatchUpInv
<1>7. \A k \in Slots : CallOK(call'[k], rf'[ldr])
  BY <1>1, <1>2
<1> QED
  BY <1>3, <1>4, <1>5, <1>6, <1>7 DEF CatchUpInv

(* Steps that change neither *)
LEMMA StillStep ==
    ASSUME CatchUpInv, Tidy, rf' = rf, Leads => feeds' = MaxFeeds,
           \A k \in Slots : CallOK(call'[k], rf[ldr])
    PROVE  CatchUpInv'
<1>1. rf \in [Peers -> Fit] /\ fol \in Peers
  BY Constants DEF CatchUpInv, TypeInv
<1>2. rf[fol] \in Fit /\ rf' = [rf EXCEPT ![fol] = rf[fol]]
  BY <1>1
<1>3. Placed(rf[fol]) /\ (fol \notin cutBack' => Ordered(rf[fol]))
  BY <1>1 DEF CatchUpInv, OrderInv, Tidy
<1> QED
  BY <1>2, <1>3, FollowerStep

(* the variables a step leaves alone *)
LEMMA Unchanged ==
    ASSUME CatchUpInv
    PROVE  /\ call \in [Slots -> Call] /\ feeds \in 0..MaxFeeds
           /\ started \in 0..Len(NewCommands) /\ losses \in 0..MaxLosses
           /\ panicked \subseteq Peers /\ swapped \subseteq Peers
           /\ cutBack \subseteq cutBack /\ cutBack \subseteq Peers
           /\ ldr \in panicked => ldr \in cutBack
           /\ rf \in [Peers -> Fit] /\ ldr \in Peers /\ fol \in Peers /\ ldr # fol
           /\ rf[ldr] \in Fit /\ rf[fol] \in Fit /\ Peers = {ldr, fol}
           /\ Placed(rf[ldr]) /\ Placed(rf[fol])
           /\ ldr \notin cutBack => Ordered(rf[ldr])
           /\ fol \notin cutBack => Ordered(rf[fol])
           /\ \A k \in Slots : CallOK(call[k], rf[ldr])
           /\ Leads => /\ feeds = MaxFeeds /\ rf[ldr].currentTerm = NewTerm
                       /\ Marker(rf[ldr])
                       /\ rf[ldr].nextIndex[fol] <= LastLogicalIndex(rf[ldr]) + 1
BY Constants DEF CatchUpInv, TypeInv, OrderInv, LeadInv, Peers

(* The calls of a leader that stays one, whose log has what it had *)
LEMMA CallsStay ==
    ASSUME CatchUpInv, NEW q \in Fit, Grown(rf[ldr], q)
    PROVE  \A k \in Slots : CallOK(call[k], q)
BY Unchanged, CallGrown

(* one of the calls goes on *)
LEMMA CallsGo ==
    ASSUME CatchUpInv, NEW q \in Fit, \A i \in Slots : CallOK(call[i], q),
           NEW k \in Slots, NEW c \in Call, CallOK(c, q), Goes(k, c)
    PROVE  call' \in [Slots -> Call] /\ \A i \in Slots : CallOK(call'[i], q)
<1>1. call \in [Slots -> Call] /\ call' = [call EXCEPT ![k] = c]
  BY Unchanged DEF Goes
<1> QED
  BY <1>1

(* Steps in which the leader's log has at least what it had *)
LEMMA LeaderGrows ==
    ASSUME CatchUpInv, Tidy, NEW q \in Fit, rf' = [rf EXCEPT ![ldr] = q],
           Placed(q), ldr \notin cutBack' => Ordered(q), Grown(rf[ldr], q), feeds' = feeds,
           Leads => q.nextIndex[fol] <= LastLogicalIndex(q) + 1,
           \A k \in Slots : CallOK(call'[k], q)
    PROVE  CatchUpInv'
<1>1. /\ q.role = rf[ldr].role /\ q.currentTerm = rf[ldr].currentTerm
      /\ Marker(rf[ldr]) => Marker(q)
  BY DEF Grown
<1>2. q.role = "Leader" => /\ feeds' = MaxFeeds /\ q.currentTerm = NewTerm /\ Marker(q)
                           /\ q.nextIndex[fol] <= LastLogicalIndex(q) + 1
  BY <1>1, Unchanged DEF Leads
<1> QED
  BY <1>2, LeaderStep

(* nextIndex stays behind a log that grows. *)
LEMMA NextStays ==
    ASSUME NEW p \in Fit, NEW q \in Fit, Grown(p, q), q.nextIndex[fol] = p.nextIndex[fol],
           p.nextIndex[fol] <= LastLogicalIndex(p) + 1
    PROVE  q.nextIndex[fol] <= LastLogicalIndex(q) + 1
<1>1. LastLogicalIndex(p) \in Int /\ LastLogicalIndex(q) \in Int /\ p.nextIndex[fol] \in Int
  BY FitFields, Constants
<1>2. LastLogicalIndex(p) <= LastLogicalIndex(q)
  BY DEF Grown
<1> QED
  BY <1>1, <1>2, SMTT(30)

(* What is applied was committed. *)
LEMMA AppliedStep ==
    ASSUME NEW p \in Fit, NEW index \in Int, index <= p.commitIndex
    PROVE  LET q == [p EXCEPT !.lastApplied = index]
           IN  /\ q \in Fit /\ Grown(p, q) /\ q.nextIndex = p.nextIndex
               /\ Placed(p) => Placed(q)
               /\ Ordered(p) => Ordered(q)
<1> DEFINE q == [p EXCEPT !.lastApplied = index]
<1>1. p \in Peer /\ p.lastIncludedIndex \in Int /\ LastLogicalIndex(p) \in Int
  BY FitFields
<1>2. /\ q \in Peer /\ q.logs = p.logs /\ q.lastIncludedIndex = p.lastIncludedIndex
      /\ q.lastIncludedTerm = p.lastIncludedTerm /\ q.role = p.role
      /\ q.currentTerm = p.currentTerm /\ q.nextIndex = p.nextIndex
      /\ q.lastApplied = index /\ q.commitIndex = p.commitIndex
  BY <1>1 DEF Peer
<1> HIDE DEF q
<1>3. q \in Fit
  BY <1>2 DEF Fit
<1>4. LastLogicalIndex(q) = LastLogicalIndex(p) /\ (Placed(p) => Placed(q))
  BY <1>2 DEF LastLogicalIndex, Placed, LastStorageIndex, LogicalIndex, Entry
<1>5. Grown(p, q)
  <2>1. /\ p.lastIncludedIndex <= p.lastIncludedIndex
        /\ LastLogicalIndex(p) <= LastLogicalIndex(p)
    BY <1>1, SMTT(30)
  <2> QED
    BY <1>2, <1>4, <2>1 DEF Grown, Marker
<1>6. Ordered(p) => Ordered(q)
  BY <1>2, <1>4 DEF Ordered
<1> QED
  BY <1>2, <1>3, <1>4, <1>5, <1>6 DEF q

(* Steps in which only one of the peers changes, by itself *)
LEMMA PeerStep ==
    ASSUME CatchUpInv, UNCHANGED <<feeds, started, call, losses, swapped, panicked, cutBack>>,
           NEW s \in Peers, NEW q \in Fit, rf' = [rf EXCEPT ![s] = q],
           Grown(rf[s], q), q.nextIndex = rf[s].nextIndex,
           Placed(rf[s]) => Placed(q), Ordered(rf[s]) => Ordered(q)
    PROVE  CatchUpInv'
<1>1. Tidy
  BY Unchanged DEF Tidy
<1>2. CASE s = ldr
  <2>1. \A k \in Slots : CallOK(call'[k], q)
    BY <1>2, CallsStay
  <2>2. Leads => q.nextIndex[fol] <= LastLogicalIndex(q) + 1
    BY <1>2, NextStays, Unchanged
  <2>3. Placed(q) /\ (ldr \notin cutBack' => Ordered(q))
    BY <1>2, Unchanged
  <2> QED
    BY <1>1, <1>2, <2>1, <2>2, <2>3, LeaderGrows
<1>3. CASE s = fol
  <2>1. \A k \in Slots : CallOK(call'[k], rf[ldr])
    BY Unchanged
  <2>2. Placed(q) /\ (fol \notin cutBack' => Ordered(q))
    BY <1>3, Unchanged
  <2>3. Leads => feeds' = MaxFeeds
    BY Unchanged
  <2> QED
    BY <1>1, <1>3, <2>1, <2>2, <2>3, FollowerStep
<1> QED
  BY <1>2, <1>3, Unchanged

(* A peer dies whose log does not reach what it has committed. *)
LEMMA DeathStep ==
    ASSUME CatchUpInv, UNCHANGED <<rf, started, call, losses, cutBack>>,
           feeds' \in {feeds, MaxFeeds}, swapped' \subseteq Peers, NEW s \in Peers,
           panicked' = panicked \/ (panicked' = panicked \cup {s} /\ ~Ordered(rf[s]))
    PROVE  CatchUpInv'
<1>1. ldr \in panicked' => ldr \in cutBack
  BY Unchanged
<1>2. MaxFeeds \in 0..MaxFeeds
  BY CatchUpAssumption, SMTT(30)
<1>3. panicked' \subseteq Peers /\ feeds' \in 0..MaxFeeds
  BY <1>2, Unchanged
<1>4. Tidy
  BY <1>1, <1>3, Unchanged DEF Tidy
<1>5. Leads => feeds' = MaxFeeds
  BY Unchanged
<1>6. \A k \in Slots : CallOK(call'[k], rf[ldr])
  BY Unchanged
<1> QED
  BY <1>4, <1>5, <1>6, StillStep

(* An index a peer has committed is not beyond its log, *)
LEMMA BeyondLog ==
    ASSUME NEW p \in Fit, NEW index \in Int, index <= p.commitIndex,
           index > LastLogicalIndex(p)
    PROVE  ~Ordered(p)
<1>1. LastLogicalIndex(p) \in Int /\ p.commitIndex \in Int
  BY FitFields
<1>2. ~(p.commitIndex <= LastLogicalIndex(p))
  BY <1>1, SMTT(30)
<1> QED
  BY <1>2 DEF Ordered

(* and a log that is cut to nothing does not reach the snapshot. *)
LEMMA EmptyLog ==
    ASSUME NEW p \in Fit
    PROVE  IF p.logs = <<>> THEN ~Ordered(p) ELSE Marker(p)
<1>1. /\ p.lastIncludedIndex \in Int /\ p.commitIndex \in Int /\ p.logs \in Seq(LogEntry)
      /\ LastLogicalIndex(p) = Len(p.logs) - 1 + p.lastIncludedIndex /\ Len(p.logs) \in Nat
  BY FitFields
<1>2. CASE p.logs = <<>>
  <2>1. Len(p.logs) = 0
    BY <1>2, EmptySeq
  <2>2. ~(p.lastIncludedIndex <= p.commitIndex /\ p.commitIndex <= LastLogicalIndex(p))
    BY <1>1, <2>1, SMTT(30)
  <2> QED
    BY <1>2, <2>2 DEF Ordered
<1>3. CASE p.logs # <<>>
  <2>1. Len(p.logs) # 0
    BY <1>1, <1>3, EmptySeq
  <2>2. p.lastIncludedIndex <= LastLogicalIndex(p)
    BY <1>1, <2>1, SMTT(30)
  <2> QED
    BY <1>3, <2>2 DEF Marker
<1> QED
  BY <1>2, <1>3

LEMMA applyLogsInv == ASSUME CatchUpInv, NEW s \in Peers, applyLogs(s) PROVE CatchUpInv'
<1>1. /\ UNCHANGED <<rf, feeds, started, call, losses, cutBack>>
      /\ swapped' \in {swapped, swapped \cup {s}}
      /\ \/ panicked' = panicked
         \/ panicked' = panicked \cup {s} /\ LastLogicalIndex(rf[s]) < rf[s].commitIndex
  BY DEF applyLogs
<1>2. rf[s] \in Fit /\ swapped' \subseteq Peers /\ feeds' \in {feeds, MaxFeeds}
  BY <1>1, Unchanged
<1>3. LastLogicalIndex(rf[s]) < rf[s].commitIndex => ~Ordered(rf[s])
  <2>1. LastLogicalIndex(rf[s]) \in Int /\ rf[s].commitIndex \in Int
    BY <1>2, FitFields
  <2>2. LastLogicalIndex(rf[s]) < rf[s].commitIndex =>
            ~(rf[s].commitIndex <= LastLogicalIndex(rf[s]))
    BY <2>1, SMTT(30)
  <2> QED
    BY <2>2 DEF Ordered
<1> QED
  BY <1>1, <1>2, <1>3, DeathStep

LEMMA SetAppliedInv ==
    ASSUME CatchUpInv, NEW s \in Peers, NEW index \in 1..rf[s].commitIndex,
           SetApplied(s, index)
    PROVE  CatchUpInv'
<1> DEFINE p == rf[s]
           q == [p EXCEPT !.lastApplied = index]
<1>1. /\ UNCHANGED <<feeds, started, call, losses, swapped, panicked, cutBack>>
      /\ rf' = [rf EXCEPT ![s] = q] /\ index <= p.commitIndex
  BY DEF SetApplied
<1>2. p \in Fit /\ p.commitIndex \in Int
  BY Unchanged, FitFields
<1>3. index \in Int
  BY <1>2, SMTT(30)
<1>4. /\ q \in Fit /\ Grown(p, q) /\ q.nextIndex = p.nextIndex
      /\ (Placed(p) => Placed(q)) /\ (Ordered(p) => Ordered(q))
  BY <1>1, <1>2, <1>3, AppliedStep
<1> HIDE DEF q
<1> QED
  BY <1>1, <1>4, PeerStep

LEMMA SnapshotInv ==
    ASSUME CatchUpInv, NEW s \in Peers, NEW index \in 1..rf[s].commitIndex,
           Snapshot(s, index)
    PROVE  CatchUpInv'
<1> DEFINE p == rf[s]
           q == TrimLogs(p, index)
<1>1. /\ UNCHANGED <<feeds, started, call, losses, swapped, cutBack>>
      /\ index > p.lastIncludedIndex /\ index <= p.commitIndex
  BY DEF Snapshot
<1>2. p \in Fit /\ p.commitIndex \in Int /\ LastLogicalIndex(p) \in Int
  BY Unchanged, FitFields
<1>3. index \in Int
  BY <1>2, SMTT(30)
<1>4. CASE index > LastLogicalIndex(p)
  <2>1. panicked' = panicked \cup {s} /\ rf' = rf
    BY <1>4 DEF Snapshot, Panics
  <2>2. ~Ordered(p)
    BY <1>1, <1>2, <1>3, <1>4, BeyondLog
  <2> QED
    BY <1>1, <2>1, <2>2, DeathStep, Unchanged
<1>5. CASE ~(index > LastLogicalIndex(p))
  <2>1. panicked' = panicked /\ rf' = [rf EXCEPT ![s] = q]
    BY <1>5 DEF Snapshot, Becomes
  <2>2. index <= LastLogicalIndex(p)
    BY <1>2, <1>3, <1>5, SMTT(30)
  <2>3. /\ q \in Fit /\ (Placed(p) => Placed(q)) /\ (Ordered(p) => Ordered(q))
        /\ q.role = p.role /\ q.currentTerm = p.currentTerm
        /\ q.nextIndex = p.nextIndex /\ p.lastIncludedIndex <= q.lastIncludedIndex
        /\ LastLogicalIndex(q) = LastLogicalIndex(p) /\ Marker(q)
    BY <1>1, <1>2, <1>3, <2>2, TrimStep
  <2> HIDE DEF q
  <2>4. LastLogicalIndex(p) <= LastLogicalIndex(q)
    BY <1>2, <2>3, SMTT(30)
  <2>5. Grown(p, q)
    BY <2>3, <2>4 DEF Grown
  <2> QED
    BY <1>1, <2>1, <2>3, <2>5, PeerStep
<1> QED
  BY <1>4, <1>5

LEMMA StartInv == ASSUME CatchUpInv, Start PROVE CatchUpInv'
<1> DEFINE p == rf[ldr]
           command == NewCommands[started + 1]
           q == AppendCommand(p, NewTerm, command)
<1>1. /\ UNCHANGED <<feeds, call, losses, swapped, panicked, cutBack>>
      /\ started < Len(NewCommands) /\ started' = started + 1 /\ rf' = [rf EXCEPT ![ldr] = q]
  BY DEF Start
<1>2. NewCommands \in Seq(Command) /\ Len(NewCommands) \in Nat
  BY CatchUpAssumption, LenProperties
<1>3. started + 1 \in 1..Len(NewCommands) /\ started + 1 \in 0..Len(NewCommands)
  BY <1>1, <1>2, Unchanged, SMTT(30)
<1>4. command \in Command
  BY <1>2, <1>3, ElementOfSeq
<1>5. Tidy
  BY <1>1, <1>3, Unchanged DEF Tidy
<1> HIDE DEF command
<1>6. /\ q \in Fit /\ Grown(p, q) /\ q.nextIndex = p.nextIndex
      /\ (Placed(p) => Placed(q)) /\ (Ordered(p) => Ordered(q))
  BY <1>4, Unchanged, StartStep
<1> HIDE DEF q
<1>7. \A k \in Slots : CallOK(call'[k], q)
  BY <1>1, <1>6, CallsStay
<1>8. Leads => q.nextIndex[fol] <= LastLogicalIndex(q) + 1
  BY <1>6, NextStays, Unchanged
<1> QED
  BY <1>1, <1>5, <1>6, <1>7, <1>8, Unchanged, LeaderGrows

LEMMA OthersInv == ASSUME CatchUpInv, OthersAnswer PROVE CatchUpInv'
<1> DEFINE p == rf[ldr]
           last == LastLogicalIndex(p)
           next == [o \in Server |-> IF o \in Peers THEN p.nextIndex[o] ELSE last + 1]
           match == [o \in Server |-> IF o \in Peers THEN p.matchIndex[o] ELSE last]
           q == CommitMatched([p EXCEPT !.nextIndex = next, !.matchIndex = match], ldr)
<1>1. p \in Fit /\ last \in Int /\ last + 1 \in Int
  <2>1. p \in Fit
    BY Unchanged
  <2>2. last \in Int
    BY <2>1, FitFields
  <2> QED
    BY <2>1, <2>2, SMTT(30)
<1>2. UNCHANGED <<feeds, started, call, losses, swapped, panicked, cutBack>>
  BY DEF OthersAnswer, Becomes
<1>3. rf' = [rf EXCEPT ![ldr] = q]
  BY DEF OthersAnswer, Becomes
<1>4. Tidy
  BY <1>2, Unchanged DEF Tidy
<1>5. /\ q \in Fit /\ Grown(p, q) /\ q.nextIndex[fol] = p.nextIndex[fol]
      /\ (Placed(p) => Placed(q)) /\ (Ordered(p) => Ordered(q))
  BY <1>1, OthersStep
<1> HIDE DEF q
<1>6. \A k \in Slots : CallOK(call'[k], q)
  BY <1>2, <1>5, CallsStay
<1>7. Leads => q.nextIndex[fol] <= LastLogicalIndex(q) + 1
  BY <1>1, <1>5, NextStays, Unchanged
<1> QED
  BY <1>2, <1>3, <1>4, <1>5, <1>6, <1>7, Unchanged, LeaderGrows

(* the requests of earlier leaders *)
LEMMA FeedArgs ==
    ASSUME NEW t \in OldTerms, NEW last \in 0..Len(OldLog[t]), NEW prev \in 0..last,
           NEW commit \in 0..last
    PROVE  LET args == [Term |-> t, LeaderId |-> ldr, PrevLogIndex |-> prev,
                        PrevLogTerm |-> OldTerm(t, prev),
                        Entries |-> SubSeq(OldLog[t], prev + 1, last),
                        LeaderCommit |-> commit]
           IN  /\ args \in AppendEntriesArgs /\ args.Term <= NewTerm /\ EntriesPlaced(args)
               /\ args.PrevLogIndex = prev /\ args.PrevLogIndex + Len(args.Entries) = last
<1> DEFINE m == prev + 1
           entries == SubSeq(OldLog[t], m, last)
           args == [Term |-> t, LeaderId |-> ldr, PrevLogIndex |-> prev,
                    PrevLogTerm |-> OldTerm(t, prev), Entries |-> entries,
                    LeaderCommit |-> commit]
<1>1. /\ Len(OldLog) \in Nat /\ OldTerms = 1..Len(OldLog) /\ NewTerm = Len(OldLog) + 1
      /\ OldLog[t] \in Seq(LogEntry) /\ Len(OldLog[t]) \in Nat /\ ldr \in Server
  BY Constants
<1>2. t \in Nat /\ t <= NewTerm
  BY <1>1, SMTT(30)
<1>3. /\ last \in Int /\ last <= Len(OldLog[t]) /\ prev \in Nat /\ prev <= last
      /\ prev \in Int /\ commit \in Int /\ m \in Int /\ m = prev + 1
  BY <1>1, SMTT(30)
<1> HIDE DEF m
<1>4. OldTerm(t, prev) \in Nat
  <2>1. CASE prev = 0
    BY <1>3, <2>1 DEF OldTerm
  <2>2. CASE prev # 0
    <3>1. prev \in 1..Len(OldLog[t])
      BY <1>1, <1>3, <2>2, SMTT(30)
    <3>2. OldLog[t][prev] \in LogEntry
      BY <1>1, <3>1, ElementOfSeq
    <3> QED
      BY <2>2, <3>2 DEF OldTerm, LogEntry
  <2> QED
    BY <2>1, <2>2
<1>5. \A i \in m..last : OldLog[t][i] \in LogEntry
  BY <1>1, <1>3, ElementOfSeq, SMTT(30)
<1>6. /\ entries \in Seq(LogEntry) /\ Len(entries) = IF m <= last THEN last - m + 1 ELSE 0
      /\ \A i \in 1..(last - m + 1) : entries[i] = OldLog[t][m + i - 1]
  BY <1>3, <1>5, SubSeqProperties, SMTT(30)
<1> HIDE DEF entries
<1>7. prev + Len(entries) = last /\ Len(entries) = last - prev
  BY <1>3, <1>6, SMTT(30)
<1>8. /\ args \in AppendEntriesArgs /\ args.Term = t /\ args.PrevLogIndex = prev
      /\ args.Entries = entries
  BY <1>1, <1>2, <1>3, <1>4, <1>6 DEF AppendEntriesArgs
<1>9. ASSUME NEW j \in 1..Len(entries) PROVE InPlace(prev + j, entries[j])
  <2>1. j \in 1..(last - m + 1) /\ prev + j <= Len(OldLog[t]) /\ m + j - 1 = prev + j
    BY <1>1, <1>3, <1>7, SMTT(30)
  <2>2. entries[j] = OldLog[t][prev + j]
    BY <1>6, <2>1
  <2> QED
    BY <2>1, <2>2 DEF InPlace
<1>10. EntriesPlaced(args)
  BY <1>8, <1>9 DEF EntriesPlaced
<1> QED
  BY <1>2, <1>7, <1>8, <1>10 DEF args, entries, m

(* Nobody leads while requests of earlier leaders arrive. *)
LEMMA FeedStep ==
    ASSUME CatchUpInv, feeds < MaxFeeds, feeds' = feeds + 1,
           UNCHANGED <<started, call, losses, swapped>>,
           panicked' \subseteq Peers, ldr \in panicked' => ldr \in cutBack',
           cutBack \subseteq cutBack', cutBack' \subseteq Peers,
           NEW s \in Peers, NEW q \in Fit, rf' = [rf EXCEPT ![s] = q],
           q.role \in {rf[s].role, "Follower"}, Placed(q), s \notin cutBack' => Ordered(q)
    PROVE  CatchUpInv'
<1>1. feeds + 1 \in 0..MaxFeeds /\ feeds # MaxFeeds
  BY Unchanged, CatchUpAssumption, SMTT(30)
<1>2. ~Leads /\ rf[ldr].role # "Leader"
  BY <1>1, Unchanged DEF Leads
<1>3. \A k \in Slots : call[k].pc = "idle"
  BY <1>2, Unchanged DEF CallOK
<1>4. \A k \in Slots, p \in Fit : CallOK(call'[k], p)
  BY <1>3 DEF CallOK
<1>5. Tidy
  BY <1>1, Unchanged DEF Tidy
<1>6. CASE s = ldr
  <2>1. q.role # "Leader"
    BY <1>2, <1>6
  <2> QED
    BY <1>4, <1>5, <1>6, <2>1, LeaderStep
<1>7. CASE s = fol
  BY <1>2, <1>4, <1>5, <1>7, Unchanged, FollowerStep
<1> QED
  BY <1>6, <1>7, Unchanged

(* AppendEntries: a peer whose log it cuts too far is remembered, *)
(* whether it survives that or not.                               *)
LEMMA ReceivedAppend ==
    ASSUME CatchUpInv, NEW s \in Peers, NEW args \in AppendEntriesArgs,
           args.Term <= NewTerm, EntriesPlaced(args), ReceiveAppend(s, args)
    PROVE  /\ \E q \in Fit : /\ rf' = [rf EXCEPT ![s] = q] /\ Placed(q)
                             /\ q.role \in {rf[s].role, "Follower"}
                             /\ s \notin cutBack' => Ordered(q)
           /\ cutBack \subseteq cutBack' /\ cutBack' \subseteq Peers
           /\ panicked' \subseteq Peers /\ (ldr \in panicked' => ldr \in cutBack')
<1> DEFINE p == rf[s]
           q == AppendEntries(p, args)
           Cuts == /\ AcceptsEntries(p, args)
                   /\ \/ args.PrevLogIndex < p.lastIncludedIndex
                      \/ args.PrevLogIndex + Len(args.Entries) < p.commitIndex
<1>1. cutBack' = cutBack \cup {x \in {s} : Cuts}
  BY DEF ReceiveAppend
<1>2. p \in Fit /\ Placed(p) /\ (s \notin cutBack => Ordered(p))
  BY Unchanged
<1> HIDE DEF Cuts
<1>3. /\ cutBack \subseteq cutBack' /\ cutBack' \subseteq Peers
      /\ s \notin cutBack' => ~Cuts /\ s \notin cutBack
  BY <1>1, Unchanged
<1>4. CASE AppendEntriesPanics(p, args)
  <2>1. panicked' = panicked \cup {s} /\ rf' = rf
    BY <1>4 DEF ReceiveAppend, Panics
  <2>2. Cuts
    <3>1. args.PrevLogIndex \in Nat /\ p.lastIncludedIndex \in Int
      BY <1>2, FitFields DEF AppendEntriesArgs
    <3>2. /\ AcceptsEntries(p, args)
          /\ args.PrevLogIndex - p.lastIncludedIndex < -1
      BY <1>4 DEF AppendEntriesPanics, StorageIndex
    <3>3. args.PrevLogIndex < p.lastIncludedIndex
      BY <3>1, <3>2, SMTT(30)
    <3> QED
      BY <3>2, <3>3 DEF Cuts
  <2>3. s \in cutBack' /\ rf' = [rf EXCEPT ![s] = p]
    BY <1>3, <2>1, <2>2, Unchanged
  <2>4. panicked' \subseteq Peers /\ (ldr \in panicked' => ldr \in cutBack')
    BY <1>3, <2>1, <2>3, Unchanged
  <2> QED
    BY <1>2, <1>3, <2>3, <2>4
<1>5. CASE ~AppendEntriesPanics(p, args)
  <2>1. rf' = [rf EXCEPT ![s] = q] /\ panicked' = panicked
    BY <1>5 DEF ReceiveAppend, Becomes
  <2>2. /\ q \in Fit /\ q.role \in {p.role, "Follower"} /\ (Placed(p) => Placed(q))
        /\ (~Ordered(p) \/ Ordered(q) \/ Cuts)
    BY <1>2, <1>5, AppendStep DEF Cuts
  <2> HIDE DEF q
  <2>3. panicked' \subseteq Peers /\ (ldr \in panicked' => ldr \in cutBack')
    BY <1>3, <2>1, Unchanged
  <2> QED
    BY <1>2, <1>3, <2>1, <2>2, <2>3
<1> QED
  BY <1>4, <1>5

LEMMA FeedAppendInv ==
    ASSUME CatchUpInv, NEW t \in OldTerms, NEW s \in Peers,
           NEW last \in 0..Len(OldLog[t]), NEW prev \in 0..last, NEW commit \in 0..last,
           FeedAppend(t, s, prev, last, commit)
    PROVE  CatchUpInv'
<1> DEFINE args == [Term |-> t, LeaderId |-> ldr, PrevLogIndex |-> prev,
                    PrevLogTerm |-> OldTerm(t, prev),
                    Entries |-> SubSeq(OldLog[t], prev + 1, last), LeaderCommit |-> commit]
<1>1. /\ feeds < MaxFeeds /\ ReceiveAppend(s, args) /\ feeds' = feeds + 1
      /\ UNCHANGED <<started, call, losses, swapped>>
  BY DEF FeedAppend
<1>2. args \in AppendEntriesArgs /\ args.Term <= NewTerm /\ EntriesPlaced(args)
  BY FeedArgs
<1> HIDE DEF args
<1>3. /\ cutBack \subseteq cutBack' /\ cutBack' \subseteq Peers
      /\ panicked' \subseteq Peers /\ (ldr \in panicked' => ldr \in cutBack')
  BY <1>1, <1>2, ReceivedAppend
<1>4. PICK q \in Fit : /\ rf' = [rf EXCEPT ![s] = q] /\ Placed(q)
                       /\ q.role \in {rf[s].role, "Follower"}
                       /\ s \notin cutBack' => Ordered(q)
  BY <1>1, <1>2, ReceivedAppend
<1> QED
  BY <1>1, <1>3, <1>4, FeedStep

LEMMA FeedSnapshotInv ==
    ASSUME CatchUpInv, NEW t \in OldTerms, NEW s \in Peers,
           NEW index \in 0..Len(OldLog[t]), index > 0, FeedSnapshot(t, s, index)
    PROVE  CatchUpInv'
<1> DEFINE args == [Term |-> t, LeaderId |-> ldr, LastIncludedIndex |-> index,
                    LastIncludedTerm |-> OldTerm(t, index)]
           p == rf[s]
           q == InstallSnapshot(p, args)
<1>1. /\ feeds < MaxFeeds /\ ReceiveSnapshot(s, args) /\ feeds' = feeds + 1
      /\ UNCHANGED <<started, call, losses, swapped>>
  BY DEF FeedSnapshot
<1>2. /\ Len(OldLog) \in Nat /\ OldTerms = 1..Len(OldLog) /\ NewTerm = Len(OldLog) + 1
      /\ OldLog[t] \in Seq(LogEntry) /\ Len(OldLog[t]) \in Nat /\ ldr \in Server
  BY Constants
<1>3. /\ t \in Nat /\ t <= NewTerm /\ index \in Nat /\ index \in Int /\ index # 0
      /\ index \in 1..Len(OldLog[t])
  BY <1>2, SMTT(30)
<1>4. OldTerm(t, index) \in Nat /\ OldTerm(t, index) \in Int
  <2>1. OldLog[t][index] \in LogEntry
    BY <1>2, <1>3, ElementOfSeq
  <2>2. OldTerm(t, index) \in Nat
    BY <1>3, <2>1 DEF OldTerm, LogEntry
  <2> QED
    BY <2>2, SMTT(30)
<1>5. /\ args \in InstallSnapshotArgs /\ args.Term <= NewTerm
      /\ args.LastIncludedIndex \in Nat /\ args.LastIncludedTerm \in Nat
  BY <1>2, <1>3, <1>4 DEF InstallSnapshotArgs
<1> HIDE DEF args
<1>6. p \in Fit
  BY Unchanged
<1>7. /\ q \in Fit /\ q.role \in {p.role, "Follower"} /\ (Placed(p) => Placed(q))
      /\ Ordered(p) => Ordered(q)
  BY <1>5, <1>6, InstallStep
<1>8. rf' = [rf EXCEPT ![s] = q] /\ panicked' = panicked /\ cutBack' = cutBack
  BY <1>1 DEF ReceiveSnapshot, Becomes
<1> HIDE DEF q
<1>9. /\ Placed(q) /\ (s \notin cutBack' => Ordered(q))
      /\ panicked' \subseteq Peers /\ (ldr \in panicked' => ldr \in cutBack')
      /\ cutBack \subseteq cutBack' /\ cutBack' \subseteq Peers
  BY <1>7, <1>8, Unchanged
<1> QED
  BY <1>1, <1>7, <1>8, <1>9, FeedStep

LEMMA ElectInv == ASSUME CatchUpInv, Elect PROVE CatchUpInv'
<1> DEFINE p == rf[ldr]
           candidate == [BecomeCandidate(p, ldr) EXCEPT !.currentTerm = NewTerm]
           q == ConvertRole(candidate, "Leader")
<1>1. /\ p.role # "Leader" /\ feeds' = MaxFeeds
      /\ UNCHANGED <<started, call, losses, swapped, cutBack>>
  BY DEF Elect, Leads
<1>2. p \in Fit
  BY Unchanged
<1>3. CASE p.logs = <<>>
  <2>1. panicked' = panicked \cup {ldr} /\ rf' = rf
    BY <1>3 DEF Elect, Panics
  <2>2. ~Ordered(p)
    BY <1>2, <1>3, EmptyLog
  <2> QED
    BY <1>1, <2>1, <2>2, DeathStep, Unchanged
<1>4. CASE p.logs # <<>>
  <2>1. rf' = [rf EXCEPT ![ldr] = q] /\ panicked' = panicked
    BY <1>4 DEF Elect, Becomes
  <2>2. /\ q \in Fit /\ SameLog(p, q) /\ q.role = "Leader" /\ q.currentTerm = NewTerm
        /\ q.nextIndex[fol] <= LastLogicalIndex(q) + 1
    BY <1>2, ElectStep
  <2> HIDE DEF q
  <2>3. \A k \in Slots : call[k].pc = "idle"
    BY <1>1, Unchanged DEF CallOK
  <2>4. \A k \in Slots : CallOK(call'[k], q)
    BY <1>1, <2>3 DEF CallOK
  <2>5. MaxFeeds \in 0..MaxFeeds
    BY CatchUpAssumption, SMTT(30)
  <2>6. Tidy
    BY <1>1, <2>1, <2>5, Unchanged DEF Tidy
  <2>7. Marker(p)
    BY <1>2, <1>4, EmptyLog
  <2>8. Placed(q) /\ (ldr \notin cutBack' => Ordered(q)) /\ Marker(q)
    BY <1>1, <2>2, <2>7, Unchanged, SameKeeps
  <2> QED
    BY <1>1, <2>1, <2>2, <2>4, <2>6, <2>8, LeaderStep
<1> QED
  BY <1>3, <1>4

(* Steps of a goroutine that only read the two peers *)
LEMMA CallStep ==
    ASSUME CatchUpInv, NEW k \in Slots, NEW c \in Call, CallOK(c, rf[ldr]), Goes(k, c),
           UNCHANGED <<rf, feeds, started, swapped, panicked, cutBack>>, losses' \in 0..MaxLosses
    PROVE  CatchUpInv'
<1>1. call' \in [Slots -> Call] /\ \A i \in Slots : CallOK(call'[i], rf[ldr])
  BY Unchanged, CallsGo
<1>2. Tidy
  BY <1>1, Unchanged DEF Tidy
<1>3. Leads => feeds' = MaxFeeds
  BY Unchanged
<1> QED
  BY <1>1, <1>2, <1>3, StillStep

LEMMA HeartbeatInv == ASSUME CatchUpInv, NEW k \in Slots, Heartbeat(k) PROVE CatchUpInv'
<1> DEFINE p == rf[ldr]
           args == GenAppendEntries(p, ldr, fol)
           waits == [Idle EXCEPT !.pc = "snapshot"]
           sends == [Idle EXCEPT !.pc = "append", !.args = args]
<1>1. /\ p \in Fit /\ Placed(p) /\ p.role = "Leader"
      /\ p.nextIndex[fol] <= LastLogicalIndex(p) + 1
  BY Unchanged DEF Heartbeat, Running, Leads
<1>2. ~GenAppendEntriesPanics(p, fol)
  <2>1. /\ LastLogicalIndex(p) = Len(p.logs) - 1 + p.lastIncludedIndex
        /\ Len(p.logs) \in Int /\ p.lastIncludedIndex \in Int /\ p.nextIndex[fol] \in Int
    BY <1>1, FitFields, Constants
  <2> QED
    BY <1>1, <2>1, SMTT(30) DEF GenAppendEntriesPanics, StorageIndex, LastStorageIndex
<1>3. /\ UNCHANGED <<rf, feeds, started, losses, swapped, panicked, cutBack>>
      /\ Goes(k, IF NeedsSnapshot(p, fol) THEN waits ELSE sends)
  BY <1>2 DEF Heartbeat
<1>4. losses' \in 0..MaxLosses
  BY <1>3, Unchanged
<1>5. CASE NeedsSnapshot(p, fol)
  <2>1. waits \in Call /\ waits.pc = "snapshot"
    BY DEF Idle, Call
  <2> HIDE DEF waits
  <2>2. CallOK(waits, p)
    BY <1>1, <2>1 DEF CallOK
  <2> QED
    BY <1>3, <1>4, <1>5, <2>1, <2>2, CallStep
<1>6. CASE ~NeedsSnapshot(p, fol)
  <2>1. /\ args \in AppendEntriesArgs /\ args.Term <= NewTerm
        /\ args.PrevLogIndex <= LastLogicalIndex(p) /\ EntriesPlaced(args)
    BY <1>1, <1>2, <1>6, GenStep
  <2> HIDE DEF args
  <2>2. sends \in Call /\ sends.pc = "append" /\ sends.args = args
    BY <2>1 DEF Idle, Call
  <2> HIDE DEF sends
  <2>3. CallOK(sends, p)
    BY <1>1, <2>1, <2>2 DEF CallOK
  <2> QED
    BY <1>3, <1>4, <1>6, <2>2, <2>3, CallStep
<1> QED
  BY <1>5, <1>6

LEMMA PrepareSnapshotInv ==
    ASSUME CatchUpInv, NEW k \in Slots, PrepareSnapshot(k) PROVE CatchUpInv'
<1> DEFINE p == rf[ldr]
           args == GenInstallSnapshotArgs(p, ldr)
           c == [Idle EXCEPT !.pc = "install", !.args = args]
<1>1. /\ p \in Fit /\ p.role = "Leader" /\ Goes(k, c)
      /\ UNCHANGED <<rf, feeds, started, losses, swapped, panicked, cutBack>>
  BY Unchanged DEF PrepareSnapshot, Running, Leads
<1>2. /\ p.currentTerm \in Nat /\ p.currentTerm <= NewTerm /\ ldr \in Server
      /\ p.lastIncludedIndex \in Nat /\ p.lastIncludedTerm \in Nat
      /\ p.lastIncludedIndex \in Int
  BY <1>1, FitFields, Constants
<1>3. p.lastIncludedTerm \in Int /\ p.lastIncludedIndex <= p.lastIncludedIndex
  BY <1>2, SMTT(30)
<1>4. /\ args \in InstallSnapshotArgs /\ args.Term <= NewTerm
      /\ args.LastIncludedIndex \in Nat /\ args.LastIncludedTerm \in Nat
      /\ args.LastIncludedIndex <= p.lastIncludedIndex
  BY <1>2, <1>3 DEF GenInstallSnapshotArgs, InstallSnapshotArgs
<1> HIDE DEF args
<1>5. c \in Call /\ c.pc = "install" /\ c.args = args
  BY <1>4 DEF Idle, Call
<1> HIDE DEF c
<1>6. CallOK(c, p)
  BY <1>1, <1>4, <1>5 DEF CallOK
<1>7. losses' \in 0..MaxLosses
  BY <1>1, Unchanged
<1> QED
  BY <1>1, <1>5, <1>6, <1>7, CallStep

LEMMA LoseInv == ASSUME CatchUpInv, NEW k \in Slots, Lose(k) PROVE CatchUpInv'
<1>1. /\ losses < MaxLosses /\ losses' = losses + 1 /\ Goes(k, Idle)
      /\ UNCHANGED <<rf, feeds, started, swapped, panicked, cutBack>>
  BY DEF Lose
<1>2. losses' \in 0..MaxLosses
  BY <1>1, Unchanged, CatchUpAssumption, SMTT(30)
<1> QED
  BY <1>1, <1>2, IdleOK, CallStep

(* a goroutine that has sent a request of AppendEntries *)
LEMMA AppendCall ==
    ASSUME CatchUpInv, NEW k \in Slots, call[k].pc \in {"append", "appended"}
    PROVE  /\ rf[ldr].role = "Leader" /\ call[k] \in Call
           /\ call[k].args \in AppendEntriesArgs /\ call[k].args.Term <= NewTerm
           /\ call[k].args.PrevLogIndex <= LastLogicalIndex(rf[ldr])
           /\ call[k].pc = "append" => EntriesPlaced(call[k].args)
           /\ call[k].pc = "appended" =>
                /\ call[k].reply \in AppendEntriesReplies /\ call[k].reply.Term <= NewTerm
                /\ call[k].reply.ConflictIndex <= LastLogicalIndex(rf[ldr]) + 1
<1>1. CallOK(call[k], rf[ldr]) /\ call[k] \in Call
  BY Unchanged
<1> QED
  BY <1>1 DEF CallOK

(* a goroutine that has prepared a request of InstallSnapshot *)
LEMMA SnapshotCall ==
    ASSUME CatchUpInv, NEW k \in Slots,
           call[k].pc \in {"install", "installed", "setNext", "setMatch"}
    PROVE  /\ rf[ldr].role = "Leader" /\ call[k] \in Call
           /\ call[k].args \in InstallSnapshotArgs /\ call[k].args.Term <= NewTerm
           /\ call[k].args.LastIncludedIndex \in Nat
           /\ call[k].args.LastIncludedTerm \in Nat
           /\ call[k].args.LastIncludedIndex <= rf[ldr].lastIncludedIndex
<1>1. CallOK(call[k], rf[ldr]) /\ call[k] \in Call
  BY Unchanged
<1> QED
  BY <1>1 DEF CallOK

LEMMA DeliverAppendInv ==
    ASSUME CatchUpInv, NEW k \in Slots, DeliverAppend(k) PROVE CatchUpInv'
<1> DEFINE p == rf[fol]
           args == call[k].args
           reply == AppendEntriesReply(p, args)
           c == [call[k] EXCEPT !.pc = "appended", !.reply = reply]
<1>1. /\ call[k].pc = "append" /\ ReceiveAppend(fol, args)
      /\ Goes(k, IF AppendEntriesPanics(p, args) THEN Idle ELSE c)
      /\ UNCHANGED <<feeds, started, losses, swapped>>
  BY DEF DeliverAppend
<1>2. /\ rf[ldr].role = "Leader" /\ call[k] \in Call
      /\ args \in AppendEntriesArgs /\ args.Term <= NewTerm
      /\ args.PrevLogIndex <= LastLogicalIndex(rf[ldr]) /\ EntriesPlaced(args)
  BY <1>1, AppendCall
<1>3. p \in Fit /\ rf[ldr] \in Fit /\ fol # ldr
  BY Unchanged
<1>4. /\ reply \in AppendEntriesReplies /\ reply.Term <= NewTerm
      /\ reply.ConflictIndex <= args.PrevLogIndex
  BY <1>2, <1>3, ReplyStep
<1> HIDE DEF reply
<1>5. reply.ConflictIndex <= LastLogicalIndex(rf[ldr]) + 1
  <2>1. args.PrevLogIndex \in Nat /\ reply.ConflictIndex \in Int
    BY <1>2, <1>4 DEF AppendEntriesArgs, AppendEntriesReplies
  <2>2. LastLogicalIndex(rf[ldr]) \in Int
    BY <1>3, FitFields
  <2> QED
    BY <1>2, <1>4, <2>1, <2>2, SMTT(30)
<1>6. c \in Call /\ c.pc = "appended" /\ c.args = args /\ c.reply = reply
  BY <1>2, <1>4 DEF Call
<1> HIDE DEF c, args
<1>7. CallOK(c, rf[ldr])
  BY <1>2, <1>4, <1>5, <1>6 DEF CallOK
<1>8. call' \in [Slots -> Call] /\ \A i \in Slots : CallOK(call'[i], rf[ldr])
  <2>1. Goes(k, c) \/ Goes(k, Idle)
    BY <1>1
  <2> QED
    BY <1>3, <1>6, <1>7, <2>1, IdleOK, Unchanged, CallsGo
<1>9. Leads => feeds' = MaxFeeds
  BY <1>1, Unchanged
<1>10. /\ cutBack \subseteq cutBack' /\ cutBack' \subseteq Peers
       /\ panicked' \subseteq Peers /\ (ldr \in panicked' => ldr \in cutBack')
  BY <1>1, <1>2, Unchanged, ReceivedAppend
<1>11. PICK q \in Fit : /\ rf' = [rf EXCEPT ![fol] = q] /\ Placed(q)
                        /\ fol \notin cutBack' => Ordered(q)
  BY <1>1, <1>2, Unchanged, ReceivedAppend
<1>12. Tidy
  BY <1>1, <1>8, <1>10, Unchanged DEF Tidy
<1> QED
  BY <1>8, <1>9, <1>11, <1>12, FollowerStep

LEMMA DeliverSnapshotInv ==
    ASSUME CatchUpInv, NEW k \in Slots, DeliverSnapshot(k) PROVE CatchUpInv'
<1> DEFINE p == rf[fol]
           args == call[k].args
           reply == InstallSnapshotReply(p, args)
           c == [call[k] EXCEPT !.pc = "installed", !.reply = reply]
           q == InstallSnapshot(p, args)
<1>1. /\ call[k].pc = "install" /\ ReceiveSnapshot(fol, args) /\ Goes(k, c)
      /\ UNCHANGED <<feeds, started, losses, swapped>>
  BY DEF DeliverSnapshot
<1>2. /\ rf[ldr].role = "Leader" /\ call[k] \in Call
      /\ args \in InstallSnapshotArgs /\ args.Term <= NewTerm
      /\ args.LastIncludedIndex \in Nat /\ args.LastIncludedTerm \in Nat
      /\ args.LastIncludedIndex <= rf[ldr].lastIncludedIndex
  BY <1>1, SnapshotCall
<1>3. p \in Fit /\ fol \in Peers
  BY Unchanged
<1>4. reply \in [Term : Nat]
  BY <1>2, <1>3, SnapshotReplyType
<1> HIDE DEF reply
<1>5. c \in Call /\ c.pc = "installed" /\ c.args = args
  BY <1>2, <1>4 DEF Call
<1> HIDE DEF c, args
<1>6. CallOK(c, rf[ldr])
  BY <1>2, <1>5 DEF CallOK
<1>7. call' \in [Slots -> Call] /\ \A i \in Slots : CallOK(call'[i], rf[ldr])
  BY <1>1, <1>5, <1>6, Unchanged, CallsGo
<1>8. Leads => feeds' = MaxFeeds
  BY <1>1, Unchanged
<1>9. rf' = [rf EXCEPT ![fol] = q] /\ panicked' = panicked /\ cutBack' = cutBack
  BY <1>1 DEF ReceiveSnapshot, Becomes
<1>10. /\ q \in Fit /\ (Placed(p) => Placed(q)) /\ (Ordered(p) => Ordered(q))
  BY <1>2, <1>3, InstallStep
<1> HIDE DEF q
<1>11. Placed(q) /\ (fol \notin cutBack' => Ordered(q))
  BY <1>9, <1>10, Unchanged
<1>12. Tidy
  BY <1>1, <1>7, <1>9, Unchanged DEF Tidy
<1> QED
  BY <1>7, <1>8, <1>9, <1>10, <1>11, <1>12, FollowerStep

LEMMA AppendAnsweredInv ==
    ASSUME CatchUpInv, NEW k \in Slots, AppendAnswered(k) PROVE CatchUpInv'
<1> DEFINE p == rf[ldr]
           args == call[k].args
           reply == call[k].reply
           q == HandleAppendEntries(p, ldr, fol, args, reply)
<1>1. /\ call[k].pc = "appended" /\ Goes(k, Idle)
      /\ UNCHANGED <<feeds, started, losses, swapped, cutBack>>
  BY DEF AppendAnswered
<1>2. /\ p.role = "Leader" /\ args \in AppendEntriesArgs
      /\ reply \in AppendEntriesReplies /\ reply.Term <= NewTerm
      /\ reply.ConflictIndex <= LastLogicalIndex(p) + 1
  BY <1>1, AppendCall
<1> HIDE DEF args, reply
<1>3. /\ p \in Fit /\ p.currentTerm = NewTerm
      /\ p.nextIndex[fol] <= LastLogicalIndex(p) + 1
  BY <1>2, Unchanged DEF Leads
<1>4. /\ ~HandleAppendEntriesPanics(p, fol, reply)
      /\ q \in Fit /\ Grown(p, q) /\ (Placed(p) => Placed(q)) /\ (Ordered(p) => Ordered(q))
      /\ q.nextIndex[fol] <= LastLogicalIndex(q) + 1
  BY <1>2, <1>3, HandleStep
<1>5. rf' = [rf EXCEPT ![ldr] = q] /\ panicked' = panicked
  BY <1>4 DEF AppendAnswered, Becomes, args, reply
<1> HIDE DEF q
<1>6. \A i \in Slots : CallOK(call[i], q)
  BY <1>4, CallsStay
<1>7. call' \in [Slots -> Call] /\ \A i \in Slots : CallOK(call'[i], q)
  BY <1>1, <1>4, <1>6, IdleOK, CallsGo
<1>8. Tidy
  BY <1>1, <1>5, <1>7, Unchanged DEF Tidy
<1>9. Placed(q) /\ (ldr \notin cutBack' => Ordered(q))
  BY <1>1, <1>4, Unchanged
<1> QED
  BY <1>1, <1>4, <1>5, <1>7, <1>8, <1>9, LeaderGrows

LEMMA SnapshotAnsweredInv ==
    ASSUME CatchUpInv, NEW k \in Slots, SnapshotAnswered(k) PROVE CatchUpInv'
<1> DEFINE c == [call[k] EXCEPT !.pc = "setNext"]
<1>1. /\ call[k].pc = "installed"
      /\ UNCHANGED <<rf, feeds, started, losses, swapped, panicked, cutBack>>
      /\ \/ Goes(k, c)
         \/ Goes(k, Idle)
  BY DEF SnapshotAnswered
<1>2. losses' \in 0..MaxLosses
  BY <1>1, Unchanged
<1>3. c \in Call /\ CallOK(c, rf[ldr])
  <2>1. /\ rf[ldr].role = "Leader" /\ call[k] \in Call
        /\ call[k].args \in InstallSnapshotArgs /\ call[k].args.Term <= NewTerm
        /\ call[k].args.LastIncludedIndex \in Nat /\ call[k].args.LastIncludedTerm \in Nat
        /\ call[k].args.LastIncludedIndex <= rf[ldr].lastIncludedIndex
    BY <1>1, SnapshotCall
  <2>2. c \in Call /\ c.pc = "setNext" /\ c.args = call[k].args
    BY <2>1 DEF Call
  <2> HIDE DEF c
  <2> QED
    BY <2>1, <2>2 DEF CallOK
<1> HIDE DEF c
<1> QED
  BY <1>1, <1>2, <1>3, IdleOK, CallStep

(* The indices handleInstallSnapshot sets lie within the leader's log. *)
LEMMA SetIndices ==
    ASSUME CatchUpInv, NEW k \in Slots, call[k].pc \in {"setNext", "setMatch"},
           NEW next \in [Server -> Int], NEW match \in [Server -> Int],
           next[fol] \in {rf[ldr].nextIndex[fol], call[k].args.LastIncludedIndex + 1},
           rf' = [rf EXCEPT ![ldr] = [@ EXCEPT !.nextIndex = next, !.matchIndex = match]],
           NEW c \in Call, Goes(k, c), c.pc \in {"idle", "setMatch"},
           c.pc # "idle" => c.args = call[k].args,
           UNCHANGED <<feeds, started, losses, swapped, panicked, cutBack>>
    PROVE  CatchUpInv'
<1> DEFINE p == rf[ldr]
           index == call[k].args.LastIncludedIndex
           q == [p EXCEPT !.nextIndex = next, !.matchIndex = match]
<1>1. /\ p.role = "Leader" /\ call[k].args \in InstallSnapshotArgs
      /\ call[k].args.Term <= NewTerm /\ index \in Nat
      /\ call[k].args.LastIncludedTerm \in Nat /\ index <= p.lastIncludedIndex
  BY SnapshotCall
<1>2. p \in Fit /\ rf' = [rf EXCEPT ![ldr] = q]
  BY Unchanged
<1>3. /\ q \in Fit /\ SameLog(p, q) /\ q.nextIndex = next /\ Grown(p, q)
      /\ q.role = p.role
  <2>1. \A x \in Fit : LET y == [x EXCEPT !.nextIndex = next, !.matchIndex = match]
                       IN  y \in Fit /\ SameLog(x, y) /\ y.nextIndex = next /\ Grown(x, y)
    BY IndexStep
  <2>2. q \in Fit /\ SameLog(p, q) /\ q.nextIndex = next /\ Grown(p, q)
    BY <1>2, <2>1
  <2> HIDE DEF q
  <2> QED
    BY <2>2 DEF Grown
<1> HIDE DEF q
<1>4. /\ Placed(q) /\ (ldr \notin cutBack' => Ordered(q))
      /\ LastLogicalIndex(q) = LastLogicalIndex(p)
  BY <1>3, Unchanged, SameKeeps
<1>5. index + 1 <= LastLogicalIndex(p) + 1
  <2>1. p.lastIncludedIndex \in Int /\ LastLogicalIndex(p) \in Int
    BY <1>2, FitFields
  <2>2. p.lastIncludedIndex <= LastLogicalIndex(p)
    BY <1>1, Unchanged DEF Leads, Marker
  <2> HIDE DEF index
  <2> QED
    BY <1>1, <2>1, <2>2, SMTT(30)
<1>6. p.nextIndex[fol] <= LastLogicalIndex(p) + 1
  BY <1>1, Unchanged DEF Leads
<1>7. q.nextIndex[fol] <= LastLogicalIndex(q) + 1
  BY <1>3, <1>4, <1>5, <1>6
<1>8. CallOK(c, p)
  BY <1>1 DEF CallOK
<1>9. CallOK(c, q) /\ \A i \in Slots : CallOK(call[i], q)
  BY <1>2, <1>3, <1>8, CallGrown, CallsStay
<1>10. call' \in [Slots -> Call] /\ \A i \in Slots : CallOK(call'[i], q)
  BY <1>3, <1>9, CallsGo
<1>11. Tidy
  BY <1>10, Unchanged DEF Tidy
<1> QED
  BY <1>2, <1>3, <1>4, <1>7, <1>10, <1>11, LeaderGrows

LEMMA SetNextInv == ASSUME CatchUpInv, NEW k \in Slots, SetNext(k) PROVE CatchUpInv'
<1> DEFINE p == rf[ldr]
           n == call[k].args.LastIncludedIndex + 1
           next == [p.nextIndex EXCEPT ![fol] = n]
           c == [call[k] EXCEPT !.pc = "setMatch"]
<1>1. /\ call[k].pc = "setNext" /\ rf' = [rf EXCEPT ![ldr].nextIndex[fol] = n]
      /\ Goes(k, c) /\ UNCHANGED <<feeds, started, losses, swapped, panicked, cutBack>>
  BY DEF SetNext
<1>2. call[k].args.LastIncludedIndex \in Nat /\ call[k] \in Call
  BY <1>1, SnapshotCall
<1>3. n \in Int
  BY <1>2, SMTT(30)
<1>4. c \in Call /\ c.pc = "setMatch" /\ c.args = call[k].args
  BY <1>2 DEF Call
<1>5. /\ p \in Peer /\ p.nextIndex \in [Server -> Int] /\ p.matchIndex \in [Server -> Int]
      /\ fol \in Server
  BY Unchanged, FitFields, Constants
<1> HIDE DEF n, c
<1>6. next \in [Server -> Int] /\ next[fol] = n
  BY <1>3, <1>5
<1>7. rf' = [rf EXCEPT ![ldr] = [@ EXCEPT !.nextIndex = next, !.matchIndex = p.matchIndex]]
  <2>1. rf' = [rf EXCEPT ![ldr] = [p EXCEPT !.nextIndex = next]]
    BY <1>1
  <2> HIDE DEF next
  <2>2. [p EXCEPT !.nextIndex = next] =
            [p EXCEPT !.nextIndex = next, !.matchIndex = p.matchIndex]
    BY <1>5 DEF Peer
  <2> QED
    BY <2>1, <2>2
<1> HIDE DEF next
<1> QED
  BY <1>1, <1>4, <1>5, <1>6, <1>7, SetIndices DEF n

LEMMA SetMatchInv == ASSUME CatchUpInv, NEW k \in Slots, SetMatch(k) PROVE CatchUpInv'
<1> DEFINE p == rf[ldr]
           n == call[k].args.LastIncludedIndex
           match == [p.matchIndex EXCEPT ![fol] = n]
<1>1. /\ call[k].pc = "setMatch" /\ rf' = [rf EXCEPT ![ldr].matchIndex[fol] = n]
      /\ Goes(k, Idle) /\ UNCHANGED <<feeds, started, losses, swapped, panicked, cutBack>>
  BY DEF SetMatch
<1>2. n \in Nat
  BY <1>1, SnapshotCall
<1>3. n \in Int
  BY <1>2, SMTT(30)
<1>4. Idle \in Call /\ Idle.pc = "idle"
  BY IdleOK DEF Idle
<1>5. /\ p \in Peer /\ p.nextIndex \in [Server -> Int] /\ p.matchIndex \in [Server -> Int]
      /\ fol \in Server
  BY Unchanged, FitFields, Constants
<1> HIDE DEF n
<1>6. match \in [Server -> Int]
  BY <1>3, <1>5
<1>7. rf' = [rf EXCEPT ![ldr] = [@ EXCEPT !.nextIndex = p.nextIndex, !.matchIndex = match]]
  <2>1. rf' = [rf EXCEPT ![ldr] = [p EXCEPT !.matchIndex = match]]
    BY <1>1
  <2> HIDE DEF match
  <2>2. [p EXCEPT !.matchIndex = match] =
            [p EXCEPT !.nextIndex = p.nextIndex, !.matchIndex = match]
    BY <1>5 DEF Peer
  <2> QED
    BY <2>1, <2>2
<1> HIDE DEF match
<1> QED
  BY <1>1, <1>4, <1>5, <1>6, <1>7, SetIndices

-----------------------------------------------------------------------------
(* Theorems *)

(* A peer of an empty persister is in order. *)
LEMMA MakeFit == Make \in Fit /\ Placed(Make) /\ Ordered(Make) /\ Make.role = "Follower"
<1> DEFINE e == [Term |-> 0, Command |-> Nil]
<1>1. 0 \in Nat /\ 0 \in Int /\ -1 \in Int /\ 0 <= 0 /\ NewTerm \in Nat
  BY Constants, SMTT(30)
<1>2. e \in LogEntry
  BY <1>1 DEF LogEntry
<1> HIDE DEF e
<1>3. <<e>> \in Seq(LogEntry) /\ Len(<<e>>) = 1
  BY <1>2, SMTT(30)
<1>4. /\ Make.logs = <<e>> /\ Make.lastIncludedIndex = 0 /\ Make.lastIncludedTerm = 0
      /\ Make.currentTerm = 0 /\ Make.lastApplied = 0 /\ Make.commitIndex = 0
      /\ Make.role = "Follower"
  BY DEF Make, e
<1>5. Make \in Peer
  BY <1>1, <1>3 DEF Make, Peer, Role, e
<1>6. 0 <= NewTerm
  BY <1>1, SMTT(30)
<1>7. Make \in Fit
  BY <1>1, <1>4, <1>5, <1>6 DEF Fit
<1>8. LastStorageIndex(Make) = 0 /\ LastLogicalIndex(Make) = 0
  BY <1>3, <1>4, SMTT(30) DEF LastStorageIndex, LastLogicalIndex
<1>9. 1..0 = {}
  BY SMTT(30)
<1> QED
  BY <1>1, <1>4, <1>7, <1>8, <1>9 DEF Placed, Ordered

LEMMA InitInv == Init => CatchUpInv
<1> SUFFICES ASSUME Init PROVE CatchUpInv
  OBVIOUS
<1>1. /\ rf = [s \in Peers |-> Make] /\ call = [k \in Slots |-> Idle]
      /\ feeds = 0 /\ started = 0 /\ losses = 0
      /\ swapped = {} /\ panicked = {} /\ cutBack = {}
  BY DEF Init
<1>2. Len(NewCommands) \in Nat
  BY CatchUpAssumption, LenProperties
<1>3. 0 \in 0..MaxFeeds /\ 0 \in 0..Len(NewCommands) /\ 0 \in 0..MaxLosses
  BY <1>2, CatchUpAssumption, SMTT(30)
<1>4. rf[ldr] = Make /\ rf[fol] = Make /\ \A s \in Peers : rf[s] = Make
  BY <1>1, Constants
<1>5. TypeInv
  BY <1>1, <1>3, MakeFit, IdleOK DEF TypeInv
<1>6. OrderInv
  BY <1>4, MakeFit DEF OrderInv
<1>7. LeadInv
  BY <1>1, <1>4, MakeFit DEF LeadInv, Leads
<1> QED
  BY <1>1, <1>4, <1>5, <1>6, <1>7, MakeFit, IdleOK DEF CatchUpInv

(* Every step keeps the invariant. *)
LEMMA NextInv == CatchUpInv /\ [Next]_vars => CatchUpInv'
<1> SUFFICES ASSUME CatchUpInv, [Next]_vars PROVE CatchUpInv'
  OBVIOUS
<1>1. ASSUME NEW t \in OldTerms, NEW s \in Peers, NEW last \in 0..Len(OldLog[t]),
             NEW prev \in 0..last, NEW commit \in 0..last,
             FeedAppend(t, s, prev, last, commit)
      PROVE  CatchUpInv'
  BY <1>1, FeedAppendInv
<1>2. ASSUME NEW t \in OldTerms, NEW s \in Peers, NEW last \in 0..Len(OldLog[t]),
             last > 0, FeedSnapshot(t, s, last)
      PROVE  CatchUpInv'
  BY <1>2, FeedSnapshotInv
<1>3. CASE Elect \/ Start \/ OthersAnswer
  BY <1>3, ElectInv, StartInv, OthersInv
<1>4. ASSUME NEW s \in Peers,
             \/ applyLogs(s)
             \/ \E index \in 1..rf[s].commitIndex : SetApplied(s, index) \/ Snapshot(s, index)
      PROVE  CatchUpInv'
  BY <1>4, applyLogsInv, SetAppliedInv, SnapshotInv
<1>5. ASSUME NEW k \in Slots, Goroutine(k) \/ Lose(k) PROVE CatchUpInv'
  BY <1>5, HeartbeatInv, PrepareSnapshotInv, LoseInv, DeliverAppendInv, DeliverSnapshotInv,
     AppendAnsweredInv, SnapshotAnsweredInv, SetNextInv, SetMatchInv DEF Goroutine
<1>6. CASE UNCHANGED vars
  <2>1. UNCHANGED <<rf, feeds, started, call, losses, swapped, panicked, cutBack>>
    BY <1>6 DEF vars
  <2>2. Tidy
    BY <2>1, Unchanged DEF Tidy
  <2>3. (Leads => feeds' = MaxFeeds) /\ \A k \in Slots : CallOK(call'[k], rf[ldr])
    BY <2>1, Unchanged
  <2> QED
    BY <2>1, <2>2, <2>3, StillStep
<1> QED
  BY <1>1, <1>2, <1>3, <1>4, <1>5, <1>6 DEF Next

LEMMA CatchUpInvariant == Spec => []CatchUpInv
BY InitInv, NextInv, PTL DEF Spec

(* Every variable of RaftCatchUp keeps its type: in particular             *)
(* genAppendEntries never sends a negative PrevLogIndex.                   *)
THEOREM CatchUpTypeCorrect == Spec => []TypeOK
<1>1. CatchUpInv => TypeOK
  <2> SUFFICES ASSUME CatchUpInv PROVE TypeOK
    OBVIOUS
  <2>1. rf \in [Peers -> Peer]
    <3>1. Fit \subseteq Peer
      BY DEF Fit
    <3> HIDE DEF Fit
    <3> QED
      BY <3>1, Unchanged
  <2>2. \A k \in Slots : call[k].pc \in {"idle", "snapshot", "append", "install", "appended",
                                         "installed", "setNext", "setMatch"}
    BY Unchanged DEF Call
  <2>3. \A k \in Slots :
          /\ call[k].pc = "appended" => call[k].reply \in AppendEntriesReplies
          /\ call[k].pc \in {"append", "appended"} => call[k].args \in AppendEntriesArgs
          /\ call[k].pc \in {"install", "installed", "setNext", "setMatch"} =>
                call[k].args \in InstallSnapshotArgs
    BY AppendCall, SnapshotCall
  <2> QED
    BY <2>1, <2>2, <2>3, Unchanged DEF TypeOK
<1> QED
  BY <1>1, CatchUpInvariant, PTL

(* What a peer stores at a logical index is what some leader had there:    *)
(* TrimLogs, InstallSnapshot, AppendEntries and genAppendEntries convert   *)
(* between storage and logical indices without a slip, for all logs of     *)
(* earlier leaders, however late their requests arrive.                    *)
THEOREM EntriesKeepPlace == Spec => []EntriesInPlace
<1>1. CatchUpInv => EntriesInPlace
  BY DEF CatchUpInv, Placed, InPlace, EntriesInPlace
<1> QED
  BY <1>1, CatchUpInvariant, PTL

(* Until an AppendEntries cuts a peer's log below commitIndex or the       *)
(* snapshot, what it has in its snapshot and what it has applied is        *)
(* committed, and what is committed is in its log, whatever Snapshot,      *)
(* InstallSnapshot, AppendEntries and the writes of lastApplied do.        *)
THEOREM IndicesStayOrdered == Spec => []IndicesOrderedButCutBack
<1>1. CatchUpInv => IndicesOrderedButCutBack
  BY DEF CatchUpInv, OrderInv, Ordered, IndicesOrderedButCutBack
<1> QED
  BY <1>1, CatchUpInvariant, PTL

(* genAppendEntries and handleAppendEntries of the leader never index      *)
(* beyond its log, although the conflict scan leaves a storage index in    *)
(* nextIndex and handleInstallSnapshot sets nextIndex without the mutex;   *)
(* AppendEntries, Snapshot, applyLogs and an election make it do so only   *)
(* when an AppendEntries has cut its log.                                  *)
THEOREM LeaderKeepsRunning == Spec => []LeaderSurvivesButCutBack
<1>1. CatchUpInv => LeaderSurvivesButCutBack
  BY DEF CatchUpInv, LeadInv, LeaderSurvivesButCutBack
<1> QED
  BY <1>1, CatchUpInvariant, PTL
=============================================================================
