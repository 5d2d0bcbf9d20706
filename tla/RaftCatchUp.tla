----------------------------- MODULE RaftCatchUp -----------------------------
(***************************************************************************)
(* How a new leader brings a follower up to date when both have snapshots  *)
(* (raft/raft.go): genAppendEntries, AppendEntries, handleAppendEntries,   *)
(* InstallSnapshot and handleInstallSnapshot, with the Snapshot calls of   *)
(* the two services and the applyLogs goroutines.                          *)
(*                                                                         *)
(* First both peers follow the leaders of earlier terms, whose requests    *)
(* arrive late and out of order; their other followers are not modelled.   *)
(* Then ldr wins an election and its heartbeats reach fol, or are lost.    *)
(* Nobody else campaigns any more.                                         *)
(*                                                                         *)
(* The applyLogs goroutines are not told apart: any of them may write any  *)
(* index that is committed to lastApplied at any moment, and the service   *)
(* may call Snapshot for any such index before or after that.  This allows *)
(* all that several goroutines and the service can do (RaftApply follows   *)
(* each of them).  A peer that gets as far as condInstallSnapshot, which   *)
(* applyLogs calls with index and term exchanged, is followed no further:  *)
(* the properties are about peers up to there.                             *)
(***************************************************************************)
EXTENDS RaftPeer

CONSTANTS
    ldr, fol,       \* the leader to be and its follower
    OldLog,         \* OldLog[t] is the whole log of the leader of term t
    MaxFeeds,       \* requests of earlier leaders that arrive
    Slots,          \* goroutines of heartbeat rounds that are under way at a time
    SnapshotPoints, \* the indices at which services take snapshots
    MaxLosses,      \* requests and replies of ldr that are lost
    NewCommands     \* the commands given to Start of ldr, in this order

OldTerms == DOMAIN OldLog

NewTerm == Len(OldLog) + 1

ASSUME CatchUpAssumption ==
    /\ ldr \in Server /\ fol \in Server \ {ldr} /\ Cardinality(Server) > 4
    /\ OldLog \in Seq(Seq([Term : 1..Len(OldLog), Command : Command]))
    /\ \A t \in OldTerms : \A n \in DOMAIN OldLog[t] : OldLog[t][n].Term <= t
    /\ SnapshotPoints \subseteq Nat
    /\ MaxFeeds \in Nat /\ MaxLosses \in Nat /\ NewCommands \in Seq(Command)

VARIABLES
    rf,         \* the Raft structs of ldr and fol
    feeds,      \* requests of theirs that have arrived
    started,    \* commands given to Start
    call,       \* the goroutines of the heartbeat rounds of ldr
    losses,     \* requests and replies of theirs that were lost
    swapped,    \* peers whose applyLogs has called condInstallSnapshot
    panicked    \* peers that died of an index out of range

(* History variable: it records and never guards. *)
VARIABLE cutBack    \* peers whose log an AppendEntries has cut below what is
                    \* committed or in the snapshot

vars == <<rf, feeds, started, call, losses, swapped, panicked, cutBack>>

Peers == {ldr, fol}

Up(s) == s \notin panicked \cup swapped

Leads == rf[ldr].role = "Leader"

Idle == [pc |-> "idle", args |-> Nil, reply |-> Nil]

Init ==
    /\ rf = [s \in Peers |-> Make]
    /\ feeds = 0 /\ started = 0
    /\ call = [k \in Slots |-> Idle]
    /\ losses = 0 /\ swapped = {} /\ panicked = {} /\ cutBack = {}

(* the peer dies, or changes *)
Panics(s) == panicked' = panicked \cup {s} /\ UNCHANGED rf
Becomes(s, new) == rf' = [rf EXCEPT ![s] = new] /\ UNCHANGED panicked

-----------------------------------------------------------------------------
(* The handlers of both peers *)

(* the AppendEntries handler *)
ReceiveAppend(s, args) ==
    /\ IF AppendEntriesPanics(rf[s], args) THEN Panics(s)
       ELSE Becomes(s, AppendEntries(rf[s], args))
    /\ cutBack' = cutBack \cup
        {x \in {s} : /\ AcceptsEntries(rf[s], args)
                     /\ \/ args.PrevLogIndex < rf[s].lastIncludedIndex
                        \/ args.PrevLogIndex + Len(args.Entries) < rf[s].commitIndex}

(* the InstallSnapshot handler; the snapshot sent to the service is in     *)
(* RaftApply                                                               *)
ReceiveSnapshot(s, args) ==
    Becomes(s, InstallSnapshot(rf[s], args)) /\ UNCHANGED cutBack

-----------------------------------------------------------------------------
(* applyLogs and the service *)

(* the first critical section of an applyLogs: lastApplied is behind the   *)
(* snapshot and condInstallSnapshot called, or logs[i] out of range for an *)
(* i in lastApplied+1..commitIndex; the messages it collects otherwise are *)
(* its own                                                                 *)
applyLogs(s) ==
    /\ Up(s)
    /\ \/ /\ rf[s].lastApplied < rf[s].lastIncludedIndex
          /\ swapped' = swapped \cup {s} /\ UNCHANGED panicked
       \/ /\ rf[s].lastIncludedIndex <= rf[s].lastApplied
          /\ rf[s].lastApplied < rf[s].commitIndex
          /\ LastLogicalIndex(rf[s]) < rf[s].commitIndex
          /\ panicked' = panicked \cup {s} /\ UNCHANGED swapped
    /\ UNCHANGED <<rf, feeds, started, call, losses, cutBack>>

(* rf.lastApplied = msg.CommandIndex, for a message that was collected     *)
(* when it was committed, however much later (commitIndex never falls: no  *)
(* LeaderCommit is beyond the entries it comes with)                       *)
SetApplied(s, index) ==
    /\ Up(s) /\ index <= rf[s].commitIndex
    /\ rf' = [rf EXCEPT ![s].lastApplied = index]
    /\ UNCHANGED <<feeds, started, call, losses, swapped, panicked, cutBack>>

(* the service's call of Snapshot for a message it has received, before or *)
(* after SetApplied                                                        *)
Snapshot(s, index) ==
    /\ Up(s) /\ index \in SnapshotPoints /\ index <= rf[s].commitIndex
    /\ index > rf[s].lastIncludedIndex
    /\ IF index > LastLogicalIndex(rf[s]) THEN Panics(s)
       ELSE Becomes(s, TrimLogs(rf[s], index))
    /\ UNCHANGED <<feeds, started, call, losses, swapped, cutBack>>

-----------------------------------------------------------------------------
(* Requests of the leaders of earlier terms *)

OldTerm(t, n) == IF n = 0 THEN 0 ELSE OldLog[t][n].Term

(* The leader of term t commits no more than the leaders after it have. *)
Lasting(t, n) ==
    \A u \in t..Len(OldLog) : n <= Len(OldLog[u]) /\ OldLog[u][n] = OldLog[t][n]

(* an AppendEntries of any moment of the life of the leader of term t *)
FeedAppend(t, s, prev, last, commit) ==
    /\ Up(s) /\ feeds < MaxFeeds
    /\ prev <= last /\ commit <= last
    /\ \A n \in 1..commit : Lasting(t, n)
    /\ ReceiveAppend(s,
        [Term |-> t, LeaderId |-> ldr, PrevLogIndex |-> prev,
         PrevLogTerm |-> OldTerm(t, prev), Entries |-> SubSeq(OldLog[t], prev + 1, last),
         LeaderCommit |-> commit])
    /\ feeds' = feeds + 1
    /\ UNCHANGED <<started, call, losses, swapped>>

(* an InstallSnapshot of its *)
FeedSnapshot(t, s, index) ==
    /\ Up(s) /\ feeds < MaxFeeds
    /\ index \in SnapshotPoints /\ \A n \in 1..index : Lasting(t, n)
    /\ ReceiveSnapshot(s,
        [Term |-> t, LeaderId |-> ldr, LastIncludedIndex |-> index,
         LastIncludedTerm |-> OldTerm(t, index)])
    /\ feeds' = feeds + 1
    /\ UNCHANGED <<started, call, losses, swapped>>

(* A peer that has what ldr and fol know to be committed, as some peer of  *)
(* every majority has                                                      *)
Voter ==
    LET known == Max({rf[s].commitIndex : s \in Peers})
    IN  [Make EXCEPT !.currentTerm = Len(OldLog),
                     !.logs = @ \o SubSeq(OldLog[Len(OldLog)], 1, known)]

(* ldr campaigns in the new term and is elected by such peers.  Nothing    *)
(* the earlier leaders sent counts any more.  fol, whose vote makes no     *)
(* difference to its log, is not asked.  A log cut to nothing has no last  *)
(* term to ask with.                                                       *)
Elect ==
    LET candidate == [BecomeCandidate(rf[ldr], ldr) EXCEPT !.currentTerm = NewTerm]
    IN  /\ Up(ldr) /\ ~Leads
        /\ IF rf[ldr].logs = <<>> THEN Panics(ldr)
           ELSE /\ GrantsVote(Voter, GenRequestVoteArgs(candidate, ldr))
                /\ Becomes(ldr, ConvertRole(candidate, "Leader"))
        /\ feeds' = MaxFeeds
        /\ UNCHANGED <<started, call, losses, swapped, cutBack>>

-----------------------------------------------------------------------------
(* The new leader *)

Running == Leads /\ Up(ldr)

Goes(k, c) == call' = [call EXCEPT ![k] = c]

(* Start *)
Start ==
    /\ Running
    /\ started < Len(NewCommands)
    /\ started' = started + 1
    /\ rf' = [rf EXCEPT ![ldr] = AppendCommand(@, NewTerm, NewCommands[started + 1])]
    /\ UNCHANGED <<feeds, call, losses, swapped, panicked, cutBack>>

(* handleAppendEntries for all the other followers, which lack nothing *)
OthersAnswer ==
    LET leader == rf[ldr]
        last == LastLogicalIndex(leader)
        others(index, n) == [o \in Server |-> IF o \in Peers THEN index[o] ELSE n]
    IN  /\ Running
        /\ Becomes(ldr, CommitMatched(
                    [leader EXCEPT !.nextIndex = others(leader.nextIndex, last + 1),
                                   !.matchIndex = others(leader.matchIndex, last)], ldr))
        /\ UNCHANGED <<feeds, started, call, losses, swapped, cutBack>>

(* a goroutine of a heartbeat round: genAppendEntries, and the request is  *)
(* sent or handleInstallSnapshot started                                   *)
Heartbeat(k) ==
    /\ Running /\ call[k].pc = "idle"
    /\ IF GenAppendEntriesPanics(rf[ldr], fol)
       THEN panicked' = panicked \cup {ldr} /\ UNCHANGED call
       ELSE /\ Goes(k, IF NeedsSnapshot(rf[ldr], fol)
                       THEN [Idle EXCEPT !.pc = "snapshot"]
                       ELSE [Idle EXCEPT !.pc = "append",
                                         !.args = GenAppendEntries(rf[ldr], ldr, fol)])
            /\ UNCHANGED panicked
    /\ UNCHANGED <<rf, feeds, started, losses, swapped, cutBack>>

(* handleInstallSnapshot reads its arguments and sends them *)
PrepareSnapshot(k) ==
    /\ Running /\ call[k].pc = "snapshot"
    /\ Goes(k, [Idle EXCEPT !.pc = "install",
                            !.args = GenInstallSnapshotArgs(rf[ldr], ldr)])
    /\ UNCHANGED <<rf, feeds, started, losses, swapped, panicked, cutBack>>

(* the request, or the reply, is lost: Call returns false *)
Lose(k) ==
    /\ call[k].pc \in {"append", "install", "appended", "installed"}
    /\ losses < MaxLosses
    /\ losses' = losses + 1
    /\ Goes(k, Idle)
    /\ UNCHANGED <<rf, feeds, started, swapped, panicked, cutBack>>

DeliverAppend(k) ==
    /\ Up(fol) /\ call[k].pc = "append"
    /\ ReceiveAppend(fol, call[k].args)
    /\ Goes(k, IF AppendEntriesPanics(rf[fol], call[k].args) THEN Idle
               ELSE [call[k] EXCEPT !.pc = "appended",
                                    !.reply = AppendEntriesReply(rf[fol], call[k].args)])
    /\ UNCHANGED <<feeds, started, losses, swapped>>

DeliverSnapshot(k) ==
    /\ Up(fol) /\ call[k].pc = "install"
    /\ ReceiveSnapshot(fol, call[k].args)
    /\ Goes(k, [call[k] EXCEPT !.pc = "installed",
                               !.reply = InstallSnapshotReply(rf[fol], call[k].args)])
    /\ UNCHANGED <<feeds, started, losses, swapped>>

(* handleAppendEntries *)
AppendAnswered(k) ==
    /\ Running /\ call[k].pc = "appended"
    /\ IF HandleAppendEntriesPanics(rf[ldr], fol, call[k].reply) THEN Panics(ldr)
       ELSE Becomes(ldr, HandleAppendEntries(rf[ldr], ldr, fol, call[k].args, call[k].reply))
    /\ Goes(k, Idle)
    /\ UNCHANGED <<feeds, started, losses, swapped, cutBack>>

(* handleInstallSnapshot after the reply, unlocked: compare nextIndex ...  *)
SnapshotAnswered(k) ==
    /\ Running /\ call[k].pc = "installed"
    /\ Goes(k, IF BehindSnapshot(rf[ldr], fol, call[k].args)
               THEN [call[k] EXCEPT !.pc = "setNext"] ELSE Idle)
    /\ UNCHANGED <<rf, feeds, started, losses, swapped, panicked, cutBack>>

(* Mutant: the snapshot's own index is the next one to send. *)
SetNextTooLow(k) ==
    /\ Running /\ call[k].pc = "setNext"
    /\ rf' = [rf EXCEPT ![ldr].nextIndex[fol] = call[k].args.LastIncludedIndex]
    /\ Goes(k, [call[k] EXCEPT !.pc = "setMatch"])
    /\ UNCHANGED <<feeds, started, losses, swapped, panicked, cutBack>>

(* ... raise it ... *)
SetNext(k) ==
    /\ Running /\ call[k].pc = "setNext"
    /\ rf' = [rf EXCEPT ![ldr].nextIndex[fol] = call[k].args.LastIncludedIndex + 1]
    /\ Goes(k, [call[k] EXCEPT !.pc = "setMatch"])
    /\ UNCHANGED <<feeds, started, losses, swapped, panicked, cutBack>>

(* ... and matchIndex *)
SetMatch(k) ==
    /\ Running /\ call[k].pc = "setMatch"
    /\ rf' = [rf EXCEPT ![ldr].matchIndex[fol] = call[k].args.LastIncludedIndex]
    /\ Goes(k, Idle)
    /\ UNCHANGED <<feeds, started, losses, swapped, panicked, cutBack>>

-----------------------------------------------------------------------------

Goroutine(k) ==
    \/ Heartbeat(k) \/ PrepareSnapshot(k)
    \/ DeliverAppend(k) \/ DeliverSnapshot(k)
    \/ AppendAnswered(k) \/ SnapshotAnswered(k) \/ SetNext(k) \/ SetMatch(k)

Next ==
    \/ \E t \in OldTerms, s \in Peers : \E last \in 0..Len(OldLog[t]) :
        \/ \E prev, commit \in 0..last : FeedAppend(t, s, prev, last, commit)
        \/ last > 0 /\ FeedSnapshot(t, s, last)
    \/ Elect
    \/ Start
    \/ OthersAnswer
    \/ \E s \in Peers :
        \/ applyLogs(s)
        \/ \E index \in 1..rf[s].commitIndex : SetApplied(s, index) \/ Snapshot(s, index)
    \/ \E k \in Slots : Goroutine(k) \/ Lose(k)

Spec == Init /\ [][Next]_vars

(* The heartbeat loop and its goroutines go on, and a request or reply     *)
(* that is not lost arrives.                                               *)
FairSpec ==
    /\ Spec
    /\ WF_vars(OthersAnswer)
    /\ \A k \in Slots : WF_vars(Goroutine(k))

-----------------------------------------------------------------------------

(* Every variable has its type. *)
TypeOK ==
    /\ rf \in [Peers -> Peer]
    /\ feeds \in 0..MaxFeeds /\ started \in 0..Len(NewCommands) /\ losses \in 0..MaxLosses
    /\ \A k \in Slots :
        /\ call[k].pc \in {"idle", "snapshot", "append", "install", "appended",
                           "installed", "setNext", "setMatch"}
        /\ call[k].pc = "appended" => call[k].reply \in AppendEntriesReplies
        /\ call[k].pc \in {"append", "appended"} => call[k].args \in AppendEntriesArgs
        /\ call[k].pc \in {"install", "installed", "setNext", "setMatch"} =>
            call[k].args \in InstallSnapshotArgs
    /\ panicked \subseteq Peers
    /\ swapped \subseteq Peers /\ cutBack \subseteq Peers

(* What a peer stores at a logical index is what some leader had there,    *)
(* through every trim, installed snapshot and cut: the conversion between  *)
(* storage and logical indices never slips ("所有的逻辑索引和存储索引",     *)
(* Lab3D-solution.md).                                                     *)
EntriesInPlace ==
    \A s \in Peers : \A i \in 1..LastStorageIndex(rf[s]) :
        LET n == LogicalIndex(rf[s], i)
        IN  \/ Entry(rf[s], i).Term = NewTerm
            \/ \E t \in OldTerms : n <= Len(OldLog[t]) /\ OldLog[t][n] = Entry(rf[s], i)

(* What is in the snapshot and what is applied is committed, and what is   *)
(* committed is in the log, whatever requests, snapshots, trims and late   *)
(* writes of lastApplied are mixed, unless an AppendEntries has cut this   *)
(* peer's log below what is committed or in the snapshot.  (lastApplied    *)
(* itself may be behind the snapshot: Snapshot may run between the send of *)
(* a command and the write.)                                               *)
IndicesOrderedButCutBack ==
    \A s \in Peers \ cutBack :
        /\ rf[s].lastIncludedIndex <= rf[s].commitIndex
        /\ rf[s].lastApplied <= rf[s].commitIndex
        /\ rf[s].commitIndex <= LastLogicalIndex(rf[s])

(* The leader never reads outside its log, although a rejection may put a  *)
(* storage index into nextIndex, its log is trimmed between a request and  *)
(* the reply, and handleInstallSnapshot sets nextIndex without the mutex.  *)
(* Two things can still make it: an earlier AppendEntries that cut its own *)
(* log, and condInstallSnapshot with exchanged arguments, which slices     *)
(* logs below the snapshot (raft.go:457) and ends what is followed here.   *)
LeaderSurvivesButCutBack == ldr \in panicked => ldr \in cutBack

(* fol has all that ldr has, and knows it committed *)
CaughtUp ==
    LET last == LastLogicalIndex(rf[ldr])
        first == 1 + Max({rf[s].lastIncludedIndex : s \in Peers})
    IN  /\ LastLogicalIndex(rf[fol]) = last
        /\ rf[fol].commitIndex >= rf[ldr].commitIndex
        /\ \A n \in first..last :
            Entry(rf[fol], StorageIndex(rf[fol], n)) = Entry(rf[ldr], StorageIndex(rf[ldr], n))

(* InstallSnapshot into a longer log gives logs[0] the term 0 *)
ZeroMarker(s) ==
    rf[s].lastIncludedIndex > 0 /\ rf[s].logs # <<>> /\ Entry(rf[s], 0).Term = 0

(* an AppendEntries from before what is committed has cut the log there *)
CutShort(s) == LastLogicalIndex(rf[s]) < rf[s].commitIndex

(* A follower whose leader stays and whose messages are finally not lost   *)
(* gets the whole log: the conflict hints, the fall back to a snapshot and *)
(* the way back to AppendEntries make progress.  Three things prevent it.  *)
(* One of the two dies or calls condInstallSnapshot with exchanged         *)
(* arguments (an AppendEntries below fol's snapshot makes fol die of       *)
(* logs[:index+1]).  fol's log is cut below what it has committed, and fol *)
(* discards as old the snapshot that would fill the gap.  A marker with    *)
(* term 0 is rejected by a fol that has the entry itself, which discards   *)
(* the snapshot sent in its stead, for ever.                               *)
CatchesUpButWindows ==
    <>[](Leads => CaughtUp \/ ~Up(ldr) \/ ~Up(fol) \/ CutShort(fol) \/ ZeroMarker(ldr))
=============================================================================
