------------------------------ MODULE RaftApply ------------------------------
(***************************************************************************)
(* How a Raft follower hands its log to the service (raft/raft.go): the    *)
(* AppendEntries and InstallSnapshot handlers, the applyLogs goroutines    *)
(* they start, the unbuffered applyCh, and the service behind it           *)
(* (applierSnap of raft/config.go), which calls Snapshot back.             *)
(*                                                                         *)
(* The rest of the cluster is its agreed log: whatever a leader of         *)
(* LeaderTerm may have sent, from any moment of its life, may arrive, late *)
(* and out of order.  One step is one critical section of rf.mu, one send  *)
(* on applyCh (with the service's work on the message), or one unlocked    *)
(* read.  The peer may be restarted from its persister, with a new service *)
(* behind a new applyCh (crash1 and start1 of raft/config.go); what the    *)
(* old instance still has to send comes after it.                          *)
(***************************************************************************)
EXTENDS RaftPeer

CONSTANTS
    AgreedLog,          \* the log the cluster agrees on, from index 1
    LeaderTerm,         \* the term of the leader
    SnapShotInterval,   \* the service takes a snapshot every so many commands
    MaxAppends,         \* AppendEntries requests that arrive
    MaxInstalls,        \* InstallSnapshot requests that arrive
    MaxRestarts         \* restarts

ASSUME ApplyAssumption ==
    /\ AgreedLog \in Seq([Term : 1..LeaderTerm, Command : Command])
    /\ LeaderTerm \in Nat /\ SnapShotInterval \in Nat \ {0, 1}
    /\ MaxAppends \in Nat /\ MaxInstalls \in Nat /\ MaxRestarts \in Nat

VARIABLES
    rf,         \* the Raft struct of the follower
    snapshot,   \* rf.snapshot, as the index it covers
    applies,    \* its applyLogs goroutines
    snapshots,  \* the goroutines that send an installed snapshot
    service,    \* the applier: lastApplied, and the index it calls Snapshot with (or 0)
    status,     \* of the process: running, or how it died
    appends, installs,  \* requests received so far
    restarts,           \* restarts so far
    orphans             \* messages that goroutines of a killed instance still send

(* History variable: it records and never guards. *)
VARIABLE windows        \* the race windows of the code that a step has gone through

restartVars == <<restarts, orphans>>
vars == <<rf, snapshot, applies, snapshots, service, status, appends, installs, windows,
          restartVars>>

(***************************************************************************)
(* The ways in which the goroutines get into each other's way:             *)
(*   overlap       applyLogs collects commands that another applyLogs has  *)
(*                 not finished sending                                    *)
(*   overtake      a snapshot is installed while commands are being sent,  *)
(*                 or commands are collected while a snapshot is being sent *)
(*   cutBack       a late AppendEntries cuts the log below commitIndex or  *)
(*                 into the snapshot                                       *)
(*   swapped       applyLogs calls condInstallSnapshot, with its index and *)
(*                 term exchanged                                          *)
(*   orphan        the applier of a killed instance handles a message      *)
(*                 after the restart, in the books of the new one          *)
(***************************************************************************)
Window == {"overlap", "overtake", "cutBack", "swapped", "orphan"}

Through(passed) == windows' = windows \cup passed

Indices == 1..Len(AgreedLog)

AgreedTerm(n) == IF n = 0 THEN 0 ELSE AgreedLog[n].Term

SnapshotPoint(n) == n > 0 /\ (n + 1) % SnapShotInterval = 0

Init ==
    /\ rf = Make /\ snapshot = 0
    /\ applies = {} /\ snapshots = {}
    /\ service = [lastApplied |-> 0, taking |-> 0]
    /\ status = "running"
    /\ appends = 0 /\ installs = 0
    /\ restarts = 0 /\ orphans = {}
    /\ windows = {}

(* a message for the service is on its way *)
Busy == snapshots # {} \/ \E g \in applies : g.msgs # <<>>

-----------------------------------------------------------------------------
(* The RPC handlers *)

Leader == CHOOSE s \in Server : TRUE

(* genAppendEntries of a leader whose log ends at last *)
AppendArgs(prev, last, commit) ==
    [Term |-> LeaderTerm, LeaderId |-> Leader, PrevLogIndex |-> prev,
     PrevLogTerm |-> AgreedTerm(prev), Entries |-> SubSeq(AgreedLog, prev + 1, last),
     LeaderCommit |-> commit]

(* go rf.applyLogs() *)
GoApplyLogs(id) == {[id |-> id, pc |-> "spawned", msgs |-> <<>>, args |-> <<>>]}

(* Mutant: the commands are applied with the next AppendEntries only. *)
CommitsQuietly(peer, new) == FALSE

(* commitIndex has risen *)
Commits(peer, new) == peer.commitIndex < new.commitIndex

(* the AppendEntries handler *)
ReceiveAppend(prev, last, commit) ==
    LET args == AppendArgs(prev, last, commit)
        new == AppendEntries(rf, args)
    IN  /\ status = "running"
        /\ appends < MaxAppends
        /\ prev <= last /\ commit <= last
        /\ appends' = appends + 1
        /\ IF AppendEntriesPanics(rf, args)
           THEN status' = "panic" /\ UNCHANGED <<rf, applies>>
           ELSE /\ rf' = new
                /\ applies' = IF Commits(rf, new)
                              THEN applies \cup GoApplyLogs(appends + 1) ELSE applies
                /\ UNCHANGED status
        /\ Through({w \in {"cutBack"} : \/ prev < rf.lastIncludedIndex
                                        \/ LastLogicalIndex(new) < new.commitIndex})
        /\ UNCHANGED <<snapshot, snapshots, service, installs, restartVars>>

(* the InstallSnapshot handler; a goroutine of its own sends the snapshot  *)
ReceiveSnapshot(index) ==
    LET args == [Term |-> LeaderTerm, LeaderId |-> Leader,
                 LastIncludedIndex |-> index, LastIncludedTerm |-> AgreedTerm(index)]
        installed == ~DiscardsSnapshot(rf, args)
    IN  /\ status = "running"
        /\ installs < MaxInstalls
        /\ installs' = installs + 1
        /\ rf' = InstallSnapshot(rf, args)
        /\ snapshot' = IF installed THEN index ELSE snapshot
        /\ snapshots' = IF installed THEN snapshots \cup {index} ELSE snapshots
        /\ Through({w \in {"overtake"} : installed /\ Busy})
        /\ UNCHANGED <<applies, service, status, appends, restartVars>>

-----------------------------------------------------------------------------
(* applyLogs *)

Collected(peer) ==
    [n \in 1..(peer.commitIndex - peer.lastApplied) |->
        LET i == peer.lastApplied + n
        IN  [index |-> i, command |-> Entry(peer, StorageIndex(peer, i)).Command]]

(* logs[i] for an i in lastApplied+1..commitIndex is out of range *)
CollectPanics(peer) ==
    /\ peer.lastApplied < peer.commitIndex
    /\ peer.commitIndex > LastLogicalIndex(peer)

Becomes(g, h) == applies' = (applies \ {g}) \cup {h}

(* its first critical section *)
applyLogs(g) ==
    /\ status = "running" /\ g.pc = "spawned"
    /\ CASE rf.lastApplied < rf.lastIncludedIndex ->
                /\ Becomes(g, [g EXCEPT !.pc = "install"])
                /\ UNCHANGED <<status, windows>>
         [] rf.lastApplied >= rf.lastIncludedIndex /\ CollectPanics(rf) ->
                status' = "panic" /\ UNCHANGED <<applies, windows>>
         [] rf.lastApplied >= rf.lastIncludedIndex /\ ~CollectPanics(rf) ->
                /\ IF rf.commitIndex <= rf.lastApplied
                   THEN applies' = applies \ {g}
                   ELSE Becomes(g, [g EXCEPT !.pc = "sending", !.msgs = Collected(rf)])
                /\ Through(IF rf.commitIndex <= rf.lastApplied THEN {}
                           ELSE {w \in {"overlap"} : \E h \in applies : h.msgs # <<>>}
                                \cup {w \in {"overtake"} : snapshots # {}})
                /\ UNCHANGED status
    /\ UNCHANGED <<rf, snapshot, snapshots, service, appends, installs, restartVars>>

(* applierSnap and checkLogs: the index is the next one, and no server has *)
(* another command there (the other servers hold the agreed ones)          *)
ChecksOut(msg) ==
    /\ msg.index = service.lastApplied + 1
    /\ msg.command = AgreedLog[msg.index].Command

(* applyCh <- msg, when the service receives and checks it; it may go on   *)
(* to take a snapshot                                                      *)
SendCommand(g) ==
    LET i == Head(g.msgs).index
    IN  /\ status = "running" /\ g.pc = "sending" /\ service.taking = 0
        /\ Becomes(g, [g EXCEPT !.pc = "sent"])
        /\ service' = [lastApplied |-> i,
                       taking |-> IF (i + 1) % SnapShotInterval = 0 THEN i ELSE 0]
        /\ status' = IF ChecksOut(Head(g.msgs)) THEN status ELSE "apply error"
        /\ UNCHANGED <<rf, snapshot, snapshots, appends, installs, windows, restartVars>>

(* Mutant: the loop does not move on to the next message. *)
SetAppliedResends(g) ==
    /\ status = "running" /\ g.pc = "sent"
    /\ rf' = [rf EXCEPT !.lastApplied = Head(g.msgs).index]
    /\ IF Len(g.msgs) = 1
       THEN applies' = applies \ {g}
       ELSE Becomes(g, [g EXCEPT !.pc = "sending"])
    /\ UNCHANGED <<snapshot, snapshots, service, status, appends, installs, windows,
                   restartVars>>

(* rf.lastApplied = msg.CommandIndex, and on to the next message *)
SetApplied(g) ==
    /\ status = "running" /\ g.pc = "sent"
    /\ rf' = [rf EXCEPT !.lastApplied = Head(g.msgs).index]
    /\ IF Len(g.msgs) = 1
       THEN applies' = applies \ {g}
       ELSE Becomes(g, [g EXCEPT !.pc = "sending", !.msgs = Tail(@)])
    /\ UNCHANGED <<snapshot, snapshots, service, status, appends, installs, windows,
                   restartVars>>

(* applyLogs after the unlock: the arguments of condInstallSnapshot are    *)
(* read one by one, the index first                                        *)
ReadInstallArgs(g) ==
    /\ status = "running" /\ g.pc = "install" /\ Len(g.args) < 2
    /\ Becomes(g, [g EXCEPT !.args =
            Append(@, IF @ = <<>> THEN rf.lastIncludedIndex ELSE rf.lastIncludedTerm)])
    /\ UNCHANGED <<rf, snapshot, snapshots, service, status, appends, installs, windows,
                   restartVars>>

CondInstallPanics(peer, lastIncludedIndex) ==
    /\ lastIncludedIndex <= LastLogicalIndex(peer)
    /\ lastIncludedIndex < peer.lastIncludedIndex

CondInstall(peer, lastIncludedTerm, lastIncludedIndex) ==
    LET marker == [Term |-> lastIncludedTerm, Command |-> Nil]
    IN  [peer EXCEPT
            !.logs = IF lastIncludedIndex > LastLogicalIndex(peer) THEN <<marker>>
                     ELSE <<marker>> \o SubSeq(@, StorageIndex(peer, lastIncludedIndex) + 2,
                                               Len(@)),
            !.lastIncludedIndex = lastIncludedIndex,
            !.lastIncludedTerm = lastIncludedTerm,
            !.lastApplied = lastIncludedIndex,
            !.commitIndex = lastIncludedIndex]

(* condInstallSnapshot: applyLogs passes the index as its first parameter, *)
(* which is the term, and the term as its second, which is the index       *)
condInstallSnapshot(g) ==
    /\ status = "running" /\ g.pc = "install" /\ Len(g.args) = 2
    /\ IF CondInstallPanics(rf, g.args[2])
       THEN status' = "panic" /\ UNCHANGED rf
       ELSE rf' = CondInstall(rf, g.args[1], g.args[2]) /\ UNCHANGED status
    /\ applies' = applies \ {g}
    /\ Through({"swapped"})
    /\ UNCHANGED <<snapshot, snapshots, service, appends, installs, restartVars>>

-----------------------------------------------------------------------------
(* The service *)

(* applyCh <- the installed snapshot, which applierSnap ingests *)
SendSnapshot(index) ==
    /\ status = "running" /\ service.taking = 0
    /\ snapshots' = snapshots \ {index}
    /\ service' = [service EXCEPT !.lastApplied = index]
    /\ UNCHANGED <<rf, snapshot, applies, status, appends, installs, windows, restartVars>>

(* the service's call of Snapshot *)
Snapshot ==
    /\ status = "running" /\ service.taking # 0
    /\ service' = [service EXCEPT !.taking = 0]
    /\ CASE service.taking <= rf.lastIncludedIndex -> UNCHANGED <<rf, snapshot, status>>
         [] service.taking > LastLogicalIndex(rf)
            /\ service.taking > rf.lastIncludedIndex ->
                status' = "panic" /\ UNCHANGED <<rf, snapshot>>
         [] service.taking \in (rf.lastIncludedIndex + 1)..LastLogicalIndex(rf) ->
                /\ rf' = TrimLogs(rf, service.taking) /\ snapshot' = service.taking
                /\ UNCHANGED status
    /\ UNCHANGED <<applies, snapshots, appends, installs, windows, restartVars>>

-----------------------------------------------------------------------------
(* The tester restarts the peer *)

(* Mutant: lastApplied starts from 0 as the commands do. *)
ReadPersistFromZero(peer) ==
    [Make EXCEPT !.currentTerm = peer.currentTerm, !.votedFor = peer.votedFor,
                 !.logs = peer.logs, !.commitIndex = peer.lastIncludedIndex,
                 !.lastIncludedIndex = peer.lastIncludedIndex,
                 !.lastIncludedTerm = peer.lastIncludedTerm]

(* Make with readPersist: every handler here has persisted all it changed *)
ReadPersist(peer) ==
    [Make EXCEPT !.currentTerm = peer.currentTerm, !.votedFor = peer.votedFor,
                 !.logs = peer.logs, !.commitIndex = peer.lastIncludedIndex,
                 !.lastApplied = peer.lastIncludedIndex,
                 !.lastIncludedIndex = peer.lastIncludedIndex,
                 !.lastIncludedTerm = peer.lastIncludedTerm]

(* what applyLogs of a killed instance still has to send *)
Leftover(g) ==
    CASE g.pc = "sending" -> g.msgs
      [] g.pc = "sent" -> Tail(g.msgs)
      [] g.pc = "spawned" /\ rf.lastApplied >= rf.lastIncludedIndex
                          /\ rf.lastApplied < rf.commitIndex /\ ~CollectPanics(rf) ->
            Collected(rf)
      [] OTHER -> <<>>

(* an installed snapshot on its way: it has no command *)
SnapshotMsg(index) == <<[index |-> index, command |-> Nil]>>

(* crash1 and start1: Kill stops no goroutine that sends on applyCh, and   *)
(* the old applier goes on to receive.  The new instance starts from what  *)
(* the old one saved, the service from the saved snapshot.                 *)
Restart ==
    /\ status = "running" /\ restarts < MaxRestarts
    /\ restarts' = restarts + 1
    /\ rf' = ReadPersist(rf)
    /\ service' = [lastApplied |-> snapshot, taking |-> 0]
    /\ orphans' = (orphans \cup {Leftover(g) : g \in applies}
                           \cup {SnapshotMsg(index) : index \in snapshots}) \ {<<>>}
    /\ applies' = {} /\ snapshots' = {}
    /\ UNCHANGED <<snapshot, status, appends, installs, windows>>

(* applyCh <- msg of the killed instance: its applier checks and keeps the *)
(* same books as the new one's                                             *)
OrphanSends(msgs) ==
    /\ status = "running"
    /\ service' = [service EXCEPT !.lastApplied = Head(msgs).index]
    /\ status' = IF ChecksOut(Head(msgs)) \/ Head(msgs).command = Nil
                 THEN status ELSE "apply error"
    /\ orphans' = (orphans \ {msgs}) \cup ({Tail(msgs)} \ {<<>>})
    /\ Through({"orphan"})
    /\ UNCHANGED <<rf, snapshot, applies, snapshots, appends, installs, restarts>>

-----------------------------------------------------------------------------

ApplyStep(g) ==
    \/ applyLogs(g)
    \/ SendCommand(g)
    \/ SetApplied(g)
    \/ ReadInstallArgs(g)
    \/ condInstallSnapshot(g)

Next ==
    \/ \E prev, last, commit \in Indices \cup {0} : ReceiveAppend(prev, last, commit)
    \/ \E index \in Indices : SnapshotPoint(index) /\ ReceiveSnapshot(index)
    \/ \E g \in applies : ApplyStep(g)
    \/ \E index \in snapshots : SendSnapshot(index)
    \/ Snapshot
    \/ Restart
    \/ \E msgs \in orphans : OrphanSends(msgs)

Spec == Init /\ [][Next]_vars

(* The Go scheduler runs every goroutine again, an unbuffered channel      *)
(* serves its senders in turn and the service keeps receiving.             *)
FairSpec ==
    /\ Spec
    /\ \A n \in 1..MaxAppends : WF_vars(\E g \in applies : g.id = n /\ ApplyStep(g))
    /\ \A n \in Indices : WF_vars(n \in snapshots /\ SendSnapshot(n))
    /\ WF_vars(Snapshot)

-----------------------------------------------------------------------------

ApplyMsg == [index : Nat, command : Command \cup {Nil}]

(* Every variable has its type. *)
TypeOK ==
    /\ rf \in Peer /\ snapshot \in Indices \cup {0}
    /\ applies \subseteq [id : 1..MaxAppends, pc : {"spawned", "sending", "sent", "install"},
                          msgs : Seq(ApplyMsg), args : Seq(Nat)]
    /\ snapshots \subseteq Indices
    /\ service \in [lastApplied : Nat, taking : Indices \cup {0}]
    /\ status \in {"running", "panic", "apply error"}
    /\ appends \in 0..MaxAppends /\ installs \in 0..MaxInstalls
    /\ restarts \in 0..MaxRestarts /\ orphans \subseteq Seq(ApplyMsg)
    /\ windows \subseteq Window

(* What applyLogs has collected for an index is the command the cluster    *)
(* agrees on at that index, however often the log was trimmed, replaced by *)
(* a snapshot or cut back in between: storage and logical indices never    *)
(* get out of step, unless condInstallSnapshot ran (checkLogs of           *)
(* config.go).                                                             *)
CollectedAgreed ==
    "swapped" \notin windows =>
        \A g \in applies : \A n \in DOMAIN g.msgs :
            g.msgs[n].command = AgreedLog[g.msgs[n].index].Command

(* Without the windows listed above nothing goes wrong between Raft and    *)
(* its service: commands arrive in order, and neither applyLogs nor        *)
(* Snapshot nor AppendEntries indexes the log out of range.                *)
SoundButWindows == windows = {} => status = "running"

(* Raft's lastApplied and the service's agree whenever no message is on    *)
(* its way, after restarts and snapshots of either side as well: readPersist *)
(* resumes where the service does, and InstallSnapshot skips for Raft what *)
(* it skips for the service.                                               *)
AppliedInStepButWindows ==
    windows = {} /\ ~Busy => rf.lastApplied = service.lastApplied

(* A snapshot never takes the service back to an older state               *)
(* (InstallSnapshot, "If the snapshot is old, discard snapshot"): what is  *)
(* delivered is newer than all the service has applied.  Excepted are a    *)
(* snapshot that overtakes commands on their way, and condInstallSnapshot, *)
(* which sets lastApplied back.                                            *)
SnapshotNeverBack ==
    [][\A index \in snapshots \ snapshots' :
         \/ service.lastApplied < index
         \/ restarts' # restarts
         \/ windows \cap {"overtake", "swapped", "orphan"} # {}]_vars

(* Once no more requests arrive the service gets to everything that is     *)
(* committed and stays there (AppendEntries starts applyLogs for it), in a *)
(* restarted peer, too: applyLogs and Snapshot, which wait for each other  *)
(* through applyCh and the mutex, never block for good.  Excepted are a    *)
(* crash of the program, condInstallSnapshot, which sets commitIndex back, *)
(* a snapshot that overtakes commands, and a killed instance's applier.    *)
EveryCommitApplied ==
    <>[](\/ rf.commitIndex <= service.lastApplied
         \/ status # "running"
         \/ windows \cap {"overtake", "swapped", "orphan"} # {})
=============================================================================
