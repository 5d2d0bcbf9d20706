----------------------------- MODULE RaftPersist -----------------------------
(***************************************************************************)
(* What a Raft peer keeps through a crash (raft/raft.go, persister.go, and *)
(* crash1 and start1 of config.go): the handlers with their persist calls, *)
(* those under the mutex and those without it, and the restart from what   *)
(* the persister holds.                                                    *)
(*                                                                         *)
(* The other peers send whatever a candidate or a leader of a term may     *)
(* send.  A handler that persists under rf.mu is one step: nobody sees its *)
(* result before it is saved.  persist without the mutex (startElection,   *)
(* Start) reads the fields one by one while handlers run.                  *)
(***************************************************************************)
EXTENDS RaftPeer

CONSTANTS
    me,             \* this peer
    MaxTerm,        \* no term goes beyond this one
    MaxLog,         \* no log grows beyond this index
    MaxUnlocked,    \* persist calls without the mutex
    MaxCrashes      \* crashes

ASSUME PersistAssumption ==
    /\ me \in Server /\ Cardinality(Server) > 1
    /\ MaxTerm \in Nat /\ MaxLog \in Nat /\ MaxUnlocked \in Nat /\ MaxCrashes \in Nat

VARIABLES
    rf,         \* the Raft struct
    snapshot,   \* rf.snapshot, as the index it covers
    disk,       \* what the Persister holds
    writers,    \* persist calls without the mutex
    ticker,     \* where startElection stands
    asked,      \* RequestVote calls are out
    unlocked,   \* persist calls without the mutex so far
    crashes     \* crashes so far

(* History variables: they record and never guard. *)
VARIABLES
    told,       \* the persistent state others have last been told of
    windows     \* the race windows of the code that a step has gone through

vars == <<rf, snapshot, disk, writers, ticker, asked, unlocked, crashes, told, windows>>

(***************************************************************************)
(*   lateVote   the peer crashes as a candidate whose RequestVote calls    *)
(*              are out, before startElection's deferred persist           *)
(*   staleSave  persist without the mutex saves something else than the    *)
(*              present state                                              *)
(***************************************************************************)
Window == {"lateVote", "staleSave"}

Through(window, passed) == windows' = windows \cup {w \in {window} : passed}

Others == Server \ {me}

Terms == 1..MaxTerm

(* the fields in the order in which persist reads them *)
Field == <<"currentTerm", "votedFor", "logs", "lastIncludedIndex", "lastIncludedTerm",
           "snapshot">>

Image ==
    [currentTerm : Nat, votedFor : Server \cup {-1}, logs : Seq(LogEntry),
     lastIncludedIndex : Int, lastIncludedTerm : Int, snapshot : Nat]

(* what persist encodes when nothing changes meanwhile *)
ImageOf(peer, snap) ==
    [currentTerm |-> peer.currentTerm, votedFor |-> peer.votedFor, logs |-> peer.logs,
     lastIncludedIndex |-> peer.lastIncludedIndex,
     lastIncludedTerm |-> peer.lastIncludedTerm, snapshot |-> snap]

(* Mutant: votedFor is not restored. *)
ReadPersistNoVote(image) ==
    [Make EXCEPT !.currentTerm = image.currentTerm, !.logs = image.logs,
                 !.commitIndex = image.lastIncludedIndex,
                 !.lastApplied = image.lastIncludedIndex,
                 !.lastIncludedIndex = image.lastIncludedIndex,
                 !.lastIncludedTerm = image.lastIncludedTerm]

(* Make with readPersist *)
ReadPersist(image) ==
    [Make EXCEPT !.currentTerm = image.currentTerm, !.votedFor = image.votedFor,
                 !.logs = image.logs,
                 !.commitIndex = image.lastIncludedIndex,
                 !.lastApplied = image.lastIncludedIndex,
                 !.lastIncludedIndex = image.lastIncludedIndex,
                 !.lastIncludedTerm = image.lastIncludedTerm]

Init ==
    /\ rf = Make
    /\ snapshot = 0
    /\ disk = ImageOf(Make, 0)
    /\ writers = {}
    /\ ticker = "idle" /\ asked = FALSE
    /\ unlocked = 0 /\ crashes = 0
    /\ told = ImageOf(Make, 0)
    /\ windows = {}

-----------------------------------------------------------------------------
(* Persisting *)

(* A handler under the mutex changes the struct to peer, persists it and   *)
(* answers.                                                                *)
Persists(peer, snap) ==
    /\ rf' = peer
    /\ snapshot' = snap
    /\ disk' = ImageOf(peer, snap)
    /\ told' = ImageOf(peer, snap)
    /\ UNCHANGED <<writers, ticker, asked, unlocked, crashes, windows>>

(* persist without the mutex begins *)
GoPersist(election) ==
    /\ unlocked < MaxUnlocked
    /\ unlocked' = unlocked + 1
    /\ writers' = writers \cup
        {[id |-> unlocked + 1, election |-> election, read |-> 0,
          image |-> ImageOf(rf, snapshot)]}

(* persist without the mutex encodes its next field *)
PersistReads(w) ==
    LET field == Field[w.read + 1]
    IN  /\ w.read < Len(Field)
        /\ writers' = (writers \ {w}) \cup
            {[w EXCEPT !.read = @ + 1, !.image[field] = ImageOf(rf, snapshot)[field]]}
        /\ UNCHANGED <<rf, snapshot, disk, ticker, asked, unlocked, crashes, told, windows>>

(* persister.Save *)
Save(w) ==
    /\ w.read = Len(Field)
    /\ disk' = w.image
    /\ writers' = writers \ {w}
    /\ Through("staleSave", w.image # ImageOf(rf, snapshot))
    /\ UNCHANGED <<rf, snapshot, ticker, asked, unlocked, crashes, told>>

-----------------------------------------------------------------------------
(* Handlers that persist under the mutex *)

(* Mutant: the vote is answered before it is saved. *)
ReceiveRequestVoteUnsaved(args) ==
    /\ rf' = RequestVote(rf, args)
    /\ told' = ImageOf(RequestVote(rf, args), snapshot)
    /\ UNCHANGED <<snapshot, disk, writers, ticker, asked, unlocked, crashes, windows>>

(* the RequestVote handler *)
ReceiveRequestVote(args) ==
    Persists(RequestVote(rf, args), snapshot)

(* the AppendEntries handler (requests from before the snapshot, which cut  *)
(* into it, are in RaftApply)                                              *)
ReceiveAppend(args) ==
    /\ args.PrevLogIndex >= rf.lastIncludedIndex
    /\ LastLogicalIndex(AppendEntries(rf, args)) <= MaxLog
    /\ Persists(AppendEntries(rf, args), snapshot)

(* handleAppendEntries: its indices are of no concern here *)
ReceiveAppendReply(term) ==
    Persists(IF rf.role = "Leader" THEN ObserveTerm(rf, term) ELSE rf, snapshot)

(* the InstallSnapshot handler: an older term is refused before persist *)
ReceiveSnapshot(args) ==
    /\ args.Term >= rf.currentTerm
    /\ Persists(InstallSnapshot(rf, args),
                IF DiscardsSnapshot(rf, args) THEN snapshot ELSE args.LastIncludedIndex)

(* Mutant: persist comes before the snapshot is stored. *)
SnapshotSavesOld(index) ==
    /\ index \in (rf.lastIncludedIndex + 1)..Min({rf.commitIndex, LastLogicalIndex(rf)})
    /\ rf' = TrimLogs(rf, index)
    /\ snapshot' = index
    /\ disk' = ImageOf(TrimLogs(rf, index), snapshot)
    /\ UNCHANGED <<writers, ticker, asked, unlocked, crashes, told, windows>>

(* Snapshot: the service has applied what it covers *)
Snapshot(index) ==
    /\ index \in (rf.lastIncludedIndex + 1)..Min({rf.commitIndex, LastLogicalIndex(rf)})
    /\ rf' = TrimLogs(rf, index)
    /\ snapshot' = index
    /\ disk' = ImageOf(TrimLogs(rf, index), index)
    /\ UNCHANGED <<writers, ticker, asked, unlocked, crashes, told, windows>>

-----------------------------------------------------------------------------
(* Sections that do not persist under the mutex *)

(* startElection, its locked section *)
StartElection ==
    /\ ticker = "idle"
    /\ rf.role # "Leader" /\ rf.currentTerm < MaxTerm
    /\ unlocked < MaxUnlocked
    /\ rf' = BecomeCandidate(rf, me)
    /\ ticker' = "candidate"
    /\ UNCHANGED <<snapshot, disk, writers, asked, unlocked, crashes, told, windows>>

(* startElection sends its requests and only then comes to persist *)
SendRequestVotes ==
    /\ ticker = "candidate"
    /\ ticker' = "idle" /\ asked' = TRUE
    /\ told' = ImageOf(rf, snapshot)
    /\ GoPersist(TRUE)
    /\ UNCHANGED <<rf, snapshot, disk, crashes, windows>>

(* the reply goroutine of startElection, with any number of votes already  *)
(* counted (RaftCluster counts them); nothing is persisted                 *)
ReceiveVoteReply(reply, voteCount) ==
    /\ asked
    /\ rf' = HandleVoteReply(rf, reply, voteCount)
    /\ UNCHANGED <<snapshot, disk, writers, ticker, asked, unlocked, crashes, told, windows>>

(* Start: persist follows the unlock.  (Its two sections are apart in      *)
(* RaftCluster.)                                                           *)
Start(command) ==
    /\ rf.role = "Leader" /\ LastLogicalIndex(rf) < MaxLog
    /\ rf' = AppendCommand(rf, rf.currentTerm, command)
    /\ GoPersist(FALSE)
    /\ UNCHANGED <<snapshot, disk, ticker, asked, crashes, told, windows>>

-----------------------------------------------------------------------------

(* the goroutines of the old instance can no longer send or save *)
crash1 ==
    /\ writers' = {} /\ ticker' = "idle" /\ asked' = FALSE

(* a new instance, and a new service, from a copy of the persister *)
start1 ==
    /\ rf' = ReadPersist(disk)
    /\ snapshot' = disk.snapshot

CrashRestart ==
    /\ crashes < MaxCrashes
    /\ crashes' = crashes + 1
    /\ crash1
    /\ start1
    /\ Through("lateVote", \E w \in writers : w.election)
    /\ UNCHANGED <<disk, unlocked, told>>

(* What the other peers may send: a candidate's log is empty or as long as *)
(* logs get, a leader (no handler looks at who it is) sends at most one     *)
(* entry.                                                                  *)
Leader == {CHOOSE s \in Others : TRUE}

VoteArgs ==
    {[Term |-> t, CandidateId |-> c, LastLogIndex |-> n, LastLogTerm |-> n] :
        t \in Terms, c \in Others, n \in {0, MaxLog}}

AppendArgs ==
    {args \in
        [Term : Terms, LeaderId : Leader, PrevLogIndex : 0..MaxLog, PrevLogTerm : 0..MaxTerm,
         Entries : {<<>>} \cup {<<e>> : e \in [Term : Terms, Command : Command]},
         LeaderCommit : 0..MaxLog] :
        /\ args.PrevLogTerm <= args.Term
        /\ (args.PrevLogTerm = 0) = (args.PrevLogIndex = 0)
        /\ args.LeaderCommit <= args.PrevLogIndex + Len(args.Entries)
        /\ \A n \in DOMAIN args.Entries :
            args.Entries[n].Term \in args.PrevLogTerm..args.Term}

SnapshotArgs ==
    {args \in [Term : Terms, LeaderId : Leader, LastIncludedIndex : 1..MaxLog,
               LastIncludedTerm : Terms] : args.LastIncludedTerm <= args.Term}

Next ==
    \/ \E args \in VoteArgs : ReceiveRequestVote(args)
    \/ \E args \in AppendArgs : ReceiveAppend(args)
    \/ \E term \in Terms : ReceiveAppendReply(term)
    \/ \E args \in SnapshotArgs : ReceiveSnapshot(args)
    \/ \E index \in 1..MaxLog : Snapshot(index)
    \/ StartElection
    \/ SendRequestVotes
    \/ \E reply \in [Term : Terms, VoteGranted : BOOLEAN],
          voteCount \in 1..Cardinality(Others) : ReceiveVoteReply(reply, voteCount)
    \/ \E command \in Command : Start(command)
    \/ \E w \in writers : PersistReads(w) \/ Save(w)
    \/ CrashRestart

Spec == Init /\ [][Next]_vars

-----------------------------------------------------------------------------

(* Every variable has its type. *)
TypeOK ==
    /\ rf \in Peer
    /\ snapshot \in 0..MaxLog
    /\ disk \in Image /\ told \in Image
    /\ writers \subseteq [id : 1..MaxUnlocked, election : BOOLEAN, read : 0..Len(Field),
                          image : Image]
    /\ ticker \in {"idle", "candidate"} /\ asked \in BOOLEAN
    /\ unlocked \in 0..MaxUnlocked /\ crashes \in 0..MaxCrashes
    /\ windows \subseteq Window

(* The peer still has the entries that image has beyond its own snapshot. *)
HoldsLog(peer, image) ==
    \A n \in 2..Len(image.logs) :
        LET i == StorageIndex(peer, image.lastIncludedIndex + n - 1)
        IN  i > 0 => i < Len(peer.logs) /\ Entry(peer, i) = image.logs[n]

(* The peer stands by what image says: the term, the vote in it, the log. *)
StandsBy(peer, image) ==
    /\ peer.currentTerm >= image.currentTerm
    /\ peer.currentTerm = image.currentTerm => image.votedFor \in {-1, peer.votedFor}
    /\ HoldsLog(peer, image)

(* A restarted peer stands by everything it had told other peers before    *)
(* the crash (persist: "save Raft's persistent state to stable storage,    *)
(* where it can later be retrieved after a crash and restart").            *)
PromisesKept ==
    [][crashes' # crashes => StandsBy(rf', told)]_vars

(* Only the persist calls made without the mutex break that promise: the   *)
(* one of startElection by coming late, both by saving a stale state.      *)
PromisesKeptButWindows ==
    [][crashes' # crashes => (windows' = {} => StandsBy(rf', told))]_vars

(* The saved snapshot and the saved Raft state are of the same moment      *)
(* (Save: "a single atomic action, to help avoid them getting out of       *)
(* sync"): a restarted service and its peer start at the same index.       *)
SavedInSync == disk.snapshot = disk.lastIncludedIndex

(* They get out of step through a persist without the mutex only.          *)
SavedInSyncButWindows == "staleSave" \notin windows => SavedInSync

(* Every change of the persistent state is on disk once the persist calls  *)
(* under way are done (Lab3C-solution.md), but for a newer term learnt     *)
(* from a vote reply, which startElection does not persist: the peer then  *)
(* has cast no vote in that term, so a crash takes back nothing.           *)
DiskBehindByTermOnly ==
    (ticker = "idle" /\ writers = {} /\ "staleSave" \notin windows) =>
        \/ disk = ImageOf(rf, snapshot)
        \/ /\ disk.currentTerm < rf.currentTerm /\ rf.votedFor = -1
           /\ [disk EXCEPT !.currentTerm = rf.currentTerm, !.votedFor = -1] =
                ImageOf(rf, snapshot)
=============================================================================
