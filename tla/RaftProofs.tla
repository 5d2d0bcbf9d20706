----------------------------- MODULE RaftProofs -----------------------------
(***************************************************************************)
(* Elections: why a peer votes once per term, why voteCount is sound, and  *)
(* why two leaders of one term need one of the windows RaftCluster names.  *)
(* Logs: what holds of every run of RaftCluster through none of these      *)
(* windows; the logs match, committed entries agree, are on a majority and *)
(* stay.  Then why RaftHeart is a RaftCluster, so that all this holds of   *)
(* it too; why a Leader has an open heartChan; and why closing one twice   *)
(* needs the unlocked step-down of handleInstallSnapshot.                  *)
(***************************************************************************)
EXTENDS RaftSafetyProofs, RaftHeart, FiniteSetTheorems

(* Most facts are first-order; the ones with arithmetic name SMTT. *)
USE ZenonT(30)

-----------------------------------------------------------------------------
(* The kinds of step *)

(* A step outside the elections: peers change quietly. *)
QuietStep ==
    /\ \A s \in Server : Quiet(rf[s], rf'[s])
    /\ UNCHANGED <<elections, voteRequests, voteReplies, grants>>
    /\ \A s \in Server : ticker'[s] = "candidate" => ticker[s] = "candidate"

(* One peer that changes quietly, or none, makes a quiet step. *)
LEMMA OneQuiet ==
    ASSUME Typed, NEW s \in Server, NEW q, Quiet(rf[s], q),
           rf' = [rf EXCEPT ![s] = q] \/ rf' = rf,
           UNCHANGED <<ticker, elections, voteRequests, voteReplies, grants>>
    PROVE  QuietStep
<1>1. \A t \in Server : Quiet(rf[t], rf[t])
  BY QuietReflexive DEF Typed
<1>2. \A t \in Server : Quiet(rf[t], rf'[t])
  BY <1>1 DEF Typed, TypeOK
<1> QED
  BY <1>2 DEF QuietStep

(* The heartbeat loop, Start and the append goroutines are quiet. *)
LEMMA AppendStepQuiet ==
    ASSUME Typed,
           \/ \E s \in Server : \/ ElectionTimeout(s)
                               \/ Heartbeat(s)
                               \/ \E command \in Command : StartReadsTerm(s, command)
           \/ \E p \in starts : StartAppends(p)
           \/ \E c \in appendCalls : AppendStep(c)
    PROVE  QuietStep
<1>0. \A t \in Server : Quiet(rf[t], rf[t])
  BY QuietReflexive DEF Typed
<1>1. ASSUME NEW s \in Server,
             ElectionTimeout(s) \/ Heartbeat(s)
                \/ \E command \in Command : StartReadsTerm(s, command)
      PROVE  QuietStep
  BY <1>0, <1>1 DEF ElectionTimeout, Heartbeat, StartReadsTerm, QuietStep, voteVars,
                    histVars, Typed, TypeOK
<1>2. ASSUME NEW p \in starts, StartAppends(p) PROVE QuietStep
  <2>1. p.server \in Server /\ p.term \in Nat /\ p.command \in Command
    BY DEF Typed, TypeOK
  <2>2. Quiet(rf[p.server], AppendCommand(rf[p.server], p.term, p.command))
    BY <2>1, AppendCommandQuiet DEF Typed
  <2> QED
    BY <1>2, <2>1, <2>2, OneQuiet DEF StartAppends, voteVars
<1>3. ASSUME NEW c \in appendCalls, AppendStep(c) PROVE QuietStep
  <2>1. CASE PrepareAppend(c) \/ Panic(c) \/ SendAppend(c)
    BY <1>0, <2>1 DEF PrepareAppend, Panic, SendAppend, QuietStep, voteVars, histVars
  <2>2. CASE ReceiveAppend(c)
    <3>1. Quiet(rf[c.to], AppendEntries(rf[c.to], c.args))
      BY <2>2, AppendCallFields, AppendEntriesQuiet DEF ReceiveAppend, Typed
    <3> QED
      BY <2>2, <3>1, OneQuiet, AppendCallFields DEF ReceiveAppend, voteVars
  <2>3. CASE ReceiveAppendReply(c)
    <3>1. Quiet(rf[c.from], HandleAppendEntries(rf[c.from], c.from, c.to, c.args, c.reply))
      BY <2>3, AppendCallFields, HandleAppendEntriesQuiet DEF ReceiveAppendReply, Typed
    <3> QED
      BY <2>3, <3>1, OneQuiet, AppendCallFields DEF ReceiveAppendReply, voteVars
  <2> QED
    BY <1>3, <2>1, <2>2, <2>3 DEF AppendStep
<1> QED
  BY <1>1, <1>2, <1>3

(* So is handleInstallSnapshot except where it sets the term or the vote. *)
LEMMA SnapshotStepQuiet ==
    ASSUME Typed, NEW c \in snapCalls, SnapshotStep(c)
    PROVE  QuietStep \/ SnapshotSetsTerm(c) \/ SnapshotSetsVote(c)
<1>0. \A t \in Server : Quiet(rf[t], rf[t])
  BY QuietReflexive DEF Typed
<1>1. CASE \/ PrepareSnapshot(c) \/ SendSnapshot(c) \/ CheckSnapshotReply(c)
           \/ CompareSnapshotReply(c) \/ CompareSnapshotIndex(c)
  BY <1>0, <1>1 DEF PrepareSnapshot, SendSnapshot, CheckSnapshotReply,
     CompareSnapshotReply, CompareSnapshotIndex, QuietStep, voteVars, histVars
<1>2. CASE ReceiveSnapshot(c)
  <2>1. Quiet(rf[c.to], InstallSnapshot(rf[c.to], c.args))
    BY <1>2, SnapCallFields, InstallSnapshotQuiet DEF ReceiveSnapshot, Typed
  <2> QED
    BY <1>2, <2>1, OneQuiet, SnapCallFields DEF ReceiveSnapshot, voteVars, histVars
<1>3. CASE SnapshotSetsNext(c) \/ SnapshotSetsMatch(c)
  <2>1. /\ c.from \in Server /\ c.to \in Server /\ rf[c.from] \in Unsnapped
        /\ c.args.LastIncludedIndex \in Int /\ c.args.LastIncludedIndex + 1 \in Int
    BY <1>3, SnapCallFields, SMTT(30) DEF SnapshotSetsNext, SnapshotSetsMatch, Typed
  <2>2. /\ Quiet(rf[c.from], [rf[c.from] EXCEPT !.nextIndex[c.to] = c.args.LastIncludedIndex + 1])
        /\ Quiet(rf[c.from], [rf[c.from] EXCEPT !.matchIndex[c.to] = c.args.LastIncludedIndex])
    BY <2>1, SnapshotSetsQuiet
  <2>3. PICK q : Quiet(rf[c.from], q) /\ rf' = [rf EXCEPT ![c.from] = q]
    BY <1>3, <2>2 DEF SnapshotSetsNext, SnapshotSetsMatch
  <2> QED
    BY <1>3, <2>1, <2>3, OneQuiet DEF SnapshotSetsNext, SnapshotSetsMatch, voteVars, histVars
<1>4. CASE SnapshotSetsRole(c)
  <2>1. rf[c.from] \in Unsnapped
    BY SnapCallFields DEF Typed
  <2>2. Quiet(rf[c.from], ConvertRole(rf[c.from], "Follower"))
    BY <2>1 DEF Quiet, ConvertRole, Unsnapped, Peer, Role
  <2> QED
    BY <1>4, <2>2, OneQuiet, SnapCallFields DEF SnapshotSetsRole, voteVars, histVars
<1> QED
  BY <1>1, <1>2, <1>3, <1>4 DEF SnapshotStep

(* Every step is quiet, a step of an election, or an unlocked reset. *)
LEMMA StepKinds ==
    ASSUME Typed, [Next]_vars
    PROVE  \/ QuietStep
           \/ \E s \in Server : StartElection(s) \/ SendRequestVotes(s)
           \/ \E m \in voteRequests : ReceiveRequestVote(m)
           \/ \E m \in voteReplies : ReceiveVoteReply(m)
           \/ \E c \in snapCalls : SnapshotSetsTerm(c) \/ SnapshotSetsVote(c)
<1>1. CASE UNCHANGED vars
  <2>1. \A t \in Server : Quiet(rf[t], rf[t])
    BY QuietReflexive DEF Typed
  <2> QED
    BY <1>1, <2>1 DEF QuietStep, vars, voteVars, histVars
<1>2. CASE Next
  BY <1>2, AppendStepQuiet, SnapshotStepQuiet DEF Next, PeerStep
<1> QED
  BY <1>1, <1>2

(* The unlocked resets follow the window that names them. *)
LEMMA UnlockedStep == Typed /\ UnlockedInv /\ [Next]_vars => UnlockedInv'
<1> SUFFICES ASSUME Typed, UnlockedInv, [Next]_vars PROVE UnlockedInv'
  OBVIOUS
<1>1. windows \subseteq windows'
  BY WindowsGrow
<1>2. CASE snapCalls' = snapCalls
  BY <1>1, <1>2 DEF UnlockedInv
<1>3. ASSUME NEW c \in appendCalls, SendAppend(c) PROVE UnlockedInv'
  <2>1. CASE c.pc = "ready"
    BY <1>2, <1>3, <2>1 DEF SendAppend
  <2>2. CASE c.pc = "snapshot"
    <3>1. \A d \in snapCalls' \ snapCalls : d.pc = "spawned"
      BY <1>3, AppendCallFields DEF SendAppend
    <3> QED
      BY <1>1, <3>1 DEF UnlockedInv
  <2> QED
    BY <1>3, <2>1, <2>2 DEF SendAppend
<1>4. ASSUME NEW c \in snapCalls, SnapshotStep(c) PROVE UnlockedInv'
  <2>1. ASSUME NEW pc, NEW x
        PROVE  /\ [c EXCEPT !.pc = pc].pc = pc
               /\ [c EXCEPT !.pc = pc, !.args = x].pc = pc
               /\ [c EXCEPT !.pc = pc, !.reply = x].pc = pc
    <3>1. c \in SnapCall
      BY DEF Typed, TypeOK
    <3> QED
      BY <3>1 DEF SnapCall, Goroutine
  <2>2. CASE SnapshotSetsTerm(c) \/ SnapshotSetsRole(c) \/ SnapshotSetsVote(c)
    <3>1. "unlockedStepDown" \in windows'
      BY <1>1, <2>2 DEF SnapshotSetsTerm, SnapshotSetsRole, SnapshotSetsVote, Through,
                        UnlockedInv
    <3> QED
      BY <3>1 DEF UnlockedInv
  <2>3. CASE ~(SnapshotSetsTerm(c) \/ SnapshotSetsRole(c) \/ SnapshotSetsVote(c))
    <3>1. \A d \in snapCalls' \ snapCalls : d.pc \notin {"setRole", "setVote"}
      <4>0. ASSUME NEW d, d.pc \notin {"setRole", "setVote"},
                   snapCalls' = Advance(snapCalls, c, d) \/ snapCalls' = snapCalls \ {c}
            PROVE  \A e \in snapCalls' \ snapCalls : e.pc \notin {"setRole", "setVote"}
        BY <4>0 DEF Advance
      <4>1. CASE PrepareSnapshot(c)
        <5> DEFINE d == [c EXCEPT !.pc = "ready",
                                !.args = GenInstallSnapshotArgs(rf[c.from], c.from)]
        <5>1. d.pc = "ready"
          BY <2>1
        <5>2. snapCalls' = Advance(snapCalls, c, d)
          BY <4>1 DEF PrepareSnapshot
        <5> HIDE DEF d
        <5> QED
          BY <4>0, <5>1, <5>2
      <4>2. CASE SendSnapshot(c)
        <5> DEFINE d == [c EXCEPT !.pc = "request"]
        <5>1. d.pc = "request"
          BY <2>1
        <5>2. snapCalls' = Advance(snapCalls, c, d) \/ snapCalls' = snapCalls \ {c}
          BY <4>2 DEF SendSnapshot
        <5> HIDE DEF d
        <5> QED
          BY <4>0, <5>1, <5>2
      <4>3. CASE ReceiveSnapshot(c)
        <5> DEFINE d == [c EXCEPT !.pc = "reply",
                                !.reply = InstallSnapshotReply(rf[c.to], c.args)]
        <5>1. d.pc = "reply"
          BY <2>1
        <5>2. snapCalls' = Advance(snapCalls, c, d)
          BY <4>3 DEF ReceiveSnapshot
        <5> HIDE DEF d
        <5> QED
          BY <4>0, <5>1, <5>2
      <4>4. CASE CheckSnapshotReply(c)
        <5> DEFINE d == [c EXCEPT !.pc = "checked"]
        <5>1. d.pc = "checked"
          BY <2>1
        <5>2. snapCalls' = Advance(snapCalls, c, d) \/ snapCalls' = snapCalls \ {c}
          BY <4>4 DEF CheckSnapshotReply
        <5> HIDE DEF d
        <5> QED
          BY <4>0, <5>1, <5>2
      <4>5. CASE CompareSnapshotReply(c) \/ CompareSnapshotIndex(c)
        <5>1. \/ snapCalls' = snapCalls \ {c}
              \/ \E pc \in {"setTerm", "delivered", "setNext"} :
                    snapCalls' = Advance(snapCalls, c, [c EXCEPT !.pc = pc])
          BY <4>5 DEF CompareSnapshotReply, CompareSnapshotIndex
        <5>2. ASSUME NEW pc \in {"setTerm", "delivered", "setNext"},
                     snapCalls' = Advance(snapCalls, c, [c EXCEPT !.pc = pc])
              PROVE  \A d \in snapCalls' \ snapCalls : d.pc \notin {"setRole", "setVote"}
          BY <2>1, <5>2 DEF Advance
        <5> QED
          BY <5>1, <5>2
      <4>6. CASE SnapshotSetsNext(c)
        <5> DEFINE d == [c EXCEPT !.pc = "setMatch"]
        <5>1. d.pc = "setMatch"
          BY <2>1
        <5>2. snapCalls' = Advance(snapCalls, c, d)
          BY <4>6 DEF SnapshotSetsNext
        <5> HIDE DEF d
        <5> QED
          BY <4>0, <5>1, <5>2
      <4>7. CASE SnapshotSetsMatch(c)
        BY <4>7 DEF SnapshotSetsMatch
      <4> QED
        BY <1>4, <2>3, <4>1, <4>2, <4>3, <4>4, <4>5, <4>6, <4>7 DEF SnapshotStep
    <3> QED
      BY <1>1, <3>1 DEF UnlockedInv
  <2> QED
    BY <2>2, <2>3
<1> QED
  BY <1>2, <1>3, <1>4 DEF Next, vars, logVars, PeerStep, AppendStep, ElectionTimeout,
     StartElection, SendRequestVotes, Heartbeat, StartReadsTerm, ReceiveRequestVote,
     ReceiveVoteReply, StartAppends, PrepareAppend, Panic, ReceiveAppend,
     ReceiveAppendReply

-----------------------------------------------------------------------------
(* The calls of an election *)

(* What SendRequestVotes(s) adds. *)
LEMMA SendRequestVotesEffect ==
    ASSUME Typed, NEW s \in Server, SendRequestVotes(s)
    PROVE  LET id == Len(elections[s]) + 1
           IN  /\ id \in Nat /\ id \notin DOMAIN elections[s]
               /\ DOMAIN elections'[s] = DOMAIN elections[s] \cup {id}
               /\ elections'[s][id].Term = rf[s].currentTerm
               /\ elections'[s][id].voteCount = 1
               /\ \A n \in DOMAIN elections[s] : n < id /\ elections'[s][n] = elections[s][n]
               /\ \A t \in Server \ {s} : elections'[t] = elections[t]
               /\ voteRequests \subseteq voteRequests'
               /\ \A m \in voteRequests' \ voteRequests :
                    /\ m.from = s /\ m.to \in Server \ {s} /\ m.election = id
                    /\ m.args.Term = rf[s].currentTerm /\ m.args.CandidateId = s
               /\ \A m, k \in voteRequests' \ voteRequests : m.to = k.to => m = k
               /\ ticker[s] = "candidate" /\ ticker' = [ticker EXCEPT ![s] = "idle"]
               /\ UNCHANGED <<rf, voteReplies, grants, windows>>
<1> DEFINE args == GenRequestVoteArgs(rf[s], s)
           id == Len(elections[s]) + 1
           e == [Term |-> args.Term, voteCount |-> 1]
           new == {[from |-> s, to |-> i, election |-> id, args |-> args] :
                      i \in {j \in Server \ {s} : Reachable(s, j)}}
<1>1. args \in RequestVoteArgs /\ args.Term = rf[s].currentTerm /\ args.CandidateId = s
  BY GenRequestVoteArgsType DEF Typed
<1>2. e \in [Term : Nat, voteCount : Nat] /\ e.Term = rf[s].currentTerm /\ e.voteCount = 1
  BY <1>1 DEF RequestVoteArgs
<1>3. /\ elections[s] \in Seq([Term : Nat, voteCount : Nat])
      /\ Len(elections[s]) \in Nat /\ DOMAIN elections[s] = 1..Len(elections[s])
  BY LenProperties DEF Typed, TypeOK
<1> HIDE DEF args
<1>4. /\ elections' = [elections EXCEPT ![s] = Append(@, e)]
      /\ voteRequests' = voteRequests \cup new
      /\ ticker[s] = "candidate" /\ ticker' = [ticker EXCEPT ![s] = "idle"]
      /\ UNCHANGED <<rf, voteReplies, grants, windows>>
  BY DEF SendRequestVotes, args, histVars
<1>5. \A m \in new : /\ m.from = s /\ m.to \in Server \ {s} /\ m.election = id
                     /\ m.args.Term = rf[s].currentTerm /\ m.args.CandidateId = s
  BY <1>1, SMTT(30)
<1>6. \A m, k \in new : m.to = k.to => m = k
  BY SMTT(30)
<1> HIDE DEF e, new
<1>7. elections'[s] = Append(elections[s], e) /\ \A t \in Server \ {s} : elections'[t] = elections[t]
  BY <1>4 DEF Typed, TypeOK
<1>8. /\ Append(elections[s], e) \in Seq([Term : Nat, voteCount : Nat])
      /\ Len(Append(elections[s], e)) = id
      /\ DOMAIN Append(elections[s], e) = 1..id
      /\ \A n \in 1..Len(elections[s]) : Append(elections[s], e)[n] = elections[s][n]
      /\ Append(elections[s], e)[id] = e
  BY <1>2, <1>3, AppendProperties, LenProperties, SMTT(30)
<1>9. /\ id \in Nat /\ id \notin 1..Len(elections[s])
      /\ 1..id = 1..Len(elections[s]) \cup {id}
      /\ \A n \in 1..Len(elections[s]) : n < id
  BY <1>3, SMTT(30)
<1> HIDE DEF id
<1>10. /\ DOMAIN elections'[s] = DOMAIN elections[s] \cup {id}
       /\ elections'[s][id] = e
       /\ \A n \in DOMAIN elections[s] : n < id /\ elections'[s][n] = elections[s][n]
  BY <1>3, <1>7, <1>8, <1>9
<1> QED
  BY <1>2, <1>3, <1>4, <1>5, <1>6, <1>7, <1>9, <1>10 DEF id

(* The unlocked resets touch no call and no vote. *)
LEMMA UnlockedResetEffect ==
    ASSUME Typed, NEW c \in snapCalls, SnapshotSetsTerm(c) \/ SnapshotSetsVote(c)
    PROVE  UNCHANGED <<ticker, elections, voteRequests, voteReplies, grants>>
BY DEF SnapshotSetsTerm, SnapshotSetsVote, voteVars, histVars

(* Each step keeps the calls in order. *)
LEMMA CallStep == Typed /\ CallInv /\ [Next]_vars => CallInv'
<1> SUFFICES ASSUME Typed, CallInv, [Next]_vars PROVE CallInv'
  OBVIOUS
<1>1. CASE UNCHANGED <<elections, voteRequests, voteReplies, grants>>
  BY <1>1 DEF CallInv, SameCall, Vote
<1>2. ASSUME NEW s \in Server, StartElection(s) PROVE CallInv'
  BY <1>2 DEF StartElection, CallInv, SameCall, Vote
<1>3. ASSUME NEW s \in Server, SendRequestVotes(s) PROVE CallInv'
  <2> DEFINE id == Len(elections[s]) + 1
             new == voteRequests' \ voteRequests
  <2>1. /\ id \notin DOMAIN elections[s]
        /\ elections'[s][id].Term = rf[s].currentTerm
        /\ \A n \in DOMAIN elections[s] : elections'[s][n] = elections[s][n]
        /\ \A t \in Server \ {s} : elections'[t] = elections[t]
        /\ \A m \in new : /\ m.from = s /\ m.to \in Server \ {s} /\ m.election = id
                          /\ m.args.Term = rf[s].currentTerm /\ m.args.CandidateId = s
        /\ \A m, k \in new : m.to = k.to => m = k
        /\ UNCHANGED <<voteReplies, grants>>
    BY <1>3, SendRequestVotesEffect
  <2> HIDE DEF id
  <2>2. \A m \in voteRequests \cup voteReplies :
            /\ m.from \in Server /\ m.election \in DOMAIN elections[m.from]
    BY DEF Typed, TypeOK, VoteRequest, VoteReply
  <2>3. \A m \in voteRequests \cup voteReplies :
            elections'[m.from][m.election] = elections[m.from][m.election]
    BY <2>1, <2>2
  <2>4. \A m \in voteRequests \cup voteReplies, k \in new : ~SameCall(m, k)
    BY <2>1, <2>2 DEF SameCall
  <2>5. voteRequests' \subseteq voteRequests \cup new
    OBVIOUS
  <2> HIDE DEF new
  <2>6. \A m \in voteRequests' :
            /\ m.args.CandidateId = m.from /\ m.to # m.from
            /\ m.args.Term = elections'[m.from][m.election].Term
    BY <2>1, <2>3, <2>5 DEF CallInv
  <2>7. \A m \in voteReplies' :
            /\ m.to # m.from
            /\ m.reply.VoteGranted =>
                Vote(m.to, elections'[m.from][m.election].Term, m.from) \in grants'
    BY <2>1, <2>3 DEF CallInv
  <2>8. \A m, k \in voteRequests' : SameCall(m, k) => m = k
    <3>1. \A m, k \in new : SameCall(m, k) => m = k
      BY <2>1 DEF SameCall
    <3>2. \A m, k \in voteRequests : SameCall(m, k) => m = k
      BY DEF CallInv
    <3>3. \A m \in new, k \in voteRequests : ~SameCall(m, k)
      BY <2>4 DEF SameCall
    <3> QED
      BY <2>4, <2>5, <3>1, <3>2, <3>3
  <2>9. \A m \in voteRequests', k \in voteReplies' : ~SameCall(m, k)
    <3>1. \A m \in new, k \in voteReplies : ~SameCall(m, k)
      BY <2>4 DEF SameCall
    <3> QED
      BY <2>1, <2>5, <3>1 DEF CallInv
  <2> QED
    BY <2>1, <2>6, <2>7, <2>8, <2>9 DEF CallInv, SameCall, Vote
<1>4. ASSUME NEW m \in voteRequests, ReceiveRequestVote(m) PROVE CallInv'
  <2> DEFINE r == [from |-> m.from, to |-> m.to, election |-> m.election,
                   reply |-> RequestVoteReply(rf[m.to], m.args)]
             g == Vote(m.to, m.args.Term, m.from)
  <2>1. /\ voteRequests' = voteRequests \ {m} /\ voteReplies' = voteReplies \cup {r}
        /\ r.reply.VoteGranted = GrantsVote(rf[m.to], m.args)
        /\ grants' = IF GrantsVote(rf[m.to], m.args) THEN grants \cup {g} ELSE grants
        /\ elections' = elections
    BY <1>4, ReceiveRequestVoteEffect
  <2>2. /\ m.to # m.from /\ m.args.Term = elections[m.from][m.election].Term
    BY DEF CallInv
  <2>3. r.from = m.from /\ r.to = m.to /\ r.election = m.election
    OBVIOUS
  <2> HIDE DEF r
  <2>4. \A k : SameCall(r, k) <=> SameCall(m, k)
    BY <2>3 DEF SameCall
  <2>5. \A k : SameCall(k, r) <=> SameCall(k, m)
    BY <2>3 DEF SameCall
  <2>6. \A k \in voteReplies' :
            /\ k.to # k.from
            /\ k.reply.VoteGranted =>
                Vote(k.to, elections[k.from][k.election].Term, k.from) \in grants'
    BY <2>1, <2>2, <2>3 DEF CallInv
  <2>7. \A k, l \in voteReplies' : SameCall(k, l) => k = l
    <3>1. \A k \in voteReplies : ~SameCall(m, k) /\ ~SameCall(k, m)
      BY DEF CallInv, SameCall
    <3> QED
      BY <2>1, <2>4, <2>5, <3>1, SMTT(30) DEF CallInv
  <2>8. \A k \in voteRequests', l \in voteReplies' : ~SameCall(k, l)
    <3>1. \A k \in voteRequests \ {m} : ~SameCall(k, m)
      BY DEF CallInv
    <3> QED
      BY <2>1, <2>5, <3>1 DEF CallInv
  <2>9. /\ \A k \in voteRequests' :
            /\ k.args.CandidateId = k.from /\ k.to # k.from
            /\ k.args.Term = elections[k.from][k.election].Term
        /\ \A k, l \in voteRequests' : SameCall(k, l) => k = l
    BY <2>1 DEF CallInv
  <2> QED
    BY <2>1, <2>6, <2>7, <2>8, <2>9 DEF CallInv, SameCall, Vote
<1>5. ASSUME NEW m \in voteReplies, ReceiveVoteReply(m) PROVE CallInv'
  <2>1. /\ voteReplies' = voteReplies \ {m}
        /\ \A t \in Server : \A n \in DOMAIN elections[t] :
                elections'[t][n].Term = elections[t][n].Term
        /\ UNCHANGED <<voteRequests, grants>>
    BY <1>5, ReceiveVoteReplyEffect
  <2>2. \A k \in voteRequests \cup voteReplies :
            /\ k.from \in Server /\ k.election \in DOMAIN elections[k.from]
    BY DEF Typed, TypeOK, VoteRequest, VoteReply
  <2>3. \A k \in voteRequests \cup voteReplies :
            elections'[k.from][k.election].Term = elections[k.from][k.election].Term
    BY <2>1, <2>2
  <2> QED
    BY <2>1, <2>3 DEF CallInv, SameCall, Vote
<1> QED
  BY <1>1, <1>2, <1>3, <1>4, <1>5, StepKinds, UnlockedResetEffect DEF QuietStep

(* Counted votes stay counted. *)
LEMMA CountedGrows ==
    ASSUME NEW s \in Server, NEW n, Counted(s, n) \subseteq Counted(s, n)'
    PROVE  /\ Cardinality(Counted(s, n)) \in Nat /\ Cardinality(Counted(s, n)') \in Nat
           /\ Cardinality(Counted(s, n)) <= Cardinality(Counted(s, n)')
<1>1. Counted(s, n) \in SUBSET Server /\ Counted(s, n)' \in SUBSET Server
  BY DEF Counted
<1>2. IsFiniteSet(Counted(s, n)) /\ IsFiniteSet(Counted(s, n)')
  BY <1>1, ServerAssumption, FS_Subset
<1> HIDE DEF Counted
<1> QED
  BY <1>2, FS_Subset, FS_CardinalityType

(* Each step keeps voteCount within the votes counted. *)
LEMMA CountStep == Typed /\ CallInv /\ CountInv /\ [Next]_vars => CountInv'
<1> SUFFICES ASSUME Typed, CallInv, CountInv, [Next]_vars,
                    NEW s \in Server, NEW n \in DOMAIN elections'[s]
             PROVE  elections'[s][n].voteCount <= 1 + Cardinality(Counted(s, n)')
  BY DEF CountInv
<1>0. ASSUME NEW t \in Server, NEW k \in DOMAIN elections[t]
      PROVE  elections[t][k].voteCount \in Nat
  <2>1. elections[t] \in Seq([Term : Nat, voteCount : Nat])
    BY DEF Typed, TypeOK
  <2>2. elections[t][k] \in [Term : Nat, voteCount : Nat]
    BY <2>1, ElementOfSeq, LenProperties
  <2> QED
    BY <2>2
<1>1. ASSUME n \in DOMAIN elections[s],
             elections'[s][n].voteCount = elections[s][n].voteCount,
             Counted(s, n) \subseteq Counted(s, n)'
      PROVE  elections'[s][n].voteCount <= 1 + Cardinality(Counted(s, n)')
  BY <1>0, <1>1, CountedGrows, SMTT(30) DEF CountInv
<1>2. CASE UNCHANGED <<elections, voteRequests, voteReplies>> /\ grants \subseteq grants'
  <2>1. Counted(s, n) \subseteq Counted(s, n)'
    BY <1>2 DEF Counted, Vote
  <2> QED
    BY <1>1, <1>2, <2>1
<1>3. ASSUME NEW t \in Server, StartElection(t)
      PROVE  UNCHANGED <<elections, voteRequests, voteReplies>> /\ grants \subseteq grants'
  BY <1>3 DEF StartElection
<1>4. ASSUME NEW t \in Server, SendRequestVotes(t)
      PROVE  elections'[s][n].voteCount <= 1 + Cardinality(Counted(s, n)')
  <2> DEFINE id == Len(elections[t]) + 1
  <2>1. /\ id \notin DOMAIN elections[t]
        /\ DOMAIN elections'[t] = DOMAIN elections[t] \cup {id}
        /\ elections'[t][id].voteCount = 1
        /\ \A k \in DOMAIN elections[t] : elections'[t][k] = elections[t][k]
        /\ \A u \in Server \ {t} : elections'[u] = elections[u]
        /\ \A m \in voteRequests' \ voteRequests : m.from = t /\ m.election = id
        /\ UNCHANGED <<voteReplies, grants>>
    BY <1>4, SendRequestVotesEffect, SMTT(30)
  <2> HIDE DEF id
  <2>2. CASE s = t /\ n = id
    <3>1. Counted(s, n)' \in SUBSET Server
      BY DEF Counted
    <3>2. Cardinality(Counted(s, n)') \in Nat
      BY <3>1, ServerAssumption, FS_Subset, FS_CardinalityType
    <3> QED
      BY <2>1, <2>2, <3>2, SMTT(30)
  <2>3. CASE ~(s = t /\ n = id)
    <3>1. n \in DOMAIN elections[s] /\ elections'[s][n] = elections[s][n]
      BY <2>1, <2>3, SMTT(30)
    <3>2. Counted(s, n) \subseteq Counted(s, n)'
      BY <2>1, <2>3, <3>1 DEF Counted, Vote
    <3> QED
      BY <1>1, <3>1, <3>2
  <2> QED
    BY <2>2, <2>3
<1>5. ASSUME NEW m \in voteRequests, ReceiveRequestVote(m)
      PROVE  elections'[s][n].voteCount <= 1 + Cardinality(Counted(s, n)')
  <2>1. /\ voteRequests' = voteRequests \ {m} /\ elections' = elections
        /\ grants \subseteq grants'
    BY <1>5, ReceiveRequestVoteEffect
  <2>2. \A k \in voteReplies' \ voteReplies :
            k.from = m.from /\ k.to = m.to /\ k.election = m.election
    BY <1>5, ReceiveRequestVoteEffect, SMTT(30)
  <2>3. Counted(s, n) \subseteq Counted(s, n)'
    BY <2>1, <2>2 DEF Counted, Vote
  <2> QED
    BY <1>1, <2>1, <2>3
<1>6. ASSUME NEW m \in voteReplies, ReceiveVoteReply(m)
      PROVE  elections'[s][n].voteCount <= 1 + Cardinality(Counted(s, n)')
  <2>1. /\ m.from \in Server /\ m.to \in Server
        /\ m.election \in DOMAIN elections[m.from]
        /\ voteReplies' = voteReplies \ {m}
        /\ UNCHANGED <<voteRequests, grants>>
        /\ n \in DOMAIN elections[s]
        /\ elections'[s][n].Term = elections[s][n].Term
        /\ elections'[s][n].voteCount =
             IF CountsVote(rf[m.from], m.reply) /\ s = m.from /\ n = m.election
             THEN elections[s][n].voteCount + 1 ELSE elections[s][n].voteCount
    BY <1>6, ReceiveVoteReplyEffect, SMTT(30)
  <2>2. Counted(s, n) \subseteq Counted(s, n)'
    BY <2>1 DEF Counted, Vote
  <2>3. CASE CountsVote(rf[m.from], m.reply) /\ s = m.from /\ n = m.election
    <3>1. m.to # s /\ Vote(m.to, elections[s][n].Term, s) \in grants
      BY <2>3 DEF CallInv, CountsVote
    <3>2. \A k \in voteRequests' \cup voteReplies' :
            ~(k.from = s /\ k.to = m.to /\ k.election = n)
      BY <2>1, <2>3 DEF CallInv, SameCall
    <3>3. m.to \in Counted(s, n)'
      BY <2>1, <3>1, <3>2 DEF Counted, Vote
    <3>4. m.to \notin Counted(s, n)
      BY <2>3 DEF Counted
    <3>5. Counted(s, n) \in SUBSET Server /\ Counted(s, n)' \in SUBSET Server
      BY DEF Counted
    <3>6. IsFiniteSet(Counted(s, n)) /\ IsFiniteSet(Counted(s, n)')
      BY <3>5, ServerAssumption, FS_Subset
    <3>7. Counted(s, n) \cup {m.to} \in SUBSET Counted(s, n)'
      BY <2>2, <3>3
    <3>8. /\ Cardinality(Counted(s, n)) \in Nat /\ Cardinality(Counted(s, n)') \in Nat
          /\ Cardinality(Counted(s, n)) + 1 <= Cardinality(Counted(s, n)')
      <4> HIDE DEF Counted
      <4>1. Cardinality(Counted(s, n) \cup {m.to}) = Cardinality(Counted(s, n)) + 1
        BY <3>4, <3>6, FS_AddElement
      <4>2. Cardinality(Counted(s, n) \cup {m.to}) <= Cardinality(Counted(s, n)')
        BY <3>6, <3>7, FS_Subset
      <4> QED
        BY <3>6, <4>1, <4>2, FS_CardinalityType
    <3>9. elections[s][n].voteCount \in Nat
      BY <1>0, <2>1
    <3>10. elections[s][n].voteCount <= 1 + Cardinality(Counted(s, n))
      BY <2>1 DEF CountInv
    <3> QED
      BY <2>1, <2>3, <3>8, <3>9, <3>10, SMTT(30)
  <2>4. CASE ~(CountsVote(rf[m.from], m.reply) /\ s = m.from /\ n = m.election)
    BY <1>1, <2>1, <2>2, <2>4
  <2> QED
    BY <2>3, <2>4
<1> QED
  BY <1>2, <1>3, <1>4, <1>5, <1>6, StepKinds, UnlockedResetEffect DEF QuietStep

-----------------------------------------------------------------------------
(* Votes *)

(* Peers keep their term and vote, or move to a newer term. *)
Calm == \A s \in Server :
            /\ rf'[s].currentTerm \in Nat /\ rf'[s].currentTerm >= rf[s].currentTerm
            /\ \/ rf'[s].currentTerm > rf[s].currentTerm
               \/ rf'[s].votedFor = rf[s].votedFor

(* The terms and votes the invariants compare have their types. *)
LEMMA VoteTypes ==
    ASSUME Typed
    PROVE  /\ \A s \in Server : rf[s].currentTerm \in Nat
           /\ \A g \in grants : g.voter \in Server /\ g.term \in Nat /\ g.candidate \in Server
           /\ \A g \in grants : g = Vote(g.voter, g.term, g.candidate)
           /\ \A s \in Server : DOMAIN elections[s] \subseteq Nat
           /\ \A s \in Server : \A n \in DOMAIN elections[s] : elections[s][n].Term \in Nat
           /\ \A m \in voteRequests : /\ m.from \in Server /\ m.to \in Server
                                      /\ m.election \in DOMAIN elections[m.from]
                                      /\ m.args.Term \in Nat
<1>1. /\ \A s \in Server : rf[s].currentTerm \in Nat
      /\ \A g \in grants : g.voter \in Server /\ g.term \in Nat /\ g.candidate \in Server
      /\ \A g \in grants : g = Vote(g.voter, g.term, g.candidate)
  <2>1. \A s \in Server : rf[s].currentTerm \in Nat
    BY DEF Typed, TypeOK, Peer
  <2>2. grants \subseteq [voter : Server, term : Nat, candidate : Server]
    BY DEF Typed, TypeOK
  <2> QED
    BY <2>1, <2>2, SMTT(30) DEF Vote
<1>2. ASSUME NEW s \in Server
      PROVE  /\ DOMAIN elections[s] \subseteq Nat
             /\ \A n \in DOMAIN elections[s] : elections[s][n].Term \in Nat
  <2>1. elections[s] \in Seq([Term : Nat, voteCount : Nat])
    BY DEF Typed, TypeOK
  <2>2. \A n \in DOMAIN elections[s] : elections[s][n] \in [Term : Nat, voteCount : Nat]
    BY <2>1, ElementOfSeq, LenProperties
  <2>3. DOMAIN elections[s] = 1..Len(elections[s]) /\ Len(elections[s]) \in Nat
    BY <2>1, LenProperties
  <2> QED
    BY <2>2, <2>3, SMTT(30)
<1>3. \A m \in voteRequests : /\ m.from \in Server /\ m.to \in Server
                              /\ m.election \in DOMAIN elections[m.from]
                              /\ m.args.Term \in Nat
  BY DEF Typed, TypeOK, VoteRequest, RequestVoteArgs
<1> QED
  BY <1>1, <1>2, <1>3

(* A calm step that casts no vote and sends no request keeps VoteInv. *)
LEMMA CalmVoteStep ==
    ASSUME Typed, VoteInv, Calm,
           \A s \in Server : DOMAIN elections'[s] = DOMAIN elections[s],
           \A s \in Server : \A n \in DOMAIN elections[s] :
                elections'[s][n].Term = elections[s][n].Term,
           \A s \in Server : ticker'[s] = "candidate" => ticker[s] = "candidate",
           voteRequests' \subseteq voteRequests, grants' = grants
    PROVE  VoteInv'
<1>1. \A g \in grants : g.term <= rf'[g.voter].currentTerm
  BY VoteTypes, SMTT(30) DEF VoteInv, Calm
<1>2. \A g \in grants :
        g.term = rf'[g.voter].currentTerm => rf'[g.voter].votedFor = g.candidate
  <2> SUFFICES ASSUME NEW g \in grants, g.term = rf'[g.voter].currentTerm
               PROVE  rf'[g.voter].votedFor = g.candidate
    OBVIOUS
  <2>1. g.voter \in Server /\ rf[g.voter].currentTerm \in Nat
    BY VoteTypes
  <2>2. rf'[g.voter].currentTerm = rf[g.voter].currentTerm
    <3>1. g.term <= rf[g.voter].currentTerm
      BY DEF VoteInv
    <3>2. rf'[g.voter].currentTerm \in Nat /\ rf'[g.voter].currentTerm >= rf[g.voter].currentTerm
      BY <2>1 DEF Calm
    <3> QED
      BY <2>1, <3>1, <3>2, SMTT(30)
  <2>3. rf[g.voter].votedFor = g.candidate
    BY <2>2 DEF VoteInv
  <2> QED
    BY <2>1, <2>2, <2>3, SMTT(30) DEF Calm
<1>3. \A s \in Server : \A n \in DOMAIN elections[s] :
        /\ elections'[s][n].Term <= rf'[s].currentTerm
        /\ ticker'[s] = "candidate" => elections'[s][n].Term < rf'[s].currentTerm
  BY VoteTypes, SMTT(30) DEF VoteInv, Calm
<1>4. \A g \in grants : g.voter # g.candidate =>
        \E n \in DOMAIN elections'[g.candidate] : elections'[g.candidate][n].Term = g.term
  BY VoteTypes DEF VoteInv
<1>5. \A m \in voteRequests' : Vote(m.to, m.args.Term, m.from) \notin grants'
  BY DEF VoteInv
<1>6. \A s \in Server : \A n, k \in DOMAIN elections'[s] :
        n < k => elections'[s][n].Term < elections'[s][k].Term
  BY DEF VoteInv
<1>7. \A g, h \in grants' :
        (g.voter = h.voter /\ g.term = h.term) => g.candidate = h.candidate
  BY DEF VoteInv
<1> QED
  BY <1>1, <1>2, <1>3, <1>4, <1>5, <1>6, <1>7 DEF VoteInv, Vote

(* A quiet step is calm. *)
LEMMA QuietIsCalm ==
    ASSUME NEW p \in Unsnapped, NEW q, Quiet(p, q)
    PROVE  /\ q.currentTerm \in Nat /\ q.currentTerm >= p.currentTerm
           /\ q.currentTerm > p.currentTerm \/ q.votedFor = p.votedFor
BY SMTT(30) DEF Quiet, Unsnapped, Peer

(* Becoming a candidate keeps VoteInv: the new term is beyond every vote. *)
LEMMA StartElectionVotes ==
    ASSUME Typed, CallInv, VoteInv, NEW s \in Server, StartElection(s)
    PROVE  VoteInv'
<1> DEFINE g0 == Vote(s, rf[s].currentTerm + 1, s)
<1>1. /\ grants' = grants \cup {g0}
      /\ ticker' = [ticker EXCEPT ![s] = "candidate"]
      /\ UNCHANGED <<elections, voteRequests>>
  BY DEF StartElection, Vote
<1>2. /\ rf'[s].currentTerm = rf[s].currentTerm + 1 /\ rf'[s].votedFor = s
      /\ \A t \in Server \ {s} : rf'[t] = rf[t]
  <2> DEFINE q == BecomeCandidate(rf[s], s)
  <2>1. q \in Unsnapped /\ q.currentTerm = rf[s].currentTerm + 1 /\ q.votedFor = s
    BY BecomeCandidateType DEF Typed
  <2>2. rf' = [rf EXCEPT ![s] = q]
    BY DEF StartElection
  <2> HIDE DEF q
  <2> QED
    BY <2>1, <2>2, PeerChanges
<1>3. g0.voter = s /\ g0.term = rf[s].currentTerm + 1 /\ g0.candidate = s
  BY DEF Vote
<1> HIDE DEF g0
<1>4. \A g \in grants : g.voter = s => g.term < g0.term
  BY <1>3, VoteTypes, SMTT(30) DEF VoteInv
<1>5. \A g, h \in grants' :
        (g.voter = h.voter /\ g.term = h.term) => g.candidate = h.candidate
  BY <1>1, <1>3, <1>4, VoteTypes, SMTT(30) DEF VoteInv
<1>6. \A g \in grants' :
        /\ g.term <= rf'[g.voter].currentTerm
        /\ g.term = rf'[g.voter].currentTerm => rf'[g.voter].votedFor = g.candidate
  BY <1>1, <1>2, <1>3, <1>4, VoteTypes, SMTT(30) DEF VoteInv
<1>7. \A t \in Server : \A n \in DOMAIN elections[t] :
        /\ elections[t][n].Term <= rf'[t].currentTerm
        /\ ticker'[t] = "candidate" => elections[t][n].Term < rf'[t].currentTerm
  <2>1. \A n \in DOMAIN elections[s] : elections[s][n].Term < rf'[s].currentTerm
    BY <1>2, VoteTypes, SMTT(30) DEF VoteInv
  <2>2. \A n \in DOMAIN elections[s] : elections[s][n].Term <= rf'[s].currentTerm
    BY <1>2, VoteTypes, SMTT(30) DEF VoteInv
  <2>3. \A t \in Server \ {s} : ticker'[t] = ticker[t]
    BY <1>1 DEF Typed, TypeOK
  <2> QED
    BY <1>2, <2>1, <2>2, <2>3 DEF VoteInv
<1>8. \A m \in voteRequests : Vote(m.to, m.args.Term, m.from) \notin grants'
  <2> SUFFICES ASSUME NEW m \in voteRequests, Vote(m.to, m.args.Term, m.from) = g0
               PROVE  FALSE
    BY <1>1 DEF VoteInv
  <2>1. m.to = s /\ m.from = s
    BY <1>3 DEF Vote
  <2> QED
    BY <2>1 DEF CallInv
<1>9. \A g \in grants' : g.voter # g.candidate =>
        \E n \in DOMAIN elections[g.candidate] : elections[g.candidate][n].Term = g.term
  BY <1>1, <1>3 DEF VoteInv
<1>10. \A t \in Server : \A n, k \in DOMAIN elections[t] :
        n < k => elections[t][n].Term < elections[t][k].Term
  BY DEF VoteInv
<1> QED
  BY <1>1, <1>5, <1>6, <1>7, <1>8, <1>9, <1>10 DEF VoteInv, Vote

(* A candidate that asks for votes has not asked in this term before. *)
LEMMA SendRequestVotesVotes ==
    ASSUME Typed, VoteInv, NEW s \in Server, SendRequestVotes(s)
    PROVE  VoteInv'
<1> DEFINE id == Len(elections[s]) + 1
           new == voteRequests' \ voteRequests
<1>1. /\ id \in Nat /\ id \notin DOMAIN elections[s]
      /\ DOMAIN elections'[s] = DOMAIN elections[s] \cup {id}
      /\ elections'[s][id].Term = rf[s].currentTerm
      /\ \A n \in DOMAIN elections[s] : n < id /\ elections'[s][n] = elections[s][n]
      /\ \A t \in Server \ {s} : elections'[t] = elections[t]
      /\ ticker[s] = "candidate" /\ ticker' = [ticker EXCEPT ![s] = "idle"]
      /\ UNCHANGED <<rf, grants>>
  BY SendRequestVotesEffect
<1>2. \A m \in new : /\ m.from = s /\ m.to \in Server \ {s}
                     /\ m.args.Term = rf[s].currentTerm
  BY SendRequestVotesEffect
<1>3. voteRequests' \subseteq voteRequests \cup new
  OBVIOUS
<1> HIDE DEF id, new
<1>4. \A n \in DOMAIN elections[s] : elections[s][n].Term < rf[s].currentTerm
  BY <1>1 DEF VoteInv
<1>5. \A t \in Server : \A n \in DOMAIN elections'[t] :
        /\ elections'[t][n].Term <= rf'[t].currentTerm
        /\ ticker'[t] = "candidate" => elections'[t][n].Term < rf'[t].currentTerm
  <2>1. ASSUME NEW n \in DOMAIN elections'[s]
        PROVE  elections'[s][n].Term <= rf'[s].currentTerm /\ ticker'[s] # "candidate"
    BY <1>1, <1>4, VoteTypes, SMTT(60) DEF Typed, TypeOK
  <2>2. ASSUME NEW t \in Server \ {s}, NEW n \in DOMAIN elections'[t]
        PROVE  /\ elections'[t][n].Term <= rf'[t].currentTerm
               /\ ticker'[t] = "candidate" => elections'[t][n].Term < rf'[t].currentTerm
    BY <1>1 DEF VoteInv, Typed, TypeOK
  <2> QED
    BY <2>1, <2>2
<1>6. \A t \in Server : \A n, k \in DOMAIN elections'[t] :
        n < k => elections'[t][n].Term < elections'[t][k].Term
  <2>1. ASSUME NEW n \in DOMAIN elections'[s], NEW k \in DOMAIN elections'[s], n < k
        PROVE  elections'[s][n].Term < elections'[s][k].Term
    <3>1. n \in DOMAIN elections[s]
      BY <1>1, <2>1, VoteTypes, SMTT(30)
    <3>2. CASE k = id
      BY <1>1, <1>4, <3>1, <3>2
    <3>3. CASE k \in DOMAIN elections[s]
      BY <1>1, <2>1, <3>1, <3>3 DEF VoteInv
    <3> QED
      BY <1>1, <3>2, <3>3
  <2> QED
    BY <1>1, <2>1 DEF VoteInv
<1>7. \A g \in grants : g.voter # g.candidate =>
        \E n \in DOMAIN elections'[g.candidate] : elections'[g.candidate][n].Term = g.term
  BY <1>1, VoteTypes, SMTT(30) DEF VoteInv
<1>8. \A m \in voteRequests' : Vote(m.to, m.args.Term, m.from) \notin grants
  <2>1. ASSUME NEW m \in new PROVE Vote(m.to, m.args.Term, m.from) \notin grants
    <3> DEFINE g == Vote(m.to, m.args.Term, m.from)
    <3>1. g.voter # g.candidate /\ g.candidate = s /\ g.term = rf[s].currentTerm
      BY <1>2 DEF Vote
    <3> QED
      BY <1>4, <3>1, VoteTypes, SMTT(30) DEF VoteInv
  <2> QED
    BY <1>3, <2>1 DEF VoteInv
<1>9. /\ \A g, h \in grants :
        (g.voter = h.voter /\ g.term = h.term) => g.candidate = h.candidate
      /\ \A g \in grants :
        /\ g.term <= rf[g.voter].currentTerm
        /\ g.term = rf[g.voter].currentTerm => rf[g.voter].votedFor = g.candidate
  BY DEF VoteInv
<1> QED
  BY <1>1, <1>5, <1>6, <1>7, <1>8, <1>9 DEF VoteInv, Vote

(* The RequestVote handler keeps VoteInv: it votes only if votedFor allows  *)
(* it, and it clears votedFor only if the vote was not cast.               *)
LEMMA ReceiveRequestVoteVotes ==
    ASSUME Typed, CallInv, VoteInv, NEW m \in voteRequests, ReceiveRequestVote(m)
    PROVE  VoteInv'
<1> DEFINE v == m.to
           p == rf[v]
           q == rf'[v]
           g0 == Vote(v, m.args.Term, m.from)
           granted == GrantsVote(p, m.args)
<1>1. /\ v \in Server /\ m.from \in Server /\ m.args \in RequestVoteArgs
      /\ voteRequests' = voteRequests \ {m}
      /\ grants' = IF granted THEN grants \cup {g0} ELSE grants
      /\ UNCHANGED <<ticker, elections>>
      /\ q = RequestVote(p, m.args)
      /\ \A t \in Server \ {v} : rf'[t] = rf[t]
  BY ReceiveRequestVoteEffect
<1>2. /\ m.args.CandidateId = m.from /\ m.to # m.from
      /\ m.args.Term = elections[m.from][m.election].Term
  BY DEF CallInv
<1>3. /\ q.currentTerm \in Nat /\ q.currentTerm >= p.currentTerm
      /\ q.currentTerm = p.currentTerm =>
            \/ ~granted /\ q.votedFor = p.votedFor
            \/ /\ m.args.Term = p.currentTerm /\ p.votedFor \in {-1, m.from}
               /\ granted => q.votedFor = m.from
      /\ granted => q.currentTerm = m.args.Term /\ q.votedFor = m.from
  <2>1. p \in Unsnapped /\ p.currentTerm \in Nat
    BY <1>1, VoteTypes DEF Typed
  <2> HIDE DEF p, q
  <2>2. q \in Unsnapped
    BY <1>1, <2>1, RequestVoteType
  <2>3. \A r \in Unsnapped : r.currentTerm \in Nat
    BY DEF Unsnapped, Peer
  <2>4. q.currentTerm \in Nat
    BY <2>2, <2>3
  <2> QED
    BY <1>1, <1>2, <2>1, <2>4, RequestVoteType, SMTT(30)
<1>4. g0.voter = v /\ g0.term = m.args.Term /\ g0.candidate = m.from
  BY DEF Vote
<1>5. g0 \notin grants
  BY DEF VoteInv
<1> HIDE DEF v, p, q, g0, granted
<1>6. \A g \in grants : g.voter = v => g.term <= p.currentTerm
  BY DEF VoteInv, p
<1>7. \A g \in grants : g.voter = v /\ g.term = q.currentTerm =>
            /\ ~granted
            /\ q.votedFor = g.candidate
  <2> SUFFICES ASSUME NEW g \in grants, g.voter = v, g.term = q.currentTerm
               PROVE  ~granted /\ q.votedFor = g.candidate
    OBVIOUS
  <2>1. q.currentTerm = p.currentTerm
    BY <1>1, <1>3, <1>6, VoteTypes, SMTT(30) DEF p
  <2>2. p.votedFor = g.candidate
    BY <2>1 DEF VoteInv, p
  <2>3. ~(m.args.Term = p.currentTerm /\ p.votedFor \in {-1, m.from})
    <3> SUFFICES ASSUME m.args.Term = p.currentTerm, p.votedFor \in {-1, m.from} PROVE FALSE
      OBVIOUS
    <3>1. g.candidate = m.from
      BY <2>2, VoteTypes, ServerAssumption
    <3>2. g = g0
      BY <2>1, <3>1, VoteTypes DEF g0
    <3> QED
      BY <1>5, <3>2
  <2> QED
    BY <1>3, <2>1, <2>2, <2>3
<1>8. \A g, h \in grants' :
        (g.voter = h.voter /\ g.term = h.term) => g.candidate = h.candidate
  <2>1. granted => \A g \in grants : ~(g.voter = g0.voter /\ g.term = g0.term)
    BY <1>3, <1>4, <1>7
  <2> QED
    BY <1>1, <2>1 DEF VoteInv
<1>9. \A g \in grants' :
        /\ g.term <= rf'[g.voter].currentTerm
        /\ g.term = rf'[g.voter].currentTerm => rf'[g.voter].votedFor = g.candidate
  <2>1. ASSUME NEW g \in grants, g.voter = v
        PROVE  /\ g.term <= q.currentTerm
               /\ g.term = q.currentTerm => q.votedFor = g.candidate
    BY <1>1, <1>3, <1>6, <1>7, <2>1, VoteTypes, SMTT(30) DEF p
  <2>2. ASSUME NEW g \in grants, g.voter # v
        PROVE  /\ g.term <= rf'[g.voter].currentTerm
               /\ g.term = rf'[g.voter].currentTerm => rf'[g.voter].votedFor = g.candidate
    BY <1>1, <2>2, VoteTypes DEF VoteInv
  <2>3. granted => /\ g0.term <= q.currentTerm
                   /\ g0.term = q.currentTerm => q.votedFor = g0.candidate
    BY <1>3, <1>4, SMTT(30)
  <2> QED
    BY <1>1, <1>4, <2>1, <2>2, <2>3 DEF q
<1>10. \A t \in Server : \A n \in DOMAIN elections[t] :
        /\ elections[t][n].Term <= rf'[t].currentTerm
        /\ ticker[t] = "candidate" => elections[t][n].Term < rf'[t].currentTerm
  <2>1. \A t \in Server : rf'[t].currentTerm \in Nat /\ rf'[t].currentTerm >= rf[t].currentTerm
    BY <1>1, <1>3, VoteTypes, SMTT(30) DEF p, q
  <2> QED
    BY <2>1, VoteTypes, SMTT(30) DEF VoteInv
<1>11. \A g \in grants' : g.voter # g.candidate =>
        \E n \in DOMAIN elections[g.candidate] : elections[g.candidate][n].Term = g.term
  BY <1>1, <1>2, <1>4, VoteTypes, SMTT(30) DEF VoteInv
<1>12. \A k \in voteRequests' : Vote(k.to, k.args.Term, k.from) \notin grants'
  <2> SUFFICES ASSUME NEW k \in voteRequests, k # m, Vote(k.to, k.args.Term, k.from) = g0
               PROVE  FALSE
    BY <1>1 DEF VoteInv
  <2>1. k.to = m.to /\ k.from = m.from /\ k.args.Term = m.args.Term
    BY <1>4 DEF Vote, v
  <2>2. k.args.Term = elections[k.from][k.election].Term
    BY DEF CallInv
  <2>3. elections[m.from][k.election].Term = elections[m.from][m.election].Term
    BY <1>2, <2>1, <2>2
  <2>4. /\ k.election \in DOMAIN elections[m.from] /\ m.election \in DOMAIN elections[m.from]
        /\ k.election \in Nat /\ m.election \in Nat
        /\ elections[m.from][k.election].Term \in Nat
    BY <2>1, VoteTypes
  <2>5. k.election = m.election
    BY <1>1, <2>3, <2>4, SMTT(30) DEF VoteInv
  <2> QED
    BY <2>1, <2>5 DEF CallInv, SameCall
<1>13. \A t \in Server : \A n, k \in DOMAIN elections[t] :
        n < k => elections[t][n].Term < elections[t][k].Term
  BY DEF VoteInv
<1> QED
  BY <1>1, <1>8, <1>9, <1>10, <1>11, <1>12, <1>13 DEF VoteInv

(* Unlocked resets show in windows. *)
LEMMA NoUnlockedReset ==
    ASSUME Typed, UnlockedInv, [Next]_vars, "unlockedStepDown" \notin windows'
    PROVE  ~ \E c \in snapCalls : SnapshotSetsTerm(c) \/ SnapshotSetsVote(c)
<1>1. "unlockedStepDown" \notin windows
  BY WindowsGrow
<1> QED
  BY <1>1 DEF SnapshotSetsTerm, SnapshotSetsVote, Through, UnlockedInv

(* Each step outside the unlocked step-down keeps the votes of a term. *)
LEMMA VoteStep ==
    ASSUME Typed, UnlockedInv, CallInv, VoteInv, [Next]_vars,
           "unlockedStepDown" \notin windows'
    PROVE  VoteInv'
<1>0. \A s \in Server : rf[s] \in Unsnapped
  BY DEF Typed
<1>1. CASE QuietStep
  <2>1. Calm
    BY <1>0, <1>1, QuietIsCalm DEF QuietStep, Calm
  <2> QED
    BY <1>1, <2>1, CalmVoteStep DEF QuietStep
<1>2. ASSUME NEW m \in voteReplies, ReceiveVoteReply(m) PROVE VoteInv'
  <2> DEFINE s == m.from
             count == elections[s][m.election].voteCount
  <2>1. /\ s \in Server /\ m.reply \in RequestVoteReplies /\ count \in Nat
        /\ rf'[s] = HandleVoteReply(rf[s], m.reply, count)
        /\ \A t \in Server \ {s} : rf'[t] = rf[t]
        /\ \A t \in Server : DOMAIN elections'[t] = DOMAIN elections[t]
        /\ \A t \in Server : \A n \in DOMAIN elections[t] :
                elections'[t][n].Term = elections[t][n].Term
        /\ UNCHANGED <<ticker, voteRequests, grants>>
    BY <1>2, ReceiveVoteReplyEffect
  <2> HIDE DEF s, count
  <2>2. /\ rf'[s].currentTerm \in Nat /\ rf'[s].currentTerm >= rf[s].currentTerm
        /\ rf'[s].currentTerm > rf[s].currentTerm \/ rf'[s].votedFor = rf[s].votedFor
    <3>1. \/ Quiet(rf[s], rf'[s])
          \/ rf'[s].currentTerm = rf[s].currentTerm /\ rf'[s].votedFor = rf[s].votedFor
      BY <1>0, <2>1, HandleVoteReplyType
    <3> QED
      BY <1>0, <2>1, <3>1, QuietIsCalm, VoteTypes, SMTT(30)
  <2>3. Calm
    BY <2>1, <2>2, VoteTypes, SMTT(30) DEF Calm
  <2> QED
    BY <2>1, <2>3, CalmVoteStep
<1> QED
  BY <1>1, <1>2, StepKinds, NoUnlockedReset, StartElectionVotes, SendRequestVotesVotes,
     ReceiveRequestVoteVotes

-----------------------------------------------------------------------------
(* Leaders *)

(* A majority stays one when votes are added. *)
LEMMA MajorityGrows ==
    ASSUME NEW A \in SUBSET Server, NEW B \in SUBSET Server, A \subseteq B,
           Majority(Cardinality(A))
    PROVE  Majority(Cardinality(B))
<1>1. IsFiniteSet(A) /\ IsFiniteSet(B)
  BY ServerAssumption, FS_Subset
<1>2. Cardinality(A) <= Cardinality(B)
  BY <1>1, FS_Subset
<1>3. Cardinality(A) \in Nat /\ Cardinality(B) \in Nat /\ Cardinality(Server) \in Nat
  BY <1>1, ServerAssumption, FS_CardinalityType
<1> QED
  BY <1>2, <1>3, SMTT(30) DEF Majority

(* The two facts LeaderInv states of one peer. *)
Backed(s) ==
    /\ rf[s].role = "Candidate" => Vote(s, rf[s].currentTerm, s) \in grants
    /\ rf[s].role = "Leader" => Majority(Cardinality(Voters(s, rf[s].currentTerm)))

(* A peer that keeps its role and term, or follows, stays backed. *)
LEMMA BackedKept ==
    ASSUME NEW s \in Server, Backed(s), grants \subseteq grants',
           \/ rf'[s].role = rf[s].role /\ rf'[s].currentTerm = rf[s].currentTerm
           \/ rf'[s].role = "Follower"
    PROVE  Backed(s)'
<1>1. CASE rf'[s].role = rf[s].role /\ rf'[s].currentTerm = rf[s].currentTerm
  <2> DEFINE A == Voters(s, rf[s].currentTerm)
             B == Voters(s, rf[s].currentTerm)'
  <2>1. A \in SUBSET Server /\ B \in SUBSET Server /\ A \subseteq B
    BY <1>1 DEF Voters, Vote
  <2>2. rf[s].role = "Candidate" => Vote(s, rf[s].currentTerm, s) \in grants'
    BY DEF Backed
  <2>3. rf[s].role = "Leader" => Majority(Cardinality(A))
    BY DEF Backed
  <2> HIDE DEF A, B
  <2>4. rf[s].role = "Leader" => Majority(Cardinality(B))
    BY <2>1, <2>3, MajorityGrows
  <2> QED
    BY <1>1, <2>2, <2>4 DEF Backed, Vote, Majority, B
<1>2. CASE rf'[s].role = "Follower"
  BY <1>2 DEF Backed
<1> QED
  BY <1>1, <1>2

(* A vote that wins an election of the current term makes a Leader that a  *)
(* majority voted for.                                                     *)
LEMMA WinnerBacked ==
    ASSUME Typed, CountInv', NEW s \in Server, NEW n \in DOMAIN elections'[s],
           Vote(s, rf'[s].currentTerm, s) \in grants',
           elections'[s][n].Term = rf'[s].currentTerm,
           elections'[s][n].voteCount \in Nat,
           Majority(elections'[s][n].voteCount)
    PROVE  Majority(Cardinality(Voters(s, rf[s].currentTerm)'))
<1> DEFINE A == Counted(s, n)'
           B == Voters(s, rf[s].currentTerm)'
           count == elections'[s][n].voteCount
<1>1. A \in SUBSET Server /\ B \in SUBSET Server /\ A \cup {s} \in SUBSET B /\ s \notin A
  BY DEF Counted, Voters, Vote
<1>2. count <= 1 + Cardinality(A)
  BY DEF CountInv
<1> HIDE DEF A, B, count
<1>3. IsFiniteSet(A) /\ IsFiniteSet(B)
  BY <1>1, ServerAssumption, FS_Subset
<1>4. Cardinality(A \cup {s}) = Cardinality(A) + 1
  BY <1>1, <1>3, FS_AddElement
<1>5. Cardinality(A \cup {s}) <= Cardinality(B)
  BY <1>1, <1>3, FS_Subset
<1>6. Cardinality(A) \in Nat /\ Cardinality(B) \in Nat /\ Cardinality(Server) \in Nat
  BY <1>3, ServerAssumption, FS_CardinalityType
<1>7. Majority(Cardinality(B))
  BY <1>2, <1>4, <1>5, <1>6, SMTT(30) DEF Majority, count
<1> QED
  BY <1>7 DEF B

(* An answer makes a peer the Leader of the term of its election, or leaves *)
(* it as it is.                                                            *)
LEMMA VoteReplyBacked ==
    ASSUME Typed, CountInv', NEW m \in voteReplies, ReceiveVoteReply(m),
           windows' \cap {"staleElection", "unlockedStepDown"} = {},
           NEW t \in Server, Backed(t)
    PROVE  Backed(t)'
<1>1. PICK s : s = m.from
  OBVIOUS
<1>2. PICK n : n = m.election
  OBVIOUS
<1>3. PICK count : count = elections[s][n].voteCount
  OBVIOUS
<1>4. PICK reply : reply = m.reply
  OBVIOUS
<1>5. /\ s \in Server /\ reply \in RequestVoteReplies /\ count \in Nat
      /\ n \in DOMAIN elections[s]
      /\ rf'[s] = HandleVoteReply(rf[s], reply, count)
      /\ \A u \in Server \ {s} : rf'[u] = rf[u]
      /\ DOMAIN elections'[s] = DOMAIN elections[s]
      /\ elections'[s][n].Term = elections[s][n].Term
      /\ CountsVote(rf[s], reply) => elections'[s][n].voteCount = count + 1
      /\ grants' = grants
  BY <1>1, <1>2, <1>3, <1>4, ReceiveVoteReplyEffect, SMTT(30)
<1>6. CountsVote(rf[s], reply) /\ Majority(count + 1) =>
        elections[s][n].Term = rf[s].currentTerm
  BY <1>1, <1>2, <1>3, <1>4 DEF ReceiveVoteReply, Through
<1>7. rf[s] \in Unsnapped
  BY <1>5 DEF Typed
<1>8. CASE t # s
  BY <1>5, <1>8, BackedKept
<1>9. CASE t = s /\ ~(CountsVote(rf[s], reply) /\ Majority(count + 1))
  <2>1. Quiet(rf[s], rf'[s])
    BY <1>5, <1>7, <1>9, HandleVoteReplyType
  <2>2. \/ rf'[s].role = rf[s].role /\ rf'[s].currentTerm = rf[s].currentTerm
        \/ rf'[s].role = "Follower"
    BY <2>1 DEF Quiet
  <2> QED
    BY <1>5, <1>9, <2>2, BackedKept
<1>10. CASE t = s /\ CountsVote(rf[s], reply) /\ Majority(count + 1)
  <2>1. /\ rf[s].role = "Candidate" /\ rf'[s].role = "Leader"
        /\ rf'[s].currentTerm = rf[s].currentTerm
    <3>1. PICK p \in Unsnapped : p = rf[s]
      BY <1>7
    <3>2. PICK q : q = HandleVoteReply(p, reply, count)
      OBVIOUS
    <3>3. CountsVote(p, reply) /\ Majority(count + 1)
      BY <1>10, <3>1
    <3>4. p.role = "Candidate" /\ q.role = "Leader" /\ q.currentTerm = p.currentTerm
      BY <1>5, <3>2, <3>3, HandleVoteReplyType
    <3>5. rf'[s] = q
      BY <1>5, <3>1, <3>2
    <3> QED
      BY <3>1, <3>4, <3>5
  <2>2. Vote(s, rf'[s].currentTerm, s) \in grants'
    BY <1>5, <1>10, <2>1 DEF Backed
  <2>3. elections'[s][n].Term = rf'[s].currentTerm
    BY <1>5, <1>6, <1>10, <2>1
  <2>4. elections'[s][n].voteCount \in Nat /\ Majority(elections'[s][n].voteCount)
    <3>1. count + 1 \in Nat
      BY <1>5, SMTT(30)
    <3> QED
      BY <1>5, <1>10, <3>1
  <2>5. n \in DOMAIN elections'[s]
    BY <1>5
  <2>6. Majority(Cardinality(Voters(s, rf[s].currentTerm)'))
    BY <1>5, <2>2, <2>3, <2>4, <2>5, WinnerBacked
  <2> QED
    BY <1>10, <2>1, <2>6 DEF Backed
<1> QED
  BY <1>8, <1>9, <1>10

(* Each step outside the two windows keeps leaders and candidates backed. *)
LEMMA LeaderStep ==
    ASSUME Typed, UnlockedInv, CallInv, LeaderInv, CountInv', [Next]_vars,
           windows' \cap {"staleElection", "unlockedStepDown"} = {}
    PROVE  LeaderInv'
<1> SUFFICES ASSUME NEW t \in Server PROVE Backed(t)'
  BY DEF LeaderInv, Backed
<1>0. Backed(t) /\ \A s \in Server : rf[s] \in Unsnapped
  BY DEF LeaderInv, Backed, Typed
<1>1. CASE QuietStep
  BY <1>0, <1>1, BackedKept DEF QuietStep, Quiet
<1>2. ASSUME NEW s \in Server, StartElection(s) PROVE Backed(t)'
  <2> DEFINE q == BecomeCandidate(rf[s], s)
  <2>1. q \in Unsnapped /\ q.currentTerm = rf[s].currentTerm + 1 /\ q.role = "Candidate"
    BY <1>0, BecomeCandidateType
  <2>2. rf' = [rf EXCEPT ![s] = q] /\ grants \subseteq grants'
        /\ Vote(s, rf[s].currentTerm + 1, s) \in grants'
    BY <1>2 DEF StartElection, Vote
  <2> HIDE DEF q
  <2>3. rf'[s] = q /\ \A u \in Server \ {s} : rf'[u] = rf[u]
    BY <2>1, <2>2, PeerChanges
  <2>4. CASE t = s
    BY <2>1, <2>2, <2>3, <2>4 DEF Backed, Vote
  <2>5. CASE t # s
    BY <1>0, <2>2, <2>3, <2>5, BackedKept
  <2> QED
    BY <2>4, <2>5
<1>3. ASSUME NEW s \in Server, SendRequestVotes(s) PROVE Backed(t)'
  <2>1. rf' = rf /\ grants \subseteq grants'
    BY <1>3 DEF SendRequestVotes, histVars
  <2> QED
    BY <1>0, <2>1, BackedKept
<1>4. ASSUME NEW m \in voteRequests, ReceiveRequestVote(m) PROVE Backed(t)'
  <2>1. /\ m.to \in Server /\ m.args \in RequestVoteArgs /\ grants \subseteq grants'
        /\ rf'[m.to] = RequestVote(rf[m.to], m.args)
        /\ \A u \in Server \ {m.to} : rf'[u] = rf[u]
    BY <1>4, ReceiveRequestVoteEffect
  <2>2. \/ rf'[t].role = rf[t].role /\ rf'[t].currentTerm = rf[t].currentTerm
        \/ rf'[t].role = "Follower"
    BY <1>0, <2>1, RequestVoteType, SMTT(30)
  <2> QED
    BY <1>0, <2>1, <2>2, BackedKept
<1>5. ASSUME NEW m \in voteReplies, ReceiveVoteReply(m) PROVE Backed(t)'
  BY <1>0, <1>5, VoteReplyBacked
<1> QED
  BY <1>1, <1>2, <1>3, <1>4, <1>5, StepKinds, NoUnlockedReset

-----------------------------------------------------------------------------
(* The theorems *)

(* Fresh peers satisfy the invariant. *)
LEMMA InitElection == Init => ElectionInv
<1> SUFFICES ASSUME Init PROVE ElectionInv
  OBVIOUS
<1>1. UnlockedInv /\ CallInv /\ CountInv
  BY SMTT(30) DEF Init, UnlockedInv, CallInv, CountInv
<1>2. VoteInv
  BY SMTT(30) DEF Init, VoteInv
<1>3. LeaderInv
  BY DEF Init, LeaderInv, Make
<1> QED
  BY <1>1, <1>2, <1>3 DEF ElectionInv

(* Every step keeps it. *)
LEMMA NextElection == Typed /\ ElectionInv /\ [Next]_vars => ElectionInv'
<1> SUFFICES ASSUME Typed, ElectionInv, [Next]_vars PROVE ElectionInv'
  OBVIOUS
<1>1. UnlockedInv /\ CallInv /\ CountInv
  BY DEF ElectionInv
<1>2. UnlockedInv' /\ CallInv' /\ CountInv'
  BY <1>1, UnlockedStep, CallStep, CountStep
<1>3. windows \subseteq windows'
  BY WindowsGrow
<1>4. "unlockedStepDown" \notin windows' => VoteInv'
  BY <1>1, <1>3, VoteStep DEF ElectionInv
<1>5. windows' \cap {"staleElection", "unlockedStepDown"} = {} => LeaderInv'
  BY <1>1, <1>2, <1>3, LeaderStep DEF ElectionInv
<1> QED
  BY <1>2, <1>4, <1>5 DEF ElectionInv

(* So it holds throughout. *)
LEMMA ElectionInvariant == Spec => [](Typed /\ ElectionInv)
<1>1. Init => Typed /\ ElectionInv
  BY InitTyped, InitElection
<1>2. Typed /\ ElectionInv /\ [Next]_vars => Typed' /\ ElectionInv'
  BY NextTyped, NextElection
<1> QED
  BY <1>1, <1>2, PTL DEF Spec

(* RequestVote and startElection cast at most one vote per term and peer    *)
(* unless handleInstallSnapshot steps down without the lock: for every     *)
(* cluster, whatever requests and replies are lost, delayed or reordered.  *)
THEOREM VotesOnce == Spec => []VoteOnce
<1>1. ElectionInv => VoteOnce
  BY DEF ElectionInv, VoteInv, VoteOnce
<1> QED
  BY <1>1, ElectionInvariant, PTL

(* The counter the goroutines of one startElection share never exceeds the *)
(* votes cast for that election: no reply is counted twice or for another  *)
(* election, even when it arrives after the term has moved on.             *)
THEOREM VotesCounted == Spec => []VoteCountSound
<1>1. Typed /\ ElectionInv => VoteCountSound
  <2> SUFFICES ASSUME Typed, ElectionInv, NEW s \in Server, NEW n \in DOMAIN elections[s]
               PROVE  elections[s][n].voteCount <=
                        1 + Cardinality({v \in Server \ {s} :
                            [voter |-> v, term |-> elections[s][n].Term, candidate |-> s]
                                \in grants})
    BY DEF VoteCountSound
  <2> DEFINE A == Counted(s, n)
             B == {v \in Server \ {s} :
                    [voter |-> v, term |-> elections[s][n].Term, candidate |-> s] \in grants}
  <2>1. A \in SUBSET B /\ B \in SUBSET Server /\ A \in SUBSET Server
    BY DEF Counted, Vote
  <2>2. elections[s][n].voteCount <= 1 + Cardinality(A)
    BY DEF ElectionInv, CountInv
  <2> HIDE DEF A, B
  <2>3. IsFiniteSet(A) /\ IsFiniteSet(B)
    BY <2>1, ServerAssumption, FS_Subset
  <2>4. Cardinality(A) <= Cardinality(B) /\ Cardinality(A) \in Nat /\ Cardinality(B) \in Nat
    BY <2>1, <2>3, FS_Subset, FS_CardinalityType
  <2>5. elections[s][n].voteCount \in Nat
    <3>1. elections[s] \in Seq([Term : Nat, voteCount : Nat])
      BY DEF Typed, TypeOK
    <3>2. elections[s][n] \in [Term : Nat, voteCount : Nat]
      BY <3>1, ElementOfSeq, LenProperties
    <3> QED
      BY <3>2
  <2>6. elections[s][n].voteCount <= 1 + Cardinality(B)
    BY <2>2, <2>4, <2>5, SMTT(30)
  <2> QED
    BY <2>6 DEF B
<1> QED
  BY <1>1, ElectionInvariant, PTL

(* Two leaders of one term need a vote counted for an older term, or an     *)
(* unlocked step-down: in every other behaviour of every cluster a term    *)
(* has at most one leader.                                                 *)
THEOREM LeadersUnique == Spec => []ElectionSafetyButWindows
<1>1. Typed /\ ElectionInv => ElectionSafetyButWindows
  <2> SUFFICES ASSUME Typed, ElectionInv,
                      windows \cap {"staleElection", "unlockedStepDown"} = {},
                      NEW s \in Server, NEW t \in Server, Leader(s), Leader(t),
                      rf[s].currentTerm = rf[t].currentTerm
               PROVE  s = t
    BY DEF ElectionSafetyButWindows, ElectionSafety
  <2> DEFINE A == Voters(s, rf[s].currentTerm)
             B == Voters(t, rf[t].currentTerm)
  <2>1. Majority(Cardinality(A)) /\ Majority(Cardinality(B))
    BY DEF ElectionInv, LeaderInv, Leader
  <2>2. A \in SUBSET Server /\ B \in SUBSET Server
    BY DEF Voters
  <2> HIDE DEF A, B
  <2>3. IsFiniteSet(A) /\ IsFiniteSet(B)
    BY <2>2, ServerAssumption, FS_Subset
  <2>4. Cardinality(A) \in Nat /\ Cardinality(B) \in Nat /\ Cardinality(Server) \in Nat
    BY <2>3, ServerAssumption, FS_CardinalityType
  <2>5. Cardinality(A) + Cardinality(B) > Cardinality(Server)
    BY <2>1, <2>4, SMTT(30) DEF Majority
  <2>6. PICK v \in Server : v \in A /\ v \in B
    <3>1. A \cap B # {}
      BY <2>2, <2>5, ServerAssumption, FS_MajoritiesIntersect
    <3> QED
      BY <2>2, <3>1
  <2> DEFINE g == Vote(v, rf[s].currentTerm, s)
             h == Vote(v, rf[t].currentTerm, t)
  <2>7. g \in grants /\ h \in grants
    BY <2>6 DEF A, B, Voters
  <2>8. g.voter = h.voter /\ g.term = h.term /\ g.candidate = s /\ h.candidate = t
    BY DEF Vote
  <2>9. g.candidate = h.candidate
    <3> HIDE DEF g, h
    <3> QED
      BY <2>7, <2>8 DEF ElectionInv, VoteInv
  <2> QED
    BY <2>8, <2>9
<1> QED
  BY <1>1, ElectionInvariant, PTL

-----------------------------------------------------------------------------
(* The logs and what is committed *)

(* A cluster in which calls are made has no majority of one. *)
LEMMA NotAlone ==
    ASSUME NEW s \in Server, NEW t \in Server, s # t
    PROVE  ~Majority(1)
<1>1. IsFiniteSet(Server)
  BY ServerAssumption
<1>2. IsFiniteSet({s}) /\ Cardinality({s}) = 1
  BY FS_Singleton
<1>3. Cardinality({s} \cup {t}) = 2
  BY <1>2, FS_AddElement, SMTT(30)
<1>4. Cardinality({s} \cup {t}) <= Cardinality(Server) /\ Cardinality(Server) \in Nat
  BY <1>1, FS_Subset, FS_CardinalityType
<1> QED
  BY <1>3, <1>4, SMTT(30) DEF Majority

(* Majorities of a finite cluster are what RaftLogProofs assumes of them. *)
LEMMA Quorums == QuorumsMeet /\ QuorumsGrow /\ QuorumsCount /\ QuorumsShared
<1>1. IsFiniteSet(Server) /\ Cardinality(Server) \in Nat
  BY ServerAssumption, FS_CardinalityType
<1>2. \A A \in SUBSET Server : IsFiniteSet(A) /\ Cardinality(A) \in Nat
  BY <1>1, FS_Subset, FS_CardinalityType
<1>3. ASSUME NEW A \in Quorum, NEW B \in Quorum
      PROVE  \E v \in Server : v \in A /\ v \in B
  <2>1. /\ A \in SUBSET Server /\ Majority(Cardinality(A))
        /\ B \in SUBSET Server /\ Majority(Cardinality(B))
    BY DEF Quorum
  <2>2. Cardinality(A) + Cardinality(B) > Cardinality(Server)
    BY <1>1, <1>2, <2>1, SMTT(30) DEF Majority
  <2>3. A \cap B # {}
    BY <1>1, <2>1, <2>2, FS_MajoritiesIntersect
  <2> QED
    BY <2>1, <2>3
<1>4. ASSUME NEW s \in Server, NEW A \in SUBSET (Server \ {s}),
             Majority(1 + Cardinality(A))
      PROVE  A \cup {s} \in Quorum
  <2>1. Cardinality(A \cup {s}) = Cardinality(A) + 1 /\ Cardinality(A) \in Nat
    BY <1>2, FS_AddElement
  <2>2. 1 + Cardinality(A) = Cardinality(A \cup {s})
    BY <2>1, SMTT(30)
  <2> QED
    BY <1>4, <2>2 DEF Quorum
<1>5. QuorumsGrow
  BY MajorityGrows DEF QuorumsGrow
<1> QED
  BY <1>3, <1>4, <1>5, NotAlone DEF QuorumsMeet, QuorumsCount, QuorumsShared

LEMMA SteadyHolds ==
    ASSUME Typed, Typed', ElectionInv, ElectionInv', windows = {}, windows' = {}
    PROVE  Steady /\ UnlockedInv /\ LeaderInv'
<1>1. /\ UnlockedInv /\ CallInv /\ VoteInv /\ LeaderInv
  BY DEF ElectionInv
<1>2. VoteInv' /\ LeaderInv'
  BY DEF ElectionInv
<1>3. CallsTyped
  BY AppendCallFields DEF CallsTyped
<1> QED
  BY <1>1, <1>2, <1>3, Quorums, LogTypes, VoteTypesHold, TypesNext DEF Steady

(* Every step keeps the invariant, and what is committed. *)
LEMMA NextLog ==
    ASSUME Typed, Typed', ElectionInv, ElectionInv', LogInv, [Next]_vars
    PROVE  LogInv' /\ (windows' = {} => \A s \in Server : Kept(s))
<1> SUFFICES ASSUME windows' = {} PROVE Sound
  BY DEF LogInv, Sound
<1>1. windows = {}
  BY WindowsGrow
<1>2. Safe
  BY <1>1 DEF LogInv
<1>3. Steady /\ UnlockedInv /\ LeaderInv'
  BY <1>1, SteadyHolds
<1> QED
  BY <1>2, <1>3, StepSound

LEMMA LogInvariant == Spec => [](Typed /\ ElectionInv /\ LogInv)
<1>1. Init => LogInv
  BY InitSafe DEF LogInv
<1>2. Typed /\ ElectionInv /\ Typed' /\ ElectionInv' /\ LogInv /\ [Next]_vars => LogInv'
  BY NextLog
<1> QED
  BY <1>1, <1>2, ElectionInvariant, PTL DEF Spec

(* Log matching, state machine safety and the storage of what is committed *)
(* on a majority, in every cluster and every run that goes through none of *)
(* the listed race windows.                                                *)
THEOREM LogsSafe == Spec => []LogSafetyButWindows
<1>1. Typed /\ LogInv => LogSafetyButWindows
  BY LogTypes, Quorums, MatchingLogs, SafeStateMachines, CommittedStored
     DEF LogInv, LogSafetyButWindows
<1> QED
  BY <1>1, LogInvariant, PTL

(* In such a run no step of any peer takes back or overwrites what a peer  *)
(* has committed.                                                          *)
THEOREM CommittedNeverLost == Spec => CommittedKept
<1> DEFINE Stays == windows' = {} =>
        \A s \in Server :
            /\ rf[s].commitIndex <= rf'[s].commitIndex
            /\ \A n \in Committed(s) : n \in Committed(s)' /\ Entry(rf'[s], n) = Entry(rf[s], n)
<1>1. Typed /\ Typed' /\ ElectionInv /\ ElectionInv' /\ LogInv /\ [Next]_vars => Stays
  BY LogTypes, TypesNext, NextLog, KeptCommitted
<1> QED
  BY <1>1, LogInvariant, PTL DEF Spec, CommittedKept

-----------------------------------------------------------------------------
(* RaftHeart *)

(* The unlocked convertRole calls belong to handleInstallSnapshot          *)
(* goroutines that stand before that call, one to each.                    *)
ConvertingInv ==
    /\ converting \subseteq [call : snapCalls, pc : {"close", "assign"}]
    /\ \A d \in converting : d.call.pc = "setRole"
    /\ \A d, e \in converting : d.call = e.call => d = e

(* the inductive invariant *)
HeartInv ==
    /\ Typed /\ UnlockedInv
    /\ heartChan \in [Server -> {"nil", "open", "closed", "twice"}]
    /\ ConvertingInv
    /\ LeaderHeartOpen
    /\ ClosedOnceButUnlocked

(* A step of RaftCluster that holds the mutex, or is none of convertRole's *)
(* statements.                                                             *)
LockedStep ==
    \/ \E s \in Server : PeerStep(s)
    \/ \E m \in voteRequests : ReceiveRequestVote(m)
    \/ \E m \in voteReplies : ReceiveVoteReply(m)
    \/ \E p \in starts : StartAppends(p)
    \/ \E c \in appendCalls : AppendStep(c)
    \/ \E c \in snapCalls : c.pc # "setRole" /\ SnapshotStep(c)

(* Such a step is one of RaftCluster. *)
LEMMA LockedIsNext == LockedStep => Next
BY DEF LockedStep, Next

(* Only convertRole moves a goroutine on that stands before it. *)
LEMMA LockedKeepsCalls ==
    ASSUME LockedStep PROVE \A c \in snapCalls : c.pc = "setRole" => c \in snapCalls'
<1>1. ASSUME NEW s \in Server, PeerStep(s) PROVE snapCalls' = snapCalls
  BY <1>1 DEF PeerStep, ElectionTimeout, StartElection, SendRequestVotes, Heartbeat,
                 StartReadsTerm, logVars
<1>2. ASSUME NEW m \in voteRequests, ReceiveRequestVote(m) PROVE snapCalls' = snapCalls
  BY <1>2 DEF ReceiveRequestVote, logVars
<1>3. ASSUME NEW m \in voteReplies, ReceiveVoteReply(m) PROVE snapCalls' = snapCalls
  BY <1>3 DEF ReceiveVoteReply, logVars
<1>4. ASSUME NEW p \in starts, StartAppends(p) PROVE snapCalls' = snapCalls
  BY <1>4 DEF StartAppends
<1>5. ASSUME NEW c \in appendCalls, AppendStep(c) PROVE snapCalls \subseteq snapCalls'
  BY <1>5 DEF AppendStep, PrepareAppend, Panic, SendAppend, ReceiveAppend, ReceiveAppendReply
<1>6. ASSUME NEW c \in snapCalls, SnapshotStep(c) PROVE snapCalls \ {c} \subseteq snapCalls'
  BY <1>6 DEF SnapshotStep, PrepareSnapshot, SendSnapshot, ReceiveSnapshot,
       CheckSnapshotReply, CompareSnapshotReply, CompareSnapshotIndex, SnapshotSetsNext,
       SnapshotSetsMatch, SnapshotSetsTerm, SnapshotSetsRole, SnapshotSetsVote, Advance
<1> QED
  BY <1>1, <1>2, <1>3, <1>4, <1>5, <1>6 DEF LockedStep

(* What a step of RaftHeart is. *)
LEMMA HeartStepKinds ==
    HeartNext => \/ LockedStep /\ Locked
                 \/ \E c \in snapCalls : TestRole(c)
                 \/ \E d \in converting : CloseHeart(d) \/ AssignRole(d)
BY DEF HeartNext, LockedStep

(* Every step of RaftHeart is one of RaftCluster or leaves it alone. *)
LEMMA HeartIsCluster == ConvertingInv /\ [HeartNext]_heartVars => [Next]_vars
<1> SUFFICES ASSUME ConvertingInv, [HeartNext]_heartVars PROVE [Next]_vars
  OBVIOUS
<1>1. CASE LockedStep
  BY <1>1, LockedIsNext
<1>2. ASSUME NEW c \in snapCalls, TestRole(c) PROVE UNCHANGED vars
  BY <1>2 DEF TestRole
<1>3. ASSUME NEW d \in converting, CloseHeart(d) PROVE UNCHANGED vars
  BY <1>3 DEF CloseHeart
<1>4. ASSUME NEW d \in converting, AssignRole(d) PROVE Next
  <2>1. d.call \in snapCalls
    BY DEF ConvertingInv
  <2>2. SnapshotStep(d.call)
    BY <1>4 DEF AssignRole, SnapshotStep
  <2> QED
    BY <2>1, <2>2 DEF Next
<1>5. CASE UNCHANGED heartVars
  BY <1>5 DEF heartVars
<1> QED
  BY <1>1, <1>2, <1>3, <1>4, <1>5, HeartStepKinds

-----------------------------------------------------------------------------
(* heartChan and the unlocked calls, step by step *)

(* convertRole under the mutex closes the channel of a Leader that steps   *)
(* down and makes a new one for a new Leader.                              *)
LEMMA LockedHeart == ASSUME HeartInv, LockedStep, Locked PROVE HeartInv'
<1>1. Typed' /\ UnlockedInv' /\ windows \subseteq windows'
  BY LockedIsNext, NextTyped, UnlockedStep, WindowsGrow DEF HeartInv
<1>2. \A s \in Server : heartChan'[s] = ConvertHeart(heartChan[s], rf[s].role, rf'[s].role)
  BY DEF Locked
<1>3. heartChan' \in [Server -> {"nil", "open", "closed", "twice"}]
  BY DEF Locked, HeartInv, ConvertHeart, Close
<1>4. ConvertingInv'
  BY LockedKeepsCalls DEF HeartInv, ConvertingInv, Locked
<1>5. LeaderHeartOpen'
  <2> SUFFICES ASSUME NEW s \in Server, rf'[s].role = "Leader", heartChan'[s] # "open"
               PROVE  \E d \in converting : d.call.from = s /\ d.pc = "assign"
    BY DEF LeaderHeartOpen, Leader, Locked
  <2>1. rf[s].role = "Leader" /\ heartChan'[s] = heartChan[s]
    BY <1>2 DEF ConvertHeart
  <2> QED
    BY <2>1 DEF HeartInv, LeaderHeartOpen, Leader
<1>6. ClosedOnceButUnlocked'
  <2> SUFFICES ASSUME "unlockedStepDown" \notin windows', NEW s \in Server
               PROVE  heartChan'[s] # "twice"
    BY DEF ClosedOnceButUnlocked, Alive
  <2>1. "unlockedStepDown" \notin windows /\ heartChan[s] # "twice"
    BY <1>1 DEF HeartInv, ClosedOnceButUnlocked, Alive
  <2>2. converting = {}
    BY <2>1 DEF HeartInv, ConvertingInv, UnlockedInv
  <2>3. rf[s].role = "Leader" => heartChan[s] = "open"
    BY <2>2 DEF HeartInv, LeaderHeartOpen, Leader
  <2> QED
    BY <1>2, <2>1, <2>3 DEF ConvertHeart, Close
<1> QED
  BY <1>1, <1>3, <1>4, <1>5, <1>6 DEF HeartInv

(* The unlocked convertRole tests the role: the window is open already. *)
LEMMA TestRoleHeart ==
    ASSUME HeartInv, NEW c \in snapCalls, TestRole(c) PROVE HeartInv'
<1>1. UNCHANGED <<vars, heartChan>> /\ c.pc = "setRole"
  BY DEF TestRole
<1>2. PICK pc \in {"close", "assign"} :
        /\ converting' = converting \cup {[call |-> c, pc |-> pc]}
        /\ \A d \in converting : d.call # c
  BY DEF TestRole
<1>3. Typed' /\ UnlockedInv' /\ UNCHANGED <<rf, snapCalls, windows, heartChan>>
  BY <1>1, NextTyped, UnlockedStep DEF HeartInv, vars, logVars, histVars
<1>4. ConvertingInv'
  BY <1>1, <1>2, <1>3, SMTT(30) DEF HeartInv, ConvertingInv
<1>5. LeaderHeartOpen' /\ ClosedOnceButUnlocked'
  BY <1>2, <1>3 DEF HeartInv, LeaderHeartOpen, Leader, ClosedOnceButUnlocked, Alive
<1> QED
  BY <1>3, <1>4, <1>5 DEF HeartInv

(* It closes the channel before it assigns the role. *)
LEMMA CloseHeartHeart ==
    ASSUME HeartInv, NEW d \in converting, CloseHeart(d) PROVE HeartInv'
<1> DEFINE e == [d EXCEPT !.pc = "assign"]
           s == d.call.from
<1>1. /\ d \in [call : snapCalls, pc : {"close", "assign"}] /\ d.call.pc = "setRole"
      /\ e.call = d.call /\ e.pc = "assign" /\ e \in [call : snapCalls, pc : {"close", "assign"}]
  BY DEF HeartInv, ConvertingInv
<1>2. s \in Server /\ "unlockedStepDown" \in windows
  BY <1>1, SnapCallFields DEF HeartInv, UnlockedInv
<1>3. /\ Typed' /\ UnlockedInv' /\ UNCHANGED <<rf, snapCalls, windows>>
      /\ heartChan' = [heartChan EXCEPT ![s] = Close(@)]
      /\ converting' = (converting \ {d}) \cup {e}
  BY NextTyped, UnlockedStep DEF CloseHeart, Advance, HeartInv, vars, logVars, histVars
<1> HIDE DEF e, s
<1>4. heartChan' \in [Server -> {"nil", "open", "closed", "twice"}]
  BY <1>2, <1>3 DEF HeartInv, Close
<1>5. ConvertingInv'
  BY <1>1, <1>3, SMTT(30) DEF HeartInv, ConvertingInv
<1>6. LeaderHeartOpen'
  <2> SUFFICES ASSUME NEW t \in Server, rf[t].role = "Leader"
               PROVE  \/ heartChan'[t] = "open"
                      \/ \E g \in converting' : g.call.from = t /\ g.pc = "assign"
    BY <1>3 DEF LeaderHeartOpen, Leader
  <2>1. CASE t = s
    BY <1>1, <1>3, <2>1 DEF s
  <2>2. CASE t # s
    <3>1. heartChan'[t] = heartChan[t]
      BY <1>3, <2>2 DEF HeartInv
    <3>2. \A g \in converting : g.call.from = t => g \in converting'
      BY <1>3, <2>2 DEF s
    <3> QED
      BY <3>1, <3>2 DEF HeartInv, LeaderHeartOpen, Leader
  <2> QED
    BY <2>1, <2>2
<1> QED
  BY <1>2, <1>3, <1>4, <1>5, <1>6 DEF HeartInv, ClosedOnceButUnlocked

(* It assigns the role and is done. *)
LEMMA AssignRoleHeart ==
    ASSUME HeartInv, NEW d \in converting, AssignRole(d) PROVE HeartInv'
<1> DEFINE c == d.call
           s == c.from
<1>1. c \in snapCalls /\ c.pc = "setRole"
  BY DEF HeartInv, ConvertingInv
<1>2. s \in Server /\ "unlockedStepDown" \in windows
  BY <1>1, SnapCallFields DEF HeartInv, UnlockedInv
<1>3. /\ rf' = [rf EXCEPT ![s] = ConvertRole(@, "Follower")]
      /\ snapCalls' = Advance(snapCalls, c, [c EXCEPT !.pc = "setVote"])
      /\ converting' = converting \ {d}
      /\ UNCHANGED <<heartChan, windows>>
  BY DEF AssignRole, SnapshotSetsRole, histVars
<1>4. Typed' /\ UnlockedInv'
  <2>1. Next
    BY <1>1 DEF AssignRole, SnapshotStep, Next
  <2> QED
    BY <2>1, NextTyped, UnlockedStep DEF HeartInv
<1>5. ConvertingInv'
  <2>1. \A e \in converting' : e \in converting /\ e.call # c
    BY <1>3 DEF HeartInv, ConvertingInv
  <2>2. \A e \in converting' : e.call \in snapCalls'
    BY <1>3, <2>1 DEF HeartInv, ConvertingInv, Advance
  <2> QED
    BY <2>1, <2>2 DEF HeartInv, ConvertingInv
<1>6. LeaderHeartOpen'
  <2>1. rf \in [Server -> Peer]
    BY DEF HeartInv, Typed, TypeOK
  <2>2. rf'[s].role = "Follower"
    BY <1>2, <1>3, <2>1 DEF ConvertRole, Peer
  <2>3. \A t \in Server \ {s} : rf'[t] = rf[t]
    BY <1>3, <2>1
  <2>4. \A e \in converting : e.call.from # s => e \in converting'
    BY <1>3
  <2> QED
    BY <1>3, <2>2, <2>3, <2>4, SMTT(30) DEF HeartInv, LeaderHeartOpen, Leader
<1> QED
  BY <1>2, <1>3, <1>4, <1>5, <1>6 DEF HeartInv, ClosedOnceButUnlocked

-----------------------------------------------------------------------------
(* Every reachable state has the invariant. *)
LEMMA HeartInvariant == HeartSpec => []HeartInv
<1>1. HeartInit => HeartInv
  <2> SUFFICES ASSUME HeartInit PROVE HeartInv
    OBVIOUS
  <2>1. Typed /\ snapCalls = {} /\ converting = {} /\ heartChan = [s \in Server |-> "nil"]
    BY InitTyped DEF HeartInit, Init
  <2>2. UnlockedInv /\ ConvertingInv
    BY <2>1 DEF UnlockedInv, ConvertingInv
  <2>3. \A s \in Server : rf[s].role = "Follower"
    BY DEF HeartInit, Init, Make
  <2> QED
    BY <2>1, <2>2, <2>3 DEF HeartInv, LeaderHeartOpen, Leader, ClosedOnceButUnlocked, Alive
<1>2. HeartInv /\ [HeartNext]_heartVars => HeartInv'
  <2> SUFFICES ASSUME HeartInv, [HeartNext]_heartVars PROVE HeartInv'
    OBVIOUS
  <2>1. CASE UNCHANGED heartVars
    <3>1. Typed' /\ UnlockedInv' /\ UNCHANGED <<rf, snapCalls, windows, heartChan, converting>>
      BY <2>1, NextTyped, UnlockedStep DEF HeartInv, heartVars, vars, logVars, histVars
    <3> QED
      BY <3>1 DEF HeartInv, ConvertingInv, LeaderHeartOpen, Leader, ClosedOnceButUnlocked, Alive
  <2> QED
    BY <2>1, HeartStepKinds, LockedHeart, TestRoleHeart, CloseHeartHeart, AssignRoleHeart
<1> QED
  BY <1>1, <1>2, PTL DEF HeartSpec

(* Peers with their heartChan behave as the peers of RaftCluster do: the   *)
(* statements that only touch heartChan in convertRole are stutters, and   *)
(* what is proved of RaftCluster holds here.                               *)
THEOREM HeartImplementsCluster == HeartSpec => Spec
<1>1. HeartInit => Init
  BY DEF HeartInit
<1>2. HeartInv /\ [HeartNext]_heartVars => [Next]_vars
  BY HeartIsCluster DEF HeartInv
<1> QED
  BY <1>1, <1>2, HeartInvariant, PTL DEF HeartSpec, Spec

(* A Leader's heartbeat loop finds its channel open, for every cluster and *)
(* every succession of elections and step-downs in convertRole, but while  *)
(* an unlocked step-down is between its close and its assignment.          *)
THEOREM LeaderHeartStaysOpen == HeartSpec => []LeaderHeartOpen
<1>1. HeartInv => LeaderHeartOpen
  BY DEF HeartInv
<1> QED
  BY <1>1, HeartInvariant, PTL

(* No heartChan is closed twice unless handleInstallSnapshot steps down    *)
(* without the mutex: convertRole under the mutex never closes a channel   *)
(* that is not open.                                                       *)
THEOREM HeartClosedOnce == HeartSpec => []ClosedOnceButUnlocked
<1>1. HeartInv => ClosedOnceButUnlocked
  BY DEF HeartInv
<1> QED
  BY <1>1, HeartInvariant, PTL

(* Types carry over from RaftCluster. *)
THEOREM HeartTypeCorrect == HeartSpec => []TypeOK
BY HeartImplementsCluster, TypeCorrect, PTL
=============================================================================
