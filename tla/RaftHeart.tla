------------------------------ MODULE RaftHeart ------------------------------
(***************************************************************************)
(* The channel that ends the heartbeat loops of the peers of RaftCluster   *)
(* (raft/raft.go: convertRole, startHeartbeat).  convertRole makes a new   *)
(* heartChan for a new Leader and starts a loop, and closes heartChan when *)
(* a Leader becomes Follower.  A loop looks at rf.heartChan anew in every  *)
(* turn and ends when it is closed or the peer is not Leader; the loop of  *)
(* the present leadership is therefore alive while heartChan stays open.   *)
(* Older loops that have slept through a new election go on beside it:     *)
(* RaftCluster allows rounds in any number.                                *)
(*                                                                         *)
(* A step of RaftCluster that changes a role is the whole convertRole,     *)
(* except in handleInstallSnapshot, which calls it without the mutex: its  *)
(* three statements are steps of their own here, and SnapshotSetsRole is   *)
(* the last of them.                                                       *)
(***************************************************************************)
EXTENDS RaftCluster

VARIABLES
    heartChan,      \* "nil", "open" or "closed"; "twice" when the program has died of
                    \* closing a channel that is not open
    converting      \* the unlocked convertRole(Follower) calls and their next statement

heartVars == <<vars, heartChan, converting>>

HeartInit ==
    /\ Init
    /\ heartChan = [s \in Server |-> "nil"]
    /\ converting = {}

Alive == \A s \in Server : heartChan[s] # "twice"

Close(chan) == IF chan = "open" THEN "closed" ELSE "twice"

(* Mutant: a new Leader keeps the channel of its last leadership. *)
ConvertHeartOnce(chan, from, to) ==
    CASE to = "Follower" /\ from = "Leader" -> Close(chan)
      [] to = "Leader" /\ from # "Leader" /\ chan = "nil" -> "open"
      [] OTHER -> chan

(* Mutant: convertRole closes the channel of a Candidate, too. *)
ConvertHeartAlways(chan, from, to) ==
    CASE to = "Follower" /\ from # "Follower" -> Close(chan)
      [] to = "Leader" /\ from # "Leader" -> "open"
      [] OTHER -> chan

(* what convertRole does with heartChan (to a Candidate: nothing) *)
ConvertHeart(chan, from, to) ==
    CASE to = "Follower" /\ from = "Leader" -> Close(chan)
      [] to = "Leader" /\ from # "Leader" -> "open"
      [] OTHER -> chan

(* the convertRole in a step that holds the mutex, if there is one *)
Locked ==
    /\ Alive
    /\ heartChan' = [s \in Server |->
            ConvertHeart(heartChan[s], rf[s].role, rf'[s].role)]
    /\ UNCHANGED converting

(* if rf.role == Leader, in the unlocked convertRole(Follower) *)
TestRole(c) ==
    /\ Alive /\ Up(c.from)
    /\ c.pc = "setRole" /\ \A d \in converting : d.call # c
    /\ converting' = converting \cup
        {[call |-> c, pc |-> IF Leader(c.from) THEN "close" ELSE "assign"]}
    /\ UNCHANGED <<vars, heartChan>>

(* close(rf.heartChan) there *)
CloseHeart(d) ==
    /\ Alive /\ Up(d.call.from)
    /\ d.pc = "close"
    /\ heartChan' = [heartChan EXCEPT ![d.call.from] = Close(@)]
    /\ converting' = Advance(converting, d, [d EXCEPT !.pc = "assign"])
    /\ UNCHANGED vars

(* rf.role = role there *)
AssignRole(d) ==
    /\ Alive
    /\ d.pc = "assign"
    /\ SnapshotSetsRole(d.call)
    /\ converting' = converting \ {d}
    /\ UNCHANGED heartChan

HeartNext ==
    \/ \E s \in Server : PeerStep(s) /\ Locked
    \/ \E m \in voteRequests : ReceiveRequestVote(m) /\ Locked
    \/ \E m \in voteReplies : ReceiveVoteReply(m) /\ Locked
    \/ \E p \in starts : StartAppends(p) /\ Locked
    \/ \E c \in appendCalls : AppendStep(c) /\ Locked
    \/ \E c \in snapCalls :
        \/ c.pc # "setRole" /\ SnapshotStep(c) /\ Locked
        \/ TestRole(c)
    \/ \E d \in converting : CloseHeart(d) \/ AssignRole(d)

HeartSpec == HeartInit /\ [][HeartNext]_heartVars

-----------------------------------------------------------------------------

(* A Leader's heartChan is open, however soon it was elected again and     *)
(* whatever old channels were closed: its loop goes on.  A Leader without  *)
(* a loop would send nothing to anybody and keep the others waiting.  Only *)
(* while handleInstallSnapshot's unlocked step-down is between its close   *)
(* and its last statement may the channel be closed already.               *)
LeaderHeartOpen ==
    \A s \in Server :
        Leader(s) => \/ heartChan[s] = "open"
                     \/ \E d \in converting : d.call.from = s /\ d.pc = "assign"

(* No heartChan is closed twice, or before it is made, which would end the *)
(* program: the locked sections close it only when a Leader steps down.    *)
(* Only the unlocked step-down of handleInstallSnapshot, between its test  *)
(* of the role and its close, can collide with another step-down.          *)
ClosedOnceButUnlocked ==
    "unlockedStepDown" \notin windows => Alive
=============================================================================
