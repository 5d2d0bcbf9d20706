--------------------------- MODULE RaftElectionInv ---------------------------
(***************************************************************************)
(* The invariants behind the elections of RaftCluster: what the calls of   *)
(* startElection, voteCount, votedFor and the votes cast have to do with   *)
(* each other.  RaftProofs proves them inductive and RaftLogProofs builds  *)
(* on them.                                                                *)
(***************************************************************************)
EXTENDS RaftCluster

(* handleInstallSnapshot resets role and vote only after it set the term. *)
UnlockedInv ==
    \A c \in snapCalls : c.pc \in {"setRole", "setVote"} => "unlockedStepDown" \in windows

SameCall(m, k) == m.from = k.from /\ m.to = k.to /\ m.election = k.election

Vote(v, term, c) == [voter |-> v, term |-> term, candidate |-> c]

(* startElection makes one call per election and peer, with the term of    *)
(* the election, and an affirmative answer is backed by a vote.            *)
CallInv ==
    /\ \A m \in voteRequests :
        /\ m.args.CandidateId = m.from /\ m.to # m.from
        /\ m.args.Term = elections[m.from][m.election].Term
    /\ \A m \in voteReplies :
        /\ m.to # m.from
        /\ m.reply.VoteGranted =>
            Vote(m.to, elections[m.from][m.election].Term, m.from) \in grants
    /\ \A m, k \in voteRequests : SameCall(m, k) => m = k
    /\ \A m, k \in voteReplies : SameCall(m, k) => m = k
    /\ \A m \in voteRequests, k \in voteReplies : ~SameCall(m, k)

(* The peers whose vote election n of s may have counted: their call is    *)
(* over.                                                                   *)
Counted(s, n) ==
    {v \in Server \ {s} :
        /\ Vote(v, elections[s][n].Term, s) \in grants
        /\ \A m \in voteRequests \cup voteReplies :
            ~(m.from = s /\ m.to = v /\ m.election = n)}

CountInv ==
    \A s \in Server : \A n \in DOMAIN elections[s] :
        elections[s][n].voteCount <= 1 + Cardinality(Counted(s, n))

(* votedFor remembers the vote of the current term; terms only grow, so a   *)
(* candidate asks each peer once per term.                                 *)
VoteInv ==
    /\ \A g, h \in grants :
        (g.voter = h.voter /\ g.term = h.term) => g.candidate = h.candidate
    /\ \A g \in grants : g.term <= rf[g.voter].currentTerm
    /\ \A g \in grants :
        g.term = rf[g.voter].currentTerm => rf[g.voter].votedFor = g.candidate
    /\ \A s \in Server : \A n \in DOMAIN elections[s] :
        /\ elections[s][n].Term <= rf[s].currentTerm
        /\ ticker[s] = "candidate" => elections[s][n].Term < rf[s].currentTerm
    /\ \A s \in Server : \A n, k \in DOMAIN elections[s] :
        n < k => elections[s][n].Term < elections[s][k].Term
    /\ \A g \in grants : g.voter # g.candidate =>
        \E n \in DOMAIN elections[g.candidate] : elections[g.candidate][n].Term = g.term
    /\ \A m \in voteRequests : Vote(m.to, m.args.Term, m.from) \notin grants

Voters(s, term) == {v \in Server : Vote(v, term, s) \in grants}

(* A Candidate has voted for itself, a Leader has a majority. *)
LeaderInv ==
    \A s \in Server :
        /\ rf[s].role = "Candidate" => Vote(s, rf[s].currentTerm, s) \in grants
        /\ rf[s].role = "Leader" => Majority(Cardinality(Voters(s, rf[s].currentTerm)))

ElectionInv ==
    /\ UnlockedInv /\ CallInv /\ CountInv
    /\ "unlockedStepDown" \notin windows => VoteInv
    /\ windows \cap {"staleElection", "unlockedStepDown"} = {} => LeaderInv
=============================================================================
