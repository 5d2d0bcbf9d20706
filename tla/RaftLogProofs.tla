---------------------------- MODULE RaftLogProofs ----------------------------
(***************************************************************************)
(* Why the replicated log of RaftCluster is safe as long as no race window *)
(* is gone through: the inductive invariant LogInv, the kinds of step that *)
(* logs, leaders and goroutines take, and that each kind keeps LogInv.     *)
(* RaftSafetyProofs shows that every action is a step of one of the kinds. *)
(*                                                                         *)
(* The argument compares every log with leaderLog, the log the leader of a *)
(* term has, and counts who has stored how much of it (acks).  A position  *)
(* that a majority may still store in the term of its entry (Choosable)    *)
(* can only stop being one; as long as it is one, every log of a later     *)
(* leader has the entry.  Positions are those of the sequence logs: the    *)
(* entry with index n is at position n + 1.                                *)
(***************************************************************************)
EXTENDS RaftElectionInv, TLAPS

(* Most facts are first-order; the ones with arithmetic name SMTT. *)
USE ZenonT(30)

(* the two logs have the same first k entries *)
Agree(l, m, k) ==
    /\ k <= Len(l) /\ k <= Len(m)
    /\ \A j \in 1..k : l[j] = m[j]

(* l begins with the marker, and every entry of it stands where the leader *)
(* of its term had it, after the same entries                              *)
Copied(l) ==
    /\ Len(l) > 0 /\ l[1].Term = 0
    /\ \A k \in 1..Len(l) :
        l[k].Term \in DOMAIN leaderLog /\ Agree(l, leaderLog[l[k].Term], k)

Has(l, t, k) == k \in 1..Len(l) /\ l[k] = leaderLog[t][k]

Elected(s, term) == Majority(Cardinality(Voters(s, term)))

Acked(v, t, k) == \E a \in acks : a.peer = v /\ a.term = t /\ a.length >= k

Quorum == {Q \in SUBSET Server : Majority(Cardinality(Q))}

(* position k holds an entry of the leader's own term *)
OwnEntry(t, k) ==
    /\ t \in DOMAIN leaderLog
    /\ k \in 1..Len(leaderLog[t])
    /\ leaderLog[t][k].Term = t

(* a majority has stored it, or may still store it, in its term *)
Choosable(t, k) ==
    /\ OwnEntry(t, k)
    /\ \E Q \in Quorum : \A v \in Q : rf[v].currentTerm <= t \/ Acked(v, t, k)

Chosen(t, k) ==
    /\ OwnEntry(t, k)
    /\ \E Q \in Quorum : \A v \in Q : Acked(v, t, k)

(* log l has at k an entry that the leader of a term up to x had there     *)
(* when a majority stored its log                                          *)
DecidedIn(l, k, x) ==
    \E t \in DOMAIN leaderLog :
        /\ t <= x
        /\ \E m \in k..Len(leaderLog[t]) : Chosen(t, m)
        /\ Has(l, t, k)

(* AppendEntries arguments that hand on a part of l up to its end, except  *)
(* for entries of the leader's own term                                    *)
Segment(args, l) ==
    LET prev == args.PrevLogIndex + 1
        last == prev + Len(args.Entries)
    IN  /\ last <= Len(l)
        /\ l[prev].Term = args.PrevLogTerm
        /\ \A j \in 1..Len(args.Entries) : args.Entries[j] = l[prev + j]
        /\ \A k \in 1..Len(l) : l[k].Term < args.Term => k <= last
        /\ \A n \in 1..args.LeaderCommit : DecidedIn(l, n + 1, args.Term)

(* The log of the leader of x is a copy of logs of leaders up to x, and     *)
(* the one peer a majority voted for in x is still Leader, or beyond x.    *)
LedgerOK(x) ==
    /\ Copied(leaderLog[x])
    /\ \A k \in 1..Len(leaderLog[x]) : leaderLog[x][k].Term <= x
    /\ x > 0 => \E w \in Server :
        /\ Elected(w, x)
        /\ rf[w].currentTerm >= x
        /\ rf[w].currentTerm = x => Leader(w)

LedgerInv == 0 \in DOMAIN leaderLog /\ \A x \in DOMAIN leaderLog : LedgerOK(x)

(* A log is a copy, from before the term a Candidate campaigns in. *)
LogOK(s) ==
    /\ Copied(rf[s].logs)
    /\ \A k \in 1..Len(rf[s].logs) :
        /\ rf[s].logs[k].Term <= rf[s].currentTerm
        /\ rf[s].role = "Candidate" => rf[s].logs[k].Term < rf[s].currentTerm

(* A Leader has the log of its term, and matchIndex is what was stored. *)
LeadOK(s) ==
    Leader(s) =>
        /\ rf[s].currentTerm \in DOMAIN leaderLog
        /\ leaderLog[rf[s].currentTerm] = rf[s].logs
        /\ Acked(s, rf[s].currentTerm, Len(rf[s].logs))
        /\ \A i \in Server : rf[s].matchIndex[i] >= 1 =>
            Acked(i, rf[s].currentTerm, rf[s].matchIndex[i] + 1)

(* What is committed is decided. *)
CommitOK(s) ==
    \A n \in 1..rf[s].commitIndex : DecidedIn(rf[s].logs, n + 1, rf[s].currentTerm)

PeerInv == \A s \in Server : LogOK(s) /\ LeadOK(s) /\ CommitOK(s)

AckOK(a) ==
    /\ a.term \in DOMAIN leaderLog
    /\ a.length <= Len(leaderLog[a.term])
    /\ a.term <= rf[a.peer].currentTerm

AckInv == \A a \in acks : AckOK(a)

(* The arguments of a Candidate's RequestVote calls describe its log. *)
RequestOK(m) ==
    /\ m.args.Term = rf[m.from].currentTerm
    /\ rf[m.from].role = "Candidate"
    => /\ m.args.LastLogIndex = LastLogicalIndex(rf[m.from])
       /\ m.args.LastLogTerm = LastLogTerm(rf[m.from])

(* The arguments of AppendEntries calls are a part of the log of the leader *)
(* of their term, and a positive answer means they are stored.             *)
CallOK(c) ==
    /\ c.from # c.to
    /\ c.pc \in {"ready", "request", "reply"} => c.args.Term <= rf[c.from].currentTerm
    /\ c.pc = "ready" /\ c.args.Term = rf[c.from].currentTerm
                      /\ rf[c.from].role # "Follower" =>
        Segment(c.args, rf[c.from].logs)
    /\ c.pc = "request" =>
        /\ c.args.Term \in DOMAIN leaderLog
        /\ Elected(c.from, c.args.Term)
        /\ Segment(c.args, leaderLog[c.args.Term])
    /\ c.pc = "reply" /\ c.reply.Success =>
        Acked(c.to, c.args.Term, c.args.PrevLogIndex + 1 + Len(c.args.Entries))

SentInv ==
    /\ \A m \in voteRequests : RequestOK(m)
    /\ \A c \in appendCalls : CallOK(c)

(* g is a vote for a peer that campaigns with it *)
Campaigns(g) ==
    rf[g.candidate].currentTerm = g.term /\ rf[g.candidate].role = "Candidate"

(* Who votes for a candidate after storing position k sees it in its log. *)
GrantOK(g, t, k) ==
    g.term > t /\ Acked(g.voter, t, k) => Has(rf[g.candidate].logs, t, k)

(* What a choosable position implies: who has stored it still has it, every *)
(* later leader has it, and so does every candidate that got the vote of   *)
(* one who has stored it.                                                  *)
ChoiceOK(t, k) ==
    Choosable(t, k) =>
        /\ \A v \in Server : Acked(v, t, k) => Has(rf[v].logs, t, k)
        /\ \A x \in DOMAIN leaderLog : x > t => Has(leaderLog[x], t, k)
        /\ \A g \in grants : Campaigns(g) => GrantOK(g, t, k)

ChoiceInv ==
    \A t \in DOMAIN leaderLog : \A k \in 1..Len(leaderLog[t]) : ChoiceOK(t, k)

Safe == LedgerInv /\ PeerInv /\ AckInv /\ SentInv /\ ChoiceInv

(* the inductive invariant, beside Typed and ElectionInv *)
LogInv == windows = {} => Safe

-----------------------------------------------------------------------------
(* Quorums and logs *)

(* Two majorities have a peer in common, more votes stay a majority, the   *)
(* peer itself counts as one, and one is none where there is another peer. *)
QuorumsMeet == \A A, B \in Quorum : \E v \in Server : v \in A /\ v \in B

QuorumsGrow ==
    \A A, B \in SUBSET Server :
        A \subseteq B /\ Majority(Cardinality(A)) => Majority(Cardinality(B))

QuorumsCount ==
    \A s \in Server : \A A \in SUBSET (Server \ {s}) :
        Majority(1 + Cardinality(A)) => A \cup {s} \in Quorum

QuorumsShared == \A s, t \in Server : s # t => ~Majority(1)

(* One peer at most is elected in a term. *)
LEMMA OneElected ==
    ASSUME QuorumsMeet, VoteInv, NEW s \in Server, NEW w \in Server, NEW x,
           Elected(s, x), Elected(w, x)
    PROVE  s = w
<1>1. Voters(s, x) \in Quorum /\ Voters(w, x) \in Quorum
  BY DEF Quorum, Voters, Elected
<1>2. PICK v \in Server : v \in Voters(s, x) /\ v \in Voters(w, x)
  BY <1>1 DEF QuorumsMeet
<1>3. Vote(v, x, s) \in grants /\ Vote(v, x, w) \in grants
  BY <1>2 DEF Voters
<1>4. /\ Vote(v, x, s).voter = Vote(v, x, w).voter /\ Vote(v, x, s).term = Vote(v, x, w).term
      /\ Vote(v, x, s).candidate = s /\ Vote(v, x, w).candidate = w
  BY DEF Vote
<1> QED
  BY <1>3, <1>4 DEF VoteInv

(* The logs and terms the invariants compare have their types. *)
LogsTyped ==
    /\ \A s \in Server :
        /\ rf[s].currentTerm \in Nat /\ rf[s].lastIncludedIndex = 0
        /\ rf[s].logs \in Seq(LogEntry)
        /\ Len(rf[s].logs) \in Nat /\ Len(rf[s].logs) > 0
        /\ \A k \in 1..Len(rf[s].logs) : rf[s].logs[k].Term \in Nat
        /\ rf[s].commitIndex \in Int /\ rf[s].role \in Role
        /\ \A i \in Server : rf[s].matchIndex[i] \in Int
    /\ \A t \in DOMAIN leaderLog :
        /\ t \in Nat /\ leaderLog[t] \in Seq(LogEntry) /\ Len(leaderLog[t]) \in Nat
        /\ \A k \in 1..Len(leaderLog[t]) : leaderLog[t][k].Term \in Nat
    /\ \A a \in acks : a.peer \in Server /\ a.term \in Nat /\ a.length \in Nat

VotesTyped ==
    /\ \A g \in grants : g.voter \in Server /\ g.term \in Nat /\ g.candidate \in Server
    /\ \A m \in voteRequests : /\ m.from \in Server /\ m.to \in Server
                               /\ m.election \in DOMAIN elections[m.from]
                               /\ m.args \in RequestVoteArgs

CallsTyped ==
    \A c \in appendCalls :
        /\ c.from \in Server /\ c.to \in Server
        /\ c.pc \in {"ready", "request", "reply"} => c.args \in AppendEntriesArgs

(* Whoever voted in term x is in x or beyond. *)
LEMMA VotersBeyond ==
    ASSUME LogsTyped, VotesTyped, VoteInv, NEW s, NEW x
    PROVE  \A v \in Voters(s, x) : rf[v].currentTerm >= x
<1> SUFFICES ASSUME NEW v \in Voters(s, x) PROVE rf[v].currentTerm >= x
  OBVIOUS
<1>1. Vote(v, x, s) \in grants
  BY DEF Voters
<1>2. Vote(v, x, s).voter = v /\ Vote(v, x, s).term = x
  BY DEF Vote
<1>3. x \in Nat /\ v \in Server /\ rf[v].currentTerm \in Nat
  BY <1>1, <1>2 DEF LogsTyped, VotesTyped
<1>4. Vote(v, x, s).term <= rf[Vote(v, x, s).voter].currentTerm
  BY <1>1 DEF VoteInv
<1> QED
  BY <1>2, <1>3, <1>4

(* Copies have terms that never decrease. *)
LEMMA TermsOrdered ==
    ASSUME LogsTyped, LedgerInv, NEW l \in Seq(LogEntry), Copied(l),
           NEW k \in 1..Len(l), NEW j \in 1..k
    PROVE  l[j].Term <= l[k].Term
<1>1. PICK y : y = l[k].Term
  OBVIOUS
<1>2. y \in DOMAIN leaderLog /\ Agree(l, leaderLog[y], k)
  BY <1>1 DEF Copied
<1>3. Len(l) \in Nat /\ j \in 1..k /\ j \in 1..Len(leaderLog[y])
  BY <1>2, SMTT(30) DEF Agree, LogsTyped
<1>4. leaderLog[y][j].Term <= y
  BY <1>2, <1>3 DEF LedgerInv, LedgerOK
<1>5. l[j] = leaderLog[y][j]
  BY <1>2 DEF Agree
<1> QED
  BY <1>1, <1>4, <1>5

(* A copy that has an entry of a leader's own term has all before it. *)
LEMMA HasAll ==
    ASSUME LogsTyped, NEW l \in Seq(LogEntry), Copied(l), NEW t, NEW k, OwnEntry(t, k),
           Has(l, t, k)
    PROVE  Agree(l, leaderLog[t], k)
<1>1. k \in 1..Len(l) /\ l[k].Term = t
  BY DEF Has, OwnEntry
<1> QED
  BY <1>1 DEF Copied

(* Two copies with entries of one term, at one position, have all before   *)
(* it in common.                                                           *)
LEMMA CopiesAgree ==
    ASSUME LogsTyped, NEW l \in Seq(LogEntry), NEW m \in Seq(LogEntry), Copied(l), Copied(m),
           NEW k \in 1..Len(l), k \in 1..Len(m), l[k].Term = m[k].Term
    PROVE  Agree(l, m, k)
<1>1. Agree(l, leaderLog[l[k].Term], k) /\ Agree(m, leaderLog[l[k].Term], k)
  BY DEF Copied
<1> QED
  BY <1>1 DEF Agree

-----------------------------------------------------------------------------
(* What every step does to the history: logs of leaders get longer, by     *)
(* entries of their own term, votes and acknowledgements are added, terms  *)
(* grow, and only a new term ends a leadership.                            *)
Grows ==
    /\ DOMAIN leaderLog \subseteq DOMAIN leaderLog'
    /\ \A t \in DOMAIN leaderLog :
        /\ Agree(leaderLog[t], leaderLog'[t], Len(leaderLog[t]))
        /\ \A k \in 1..Len(leaderLog'[t]) :
            k > Len(leaderLog[t]) => leaderLog'[t][k].Term = t
    /\ acks \subseteq acks'
    /\ \A a \in acks' \ acks : rf[a.peer].currentTerm <= a.term
    /\ grants \subseteq grants'
    /\ \A s \in Server :
        /\ rf[s].currentTerm <= rf'[s].currentTerm
        /\ rf'[s].currentTerm = rf[s].currentTerm /\ Leader(s) => Leader(s)'

(* What is stored stays recorded, ... *)
LEMMA AckedGrows ==
    ASSUME Grows, NEW v, NEW t, NEW k, Acked(v, t, k) PROVE Acked(v, t, k)'
BY DEF Grows, Acked

(* ... who is elected stays elected, ... *)
LEMMA ElectedGrows ==
    ASSUME QuorumsGrow, Grows, NEW s, NEW x, Elected(s, x) PROVE Elected(s, x)'
<1>1. PICK A : A = Voters(s, x)
  OBVIOUS
<1>2. PICK B : B = Voters(s, x)'
  OBVIOUS
<1>3. A \in SUBSET Server /\ B \in SUBSET Server /\ A \subseteq B
  BY <1>1, <1>2 DEF Grows, Voters
<1>4. Majority(Cardinality(A))
  BY <1>1 DEF Elected
<1>5. Majority(Cardinality(B))
  BY <1>3, <1>4 DEF QuorumsGrow
<1> QED
  BY <1>2, <1>5 DEF Elected

(* ... and a copy stays a copy. *)
LEMMA CopiedGrows ==
    ASSUME LogsTyped, Grows, NEW l \in Seq(LogEntry), Copied(l) PROVE Copied(l)'
<1> SUFFICES ASSUME NEW k \in 1..Len(l)
             PROVE  l[k].Term \in DOMAIN leaderLog' /\ Agree(l, leaderLog'[l[k].Term], k)
  BY DEF Copied
<1>1. PICK y : y = l[k].Term
  OBVIOUS
<1>2. y \in DOMAIN leaderLog /\ Agree(l, leaderLog[y], k)
  BY <1>1 DEF Copied
<1>3. y \in DOMAIN leaderLog' /\ Agree(leaderLog[y], leaderLog'[y], Len(leaderLog[y]))
  BY <1>2 DEF Grows
<1>4. Len(leaderLog[y]) \in Nat /\ Len(l) \in Nat
  BY <1>2, SMTT(30) DEF LogsTyped
<1>5. k <= Len(l) /\ k <= Len(leaderLog[y])
  BY <1>2 DEF Agree
<1>6. k <= Len(leaderLog'[y])
  BY <1>3, <1>4, <1>5, SMTT(30) DEF Agree
<1>7. \A j \in 1..k : l[j] = leaderLog'[y][j]
  <2> SUFFICES ASSUME NEW j \in 1..k PROVE l[j] = leaderLog'[y][j]
    OBVIOUS
  <2>1. j \in 1..Len(leaderLog[y])
    BY <1>4, <1>5, SMTT(30)
  <2> QED
    BY <1>2, <1>3, <2>1 DEF Agree
<1> QED
  BY <1>1, <1>3, <1>5, <1>6, <1>7 DEF Agree

(* What was at a position of a leader's log is still there. *)
LEMMA HasGrows ==
    ASSUME LogsTyped, Grows, NEW l, NEW t \in DOMAIN leaderLog, NEW k \in Nat,
           k <= Len(leaderLog[t])
    PROVE  Has(l, t, k) <=> Has(l, t, k)'
<1>1. CASE k = 0
  BY <1>1, SMTT(30) DEF Has
<1>2. CASE k # 0
  <2>1. k \in 1..Len(leaderLog[t])
    BY <1>2, SMTT(30) DEF LogsTyped
  <2>2. leaderLog'[t][k] = leaderLog[t][k]
    BY <2>1 DEF Grows, Agree
  <2> QED
    BY <2>2 DEF Has
<1> QED
  BY <1>1, <1>2

(* The leader's own entries stay its own. *)
LEMMA OwnEntryGrows ==
    ASSUME LogsTyped, LogsTyped', Grows, NEW t \in DOMAIN leaderLog,
           NEW k \in 1..Len(leaderLog[t])
    PROVE  OwnEntry(t, k) <=> OwnEntry(t, k)'
<1>1. /\ leaderLog'[t][k] = leaderLog[t][k] /\ t \in DOMAIN leaderLog'
      /\ Len(leaderLog[t]) <= Len(leaderLog'[t])
  BY DEF Grows, Agree
<1>2. k \in 1..Len(leaderLog'[t])
  BY <1>1, SMTT(30) DEF LogsTyped
<1> QED
  BY <1>1, <1>2 DEF OwnEntry

(* A position that is chosen stays so. *)
LEMMA ChosenGrows ==
    ASSUME LogsTyped, LogsTyped', Grows, NEW t, NEW k, Chosen(t, k)
    PROVE  Chosen(t, k)'
<1>1. OwnEntry(t, k) /\ t \in DOMAIN leaderLog /\ k \in 1..Len(leaderLog[t])
  BY DEF Chosen, OwnEntry
<1>2. OwnEntry(t, k)'
  BY <1>1, OwnEntryGrows
<1>3. PICK Q \in Quorum : \A v \in Q : Acked(v, t, k)
  BY DEF Chosen
<1>4. \A v \in Q : Acked(v, t, k)'
  BY <1>3, AckedGrows
<1> QED
  BY <1>2, <1>4 DEF Chosen

(* What is decided stays decided, in every log that has it, in later terms. *)
LEMMA DecidedGrows ==
    ASSUME LogsTyped, LogsTyped', Grows, NEW l, NEW m, NEW k \in Nat,
           NEW x \in Nat, NEW y \in Nat, x <= y, DecidedIn(l, k, x),
           k \in 1..Len(m), m[k] = l[k]
    PROVE  DecidedIn(m, k, y)'
<1>1. PICK t \in DOMAIN leaderLog :
        /\ t <= x /\ Has(l, t, k)
        /\ \E n \in k..Len(leaderLog[t]) : Chosen(t, n)
  BY DEF DecidedIn
<1>2. PICK n \in k..Len(leaderLog[t]) : Chosen(t, n)
  BY <1>1
<1>3. /\ t \in Nat /\ t \in DOMAIN leaderLog' /\ t <= y
      /\ Len(leaderLog[t]) \in Nat /\ Len(leaderLog'[t]) \in Nat
      /\ Len(leaderLog[t]) <= Len(leaderLog'[t])
  BY <1>1, SMTT(30) DEF Grows, Agree, LogsTyped
<1>4. n \in k..Len(leaderLog'[t]) /\ k <= Len(leaderLog[t])
  BY <1>2, <1>3, SMTT(30)
<1>5. Chosen(t, n)'
  BY <1>2, ChosenGrows
<1>6. Has(m, t, k)
  BY <1>1 DEF Has
<1>7. Has(m, t, k)'
  BY <1>4, <1>6, HasGrows
<1> QED
  BY <1>3, <1>4, <1>5, <1>7 DEF DecidedIn

(* Arguments that are part of a log are part of one that continues it with *)
(* entries of their term.                                                  *)
LEMMA SegmentGrows ==
    ASSUME LogsTyped, LogsTyped', Grows, NEW args \in AppendEntriesArgs,
           NEW l \in Seq(LogEntry), NEW m \in Seq(LogEntry), Segment(args, l),
           Agree(l, m, Len(l)),
           \A k \in 1..Len(m) : k > Len(l) => m[k].Term = args.Term
    PROVE  Segment(args, m)'
<1> DEFINE prev == args.PrevLogIndex + 1
           last == prev + Len(args.Entries)
<1>1. /\ args.PrevLogIndex \in Nat /\ args.Entries \in Seq(LogEntry)
      /\ Len(args.Entries) \in Nat /\ args.Term \in Nat /\ args.LeaderCommit \in Int
      /\ Len(l) \in Nat /\ Len(m) \in Nat
  BY SMTT(30) DEF AppendEntriesArgs
<1>2. /\ last <= Len(l) /\ l[prev].Term = args.PrevLogTerm
      /\ \A j \in 1..Len(args.Entries) : args.Entries[j] = l[prev + j]
      /\ \A k \in 1..Len(l) : l[k].Term < args.Term => k <= last
      /\ \A n \in 1..args.LeaderCommit : DecidedIn(l, n + 1, args.Term)
  BY DEF Segment
<1>3. Len(l) <= Len(m) /\ \A j \in 1..Len(l) : l[j] = m[j]
  BY DEF Agree
<1>4. m[prev].Term = args.PrevLogTerm /\ last <= Len(m)
  <2>1. last <= Len(l) /\ l[prev].Term = args.PrevLogTerm
    BY <1>2
  <2>2. prev \in 1..Len(l)
    BY <1>1, <2>1, SMTT(30)
  <2> QED
    BY <1>1, <1>3, <2>1, <2>2, SMTT(30)
<1>5. \A j \in 1..Len(args.Entries) : args.Entries[j] = m[prev + j]
  <2> SUFFICES ASSUME NEW j \in 1..Len(args.Entries) PROVE args.Entries[j] = m[prev + j]
    OBVIOUS
  <2>1. last <= Len(l) /\ args.Entries[j] = l[prev + j]
    BY <1>2
  <2>2. prev + j \in 1..Len(l)
    BY <1>1, <2>1, SMTT(30)
  <2> QED
    BY <1>3, <2>1, <2>2
<1>6. \A k \in 1..Len(m) : m[k].Term < args.Term => k <= last
  <2> SUFFICES ASSUME NEW k \in 1..Len(m), m[k].Term < args.Term PROVE k <= last
    OBVIOUS
  <2>1. k \in 1..Len(l) /\ l[k] = m[k]
    BY <1>1, <1>3, SMTT(30)
  <2> QED
    BY <1>2, <2>1
<1>7. \A n \in 1..args.LeaderCommit : DecidedIn(m, n + 1, args.Term)'
  <2> SUFFICES ASSUME NEW n \in 1..args.LeaderCommit PROVE DecidedIn(m, n + 1, args.Term)'
    OBVIOUS
  <2>1. PICK i : i = n + 1
    OBVIOUS
  <2>2. DecidedIn(l, i, args.Term)
    BY <1>2, <2>1
  <2>3. i \in 1..Len(l)
    BY <2>2 DEF DecidedIn, Has
  <2>4. i \in Nat /\ i \in 1..Len(m) /\ m[i] = l[i]
    BY <1>1, <1>3, <2>3, SMTT(30)
  <2>5. DecidedIn(m, i, args.Term)'
    BY <1>1, <2>2, <2>4, DecidedGrows, SMTT(30)
  <2> QED
    BY <2>1, <2>5
<1> QED
  BY <1>4, <1>5, <1>6, <1>7 DEF Segment

(* A position never becomes choosable again. *)
LEMMA ChoosableShrinks ==
    ASSUME LogsTyped, LogsTyped', Grows, NEW t \in DOMAIN leaderLog,
           NEW k \in 1..Len(leaderLog[t]), Choosable(t, k)'
    PROVE  Choosable(t, k)
<1>1. OwnEntry(t, k)
  BY OwnEntryGrows DEF Choosable
<1>2. PICK Q \in Quorum : \A v \in Q : rf'[v].currentTerm <= t \/ Acked(v, t, k)'
  BY DEF Choosable
<1>3. ASSUME NEW v \in Q PROVE rf[v].currentTerm <= t \/ Acked(v, t, k)
  <2>1. v \in Server /\ t \in Nat
    BY DEF Quorum, LogsTyped
  <2>2. rf[v].currentTerm \in Nat /\ rf'[v].currentTerm \in Nat
        /\ rf[v].currentTerm <= rf'[v].currentTerm
    BY <2>1 DEF LogsTyped, Grows
  <2>3. CASE rf'[v].currentTerm <= t
    BY <2>1, <2>2, <2>3, SMTT(30)
  <2>4. CASE Acked(v, t, k)'
    BY <2>4 DEF Acked, Grows
  <2> QED
    BY <1>2, <2>3, <2>4
<1> QED
  BY <1>1, <1>3 DEF Choosable

(* What is chosen is choosable. *)
LEMMA ChosenChoosable ==
    ASSUME NEW t, NEW k, Chosen(t, k) PROVE Choosable(t, k)
BY DEF Chosen, Choosable

-----------------------------------------------------------------------------
(* Peers that store nothing *)

(* The log and commitIndex stay; a Leader, or a Candidate, can only leave   *)
(* its role for a newer term or, as a Candidate, to follow.                *)
Idle(p, q) ==
    /\ q.logs = p.logs /\ q.commitIndex = p.commitIndex
    /\ \/ /\ q.currentTerm = p.currentTerm
          /\ q.role = p.role \/ (q.role = "Follower" /\ p.role # "Leader")
          /\ q.role = "Leader" =>
                \A i \in Server : q.matchIndex[i] >= 1 => q.matchIndex[i] = p.matchIndex[i]
       \/ q.currentTerm > p.currentTerm /\ q.role # "Leader"

(* The recorded log of a leader is as good as before. *)
LEMMA LedgerKept ==
    ASSUME QuorumsGrow, LogsTyped, LogsTyped', Grows, NEW x \in DOMAIN leaderLog, LedgerOK(x),
           leaderLog'[x] = leaderLog[x]
    PROVE  LedgerOK(x)'
<1>1. PICK l : l = leaderLog[x]
  OBVIOUS
<1>2. l \in Seq(LogEntry) /\ Copied(l) /\ x \in Nat
  BY <1>1 DEF LogsTyped, LedgerOK
<1>3. Copied(l)'
  BY <1>2, CopiedGrows
<1>4. ASSUME x > 0
      PROVE  \E w \in Server : /\ Elected(w, x)'
                               /\ rf'[w].currentTerm >= x
                               /\ rf'[w].currentTerm = x => Leader(w)'
  <2>1. PICK w \in Server : /\ Elected(w, x)
                            /\ rf[w].currentTerm >= x
                            /\ rf[w].currentTerm = x => Leader(w)
    BY <1>4 DEF LedgerOK
  <2>2. Elected(w, x)'
    BY <2>1, ElectedGrows
  <2>3. /\ rf[w].currentTerm \in Nat /\ rf'[w].currentTerm \in Nat
        /\ rf[w].currentTerm <= rf'[w].currentTerm
        /\ rf'[w].currentTerm = rf[w].currentTerm /\ Leader(w) => Leader(w)'
    BY DEF LogsTyped, Grows
  <2> QED
    BY <1>2, <2>1, <2>2, <2>3, SMTT(30)
<1>5. Copied(leaderLog[x])'
  BY <1>1, <1>3
<1>6. \A k \in 1..Len(leaderLog'[x]) : leaderLog'[x][k].Term <= x
  BY DEF LedgerOK
<1> QED
  BY <1>4, <1>5, <1>6 DEF LedgerOK

(* So is the log of an idle peer. *)
LEMMA IdleLog ==
    ASSUME LogsTyped, LogsTyped', Grows, NEW s \in Server, Idle(rf[s], rf'[s]), LogOK(s)
    PROVE  LogOK(s)'
<1>1. PICK l : l = rf[s].logs
  OBVIOUS
<1>2. l \in Seq(LogEntry) /\ Copied(l) /\ rf'[s].logs = l
  BY <1>1 DEF LogsTyped, LogOK, Idle
<1>3. Copied(l)'
  BY <1>2, CopiedGrows
<1>4. Copied(rf[s].logs)'
  BY <1>2, <1>3
<1>5. ASSUME NEW k \in 1..Len(l)
      PROVE  /\ l[k].Term <= rf'[s].currentTerm
             /\ rf'[s].role = "Candidate" => l[k].Term < rf'[s].currentTerm
  <2>1. /\ l[k].Term \in Nat /\ rf[s].currentTerm \in Nat /\ rf'[s].currentTerm \in Nat
        /\ l[k].Term <= rf[s].currentTerm
        /\ rf[s].role = "Candidate" => l[k].Term < rf[s].currentTerm
    BY <1>1 DEF LogsTyped, LogOK
  <2> QED
    BY <2>1, SMTT(30) DEF Idle
<1> QED
  BY <1>2, <1>4, <1>5 DEF LogOK

(* A Leader that only idles leads as before. *)
LEMMA IdleLead ==
    ASSUME LogsTyped, LogsTyped', Grows, NEW s \in Server, Idle(rf[s], rf'[s]), LeadOK(s),
           Leader(s) => leaderLog'[rf[s].currentTerm] = leaderLog[rf[s].currentTerm]
    PROVE  LeadOK(s)'
<1> SUFFICES ASSUME Leader(s)' PROVE LeadOK(s)'
  BY DEF LeadOK
<1>1. PICK x : x = rf[s].currentTerm
  OBVIOUS
<1>2. PICK n : n = Len(rf[s].logs)
  OBVIOUS
<1>3. /\ Leader(s) /\ rf'[s].currentTerm = x /\ rf'[s].logs = rf[s].logs
      /\ \A i \in Server : rf'[s].matchIndex[i] >= 1 =>
            rf'[s].matchIndex[i] = rf[s].matchIndex[i]
  BY <1>1 DEF Idle, Leader
<1>4. /\ x \in DOMAIN leaderLog /\ leaderLog[x] = rf[s].logs /\ Acked(s, x, n)
      /\ \A i \in Server : rf[s].matchIndex[i] >= 1 => Acked(i, x, rf[s].matchIndex[i] + 1)
  BY <1>1, <1>2, <1>3 DEF LeadOK
<1>5. x \in DOMAIN leaderLog' /\ leaderLog'[x] = rf'[s].logs
  BY <1>1, <1>3, <1>4 DEF Grows
<1>6. Acked(s, x, n)'
  BY <1>4, AckedGrows
<1>7. ASSUME NEW i \in Server, rf'[s].matchIndex[i] >= 1
      PROVE  Acked(i, rf[s].currentTerm, rf[s].matchIndex[i] + 1)'
  <2>1. PICK j : j = rf[s].matchIndex[i] + 1
    OBVIOUS
  <2>2. Acked(i, x, j)
    BY <1>3, <1>4, <1>7, <2>1
  <2>3. Acked(i, x, j)'
    BY <2>2, AckedGrows
  <2> QED
    BY <1>3, <1>7, <2>1, <2>3
<1>8. Acked(s, rf[s].currentTerm, Len(rf[s].logs))'
  BY <1>2, <1>3, <1>6
<1> QED
  BY <1>3, <1>5, <1>7, <1>8 DEF LeadOK

(* What a peer has committed stays decided if its log is only continued. *)
LEMMA CommitKept ==
    ASSUME LogsTyped, LogsTyped', Grows, NEW s \in Server, CommitOK(s),
           rf'[s].commitIndex = rf[s].commitIndex,
           Agree(rf[s].logs, rf'[s].logs, Len(rf[s].logs))
    PROVE  CommitOK(s)'
<1> SUFFICES ASSUME NEW n \in 1..rf'[s].commitIndex
             PROVE  DecidedIn(rf[s].logs, n + 1, rf[s].currentTerm)'
  BY DEF CommitOK
<1>1. PICK l : l = rf[s].logs
  OBVIOUS
<1>2. PICK k : k = n + 1
  OBVIOUS
<1>3. PICK x : x = rf[s].currentTerm
  OBVIOUS
<1>4. PICK y : y = rf'[s].currentTerm
  OBVIOUS
<1>5. DecidedIn(l, k, x)
  BY <1>1, <1>2, <1>3 DEF CommitOK
<1>6. k \in Nat /\ k \in 1..Len(l)
  <2>1. k \in 1..Len(l)
    BY <1>5 DEF DecidedIn, Has
  <2> QED
    BY <2>1, SMTT(30)
<1>7. x \in Nat /\ y \in Nat /\ x <= y
  BY <1>3, <1>4 DEF LogsTyped, Grows
<1>8. PICK m : m = rf'[s].logs
  OBVIOUS
<1>9. k \in 1..Len(m) /\ m[k] = l[k]
  <2>1. Len(l) \in Nat /\ Len(m) \in Nat
    BY <1>1, <1>8 DEF LogsTyped
  <2>2. Len(l) <= Len(m) /\ \A j \in 1..Len(l) : l[j] = m[j]
    BY <1>1, <1>8 DEF Agree
  <2> QED
    BY <1>6, <2>1, <2>2, SMTT(30)
<1>10. DecidedIn(m, k, y)'
  BY <1>5, <1>6, <1>7, <1>9, DecidedGrows
<1> QED
  BY <1>2, <1>4, <1>8, <1>10

(* An acknowledgement stays within the log it is about. *)
LEMMA AckKept ==
    ASSUME LogsTyped, LogsTyped', Grows, NEW a \in acks, AckOK(a)
    PROVE  AckOK(a)'
<1>1. /\ a.peer \in Server /\ a.length \in Nat /\ a.term \in Nat
      /\ a.term \in DOMAIN leaderLog /\ a.term \in DOMAIN leaderLog'
      /\ Len(leaderLog[a.term]) <= Len(leaderLog'[a.term])
      /\ Len(leaderLog[a.term]) \in Nat /\ Len(leaderLog'[a.term]) \in Nat
  BY DEF AckOK, LogsTyped, Grows, Agree
<1>2. /\ rf[a.peer].currentTerm \in Nat /\ rf'[a.peer].currentTerm \in Nat
      /\ rf[a.peer].currentTerm <= rf'[a.peer].currentTerm
  BY <1>1 DEF LogsTyped, Grows
<1> QED
  BY <1>1, <1>2, SMTT(30) DEF AckOK

(* A vote request stays true of a candidate that stays one. *)
LEMMA RequestKept ==
    ASSUME VotesTyped, LogsTyped, LogsTyped', CallInv, VoteInv, Grows, NEW m \in voteRequests,
           RequestOK(m), rf'[m.from].role = "Candidate" => Idle(rf[m.from], rf'[m.from])
    PROVE  RequestOK(m)'
<1> SUFFICES ASSUME m.args.Term = rf'[m.from].currentTerm, rf'[m.from].role = "Candidate"
             PROVE  /\ m.args.LastLogIndex = LastLogicalIndex(rf'[m.from])
                    /\ m.args.LastLogTerm = LastLogTerm(rf'[m.from])
  BY DEF RequestOK, LastLogicalIndex, LastLogTerm, Entry, LastStorageIndex
<1>1. m.from \in Server /\ m.election \in DOMAIN elections[m.from] /\ m.args.Term \in Nat
  BY DEF VotesTyped, RequestVoteArgs
<1>2. m.args.Term <= rf[m.from].currentTerm
  BY <1>1 DEF CallInv, VoteInv
<1>3. /\ rf[m.from].currentTerm \in Nat /\ rf'[m.from].currentTerm \in Nat
      /\ rf[m.from].lastIncludedIndex = 0 /\ rf'[m.from].lastIncludedIndex = 0
  BY <1>1 DEF LogsTyped
<1>4. /\ rf[m.from].currentTerm = m.args.Term /\ rf[m.from].role = "Candidate"
      /\ rf'[m.from].logs = rf[m.from].logs
  BY <1>1, <1>2, <1>3, SMTT(30) DEF Idle
<1>5. /\ m.args.LastLogIndex = LastLogicalIndex(rf[m.from])
      /\ m.args.LastLogTerm = LastLogTerm(rf[m.from])
  BY <1>4 DEF RequestOK
<1>6. /\ LastLogicalIndex(rf[m.from]) = LastLogicalIndex(rf'[m.from])
      /\ LastLogTerm(rf[m.from]) = LastLogTerm(rf'[m.from])
  BY <1>3, <1>4 DEF LastLogicalIndex, LastLogTerm, Entry, LastStorageIndex
<1> QED
  BY <1>5, <1>6

(* The log of a peer that goes on campaigning or leading in its term is     *)
(* only continued, with entries of that term.                              *)
Continues(p, q) ==
    q.currentTerm = p.currentTerm /\ q.role # "Follower" =>
        /\ p.role # "Follower"
        /\ Agree(p.logs, q.logs, Len(p.logs))
        /\ \A k \in 1..Len(q.logs) : k > Len(p.logs) => q.logs[k].Term = q.currentTerm

(* An idle peer continues its log. *)
LEMMA IdleContinues ==
    ASSUME LogsTyped, NEW s \in Server, NEW q, Idle(rf[s], q)
    PROVE  Continues(rf[s], q)
<1>1. Len(rf[s].logs) \in Nat /\ rf[s].currentTerm \in Nat /\ q.logs = rf[s].logs
  BY DEF LogsTyped, Idle
<1>2. q.currentTerm = rf[s].currentTerm /\ q.role # "Follower" => rf[s].role # "Follower"
  BY <1>1, SMTT(30) DEF Idle
<1> QED
  BY <1>1, <1>2, SMTT(30) DEF Continues, Agree

(* An AppendEntries call stays true of a sender that continues its log. *)
LEMMA CallKept ==
    ASSUME QuorumsGrow, CallsTyped, LogsTyped, LogsTyped', Grows,
           NEW c \in appendCalls, CallOK(c),
           Continues(rf[c.from], rf'[c.from])
    PROVE  CallOK(c)'
<1>1. /\ c.from \in Server
      /\ c.pc \in {"ready", "request", "reply"} =>
            c.args \in AppendEntriesArgs /\ c.args.Term \in Nat
  BY DEF CallsTyped, AppendEntriesArgs
<1>2. /\ rf[c.from].currentTerm \in Nat /\ rf'[c.from].currentTerm \in Nat
      /\ rf[c.from].currentTerm <= rf'[c.from].currentTerm
  BY <1>1 DEF LogsTyped, Grows
<1>3. c.pc \in {"ready", "request", "reply"} => c.args.Term <= rf[c.from].currentTerm
  BY DEF CallOK
<1>4. c.pc \in {"ready", "request", "reply"} => c.args.Term <= rf'[c.from].currentTerm
  BY <1>1, <1>2, <1>3, SMTT(30)
<1>5. ASSUME c.pc = "ready", c.args.Term = rf'[c.from].currentTerm,
             rf'[c.from].role # "Follower"
      PROVE  Segment(c.args, rf[c.from].logs)'
  <2>1. PICK l : l = rf[c.from].logs
    OBVIOUS
  <2>2. PICK m : m = rf'[c.from].logs
    OBVIOUS
  <2>3. rf'[c.from].currentTerm = rf[c.from].currentTerm
    BY <1>1, <1>2, <1>3, <1>5, SMTT(30)
  <2>4. /\ rf[c.from].role # "Follower" /\ Agree(l, m, Len(l))
        /\ \A k \in 1..Len(m) : k > Len(l) => m[k].Term = c.args.Term
    BY <1>5, <2>1, <2>2, <2>3 DEF Continues
  <2>5. Segment(c.args, l)
    BY <1>5, <2>1, <2>3, <2>4 DEF CallOK
  <2>6. l \in Seq(LogEntry) /\ m \in Seq(LogEntry) /\ c.args \in AppendEntriesArgs
    BY <1>1, <1>5, <2>1, <2>2 DEF LogsTyped
  <2>7. Segment(c.args, m)'
    BY <2>4, <2>5, <2>6, SegmentGrows
  <2> QED
    BY <2>2, <2>7
<1>6. ASSUME c.pc = "request"
      PROVE  /\ c.args.Term \in DOMAIN leaderLog'
             /\ Elected(c.from, c.args.Term)'
             /\ Segment(c.args, leaderLog[c.args.Term])'
  <2>1. PICK x : x = c.args.Term
    OBVIOUS
  <2>2. PICK l : l = leaderLog[x]
    OBVIOUS
  <2>3. PICK m : m = leaderLog'[x]
    OBVIOUS
  <2>4. x \in DOMAIN leaderLog /\ Elected(c.from, x) /\ Segment(c.args, l)
    BY <1>6, <2>1, <2>2 DEF CallOK
  <2>5. /\ x \in DOMAIN leaderLog' /\ Agree(l, m, Len(l))
        /\ \A k \in 1..Len(m) : k > Len(l) => m[k].Term = c.args.Term
    BY <2>1, <2>2, <2>3, <2>4 DEF Grows
  <2>6. l \in Seq(LogEntry) /\ m \in Seq(LogEntry) /\ c.args \in AppendEntriesArgs
    BY <1>1, <1>6, <2>2, <2>3, <2>4, <2>5 DEF LogsTyped
  <2>7. Segment(c.args, m)'
    BY <2>4, <2>5, <2>6, SegmentGrows
  <2>8. Elected(c.from, x)'
    BY <2>4, ElectedGrows
  <2> QED
    BY <2>1, <2>3, <2>5, <2>7, <2>8
<1>7. ASSUME c.pc = "reply", c.reply.Success
      PROVE  Acked(c.to, c.args.Term, c.args.PrevLogIndex + 1 + Len(c.args.Entries))'
  BY <1>7, AckedGrows DEF CallOK
<1> QED
  BY <1>4, <1>5, <1>6, <1>7 DEF CallOK

(* A choice stands when the peers idle and the new votes are right. *)
LEMMA IdleChoice ==
    ASSUME LogsTyped, LogsTyped', Grows, UNCHANGED copyVars,
           \A s \in Server : rf'[s].logs = rf[s].logs,
           NEW t \in DOMAIN leaderLog, NEW k \in 1..Len(leaderLog[t]), ChoiceOK(t, k),
           \A g \in grants' : g.candidate \in Server,
           \A g \in grants' : Campaigns(g)' =>
                \/ g \in grants /\ Campaigns(g)
                \/ Choosable(t, k) => GrantOK(g, t, k)
    PROVE  ChoiceOK(t, k)'
<1> SUFFICES ASSUME Choosable(t, k)' PROVE ChoiceOK(t, k)'
  BY DEF ChoiceOK
<1>1. Choosable(t, k)
  BY ChoosableShrinks
<1>2. leaderLog' = leaderLog /\ acks' = acks
  BY DEF copyVars
<1>3. \A v \in Server : Acked(v, t, k)' => Has(rf[v].logs, t, k)'
  BY <1>1, <1>2 DEF ChoiceOK, Acked, Has
<1>4. \A x \in DOMAIN leaderLog' : x > t => Has(leaderLog[x], t, k)'
  BY <1>1, <1>2 DEF ChoiceOK, Has
<1>5. ASSUME NEW g \in grants', Campaigns(g)' PROVE GrantOK(g, t, k)'
  <2>1. GrantOK(g, t, k)
    BY <1>1, <1>5 DEF ChoiceOK
  <2> QED
    BY <1>2, <2>1 DEF GrantOK, Acked, Has
<1> QED
  BY <1>3, <1>4, <1>5 DEF ChoiceOK

(* The context of a step: both states are typed, votes are right. *)
Steady ==
    /\ QuorumsMeet /\ QuorumsGrow /\ QuorumsCount /\ QuorumsShared
    /\ LogsTyped /\ LogsTyped' /\ VotesTyped /\ VotesTyped' /\ CallsTyped
    /\ CallInv /\ VoteInv /\ VoteInv' /\ LeaderInv

(* Where all peers idle the history only gets new votes. *)
LEMMA IdleGrows ==
    ASSUME LogsTyped, LogsTyped', UNCHANGED copyVars, grants \subseteq grants',
           \A s \in Server : Idle(rf[s], rf'[s])
    PROVE  Grows
<1>1. leaderLog' = leaderLog /\ acks' = acks
  BY DEF copyVars
<1>2. ASSUME NEW t \in DOMAIN leaderLog
      PROVE  /\ Agree(leaderLog[t], leaderLog[t], Len(leaderLog[t]))
             /\ \A k \in 1..Len(leaderLog[t]) : ~(k > Len(leaderLog[t]))
  BY SMTT(30) DEF Agree, LogsTyped
<1>3. ASSUME NEW s \in Server
      PROVE  /\ rf[s].currentTerm <= rf'[s].currentTerm
             /\ rf'[s].currentTerm = rf[s].currentTerm /\ Leader(s) => Leader(s)'
  <2>1. rf[s].currentTerm \in Nat /\ rf'[s].currentTerm \in Nat
    BY DEF LogsTyped
  <2>2. Idle(rf[s], rf'[s])
    OBVIOUS
  <2> QED
    BY <2>1, <2>2, SMTT(30) DEF Idle, Leader
<1> QED
  BY <1>1, <1>2, <1>3 DEF Grows

(* A step is safe if what it leaves alone stays right and what it changes   *)
(* becomes right.                                                          *)
LEMMA StepSafe ==
    ASSUME Steady, Safe, Grows,
           \A x \in DOMAIN leaderLog' :
                (x \in DOMAIN leaderLog /\ leaderLog'[x] = leaderLog[x]) \/ LedgerOK(x)',
           \A s \in Server : \/ /\ Idle(rf[s], rf'[s])
                                /\ LeadOK(s)' \/ (Leader(s) => leaderLog'[rf[s].currentTerm]
                                                        = leaderLog[rf[s].currentTerm])
                             \/ LogOK(s)' /\ LeadOK(s)' /\ CommitOK(s)',
           \A a \in acks' : a \in acks \/ AckOK(a)',
           \A m \in voteRequests' :
                \/ /\ m \in voteRequests
                   /\ rf'[m.from].role = "Candidate" => Idle(rf[m.from], rf'[m.from])
                \/ RequestOK(m)',
           \A c \in appendCalls' :
                (c \in appendCalls /\ Continues(rf[c.from], rf'[c.from])) \/ CallOK(c)',
           ChoiceInv'
    PROVE  Safe'
<1>1. /\ QuorumsGrow /\ LogsTyped /\ LogsTyped' /\ VotesTyped /\ CallsTyped
      /\ CallInv /\ VoteInv
  BY DEF Steady
<1>2. LedgerInv'
  <2>1. ASSUME NEW x \in DOMAIN leaderLog' PROVE LedgerOK(x)'
    <3> SUFFICES ASSUME x \in DOMAIN leaderLog, leaderLog'[x] = leaderLog[x]
                 PROVE  LedgerOK(x)'
      BY <2>1
    <3>1. LedgerOK(x)
      BY DEF LedgerInv, Safe
    <3> QED
      BY <1>1, <3>1, LedgerKept
  <2>2. 0 \in DOMAIN leaderLog'
    BY DEF Grows, Safe, LedgerInv
  <2> QED
    BY <2>1, <2>2 DEF LedgerInv
<1>3. PeerInv'
  <2> SUFFICES ASSUME NEW s \in Server PROVE LogOK(s)' /\ LeadOK(s)' /\ CommitOK(s)'
    BY DEF PeerInv
  <2> SUFFICES ASSUME Idle(rf[s], rf'[s]),
                      LeadOK(s)' \/ (Leader(s) => leaderLog'[rf[s].currentTerm]
                                                   = leaderLog[rf[s].currentTerm])
               PROVE  LogOK(s)' /\ LeadOK(s)' /\ CommitOK(s)'
    OBVIOUS
  <2>1. LogOK(s) /\ LeadOK(s) /\ CommitOK(s)
    BY DEF Safe, PeerInv
  <2>2. LogOK(s)' /\ LeadOK(s)'
    BY <1>1, <2>1, IdleLog, IdleLead
  <2>3. /\ rf'[s].commitIndex = rf[s].commitIndex
        /\ Agree(rf[s].logs, rf'[s].logs, Len(rf[s].logs))
    BY <1>1, SMTT(30) DEF Idle, Agree, LogsTyped
  <2>4. CommitOK(s)'
    BY <1>1, <2>1, <2>3, CommitKept
  <2> QED
    BY <2>2, <2>4
<1>4. AckInv'
  <2> SUFFICES ASSUME NEW a \in acks PROVE AckOK(a)'
    BY DEF AckInv
  <2>1. AckOK(a)
    BY DEF Safe, AckInv
  <2> QED
    BY <1>1, <2>1, AckKept
<1>5. SentInv'
  <2>1. ASSUME NEW m \in voteRequests' PROVE RequestOK(m)'
    <3> SUFFICES ASSUME m \in voteRequests,
                        rf'[m.from].role = "Candidate" => Idle(rf[m.from], rf'[m.from])
                 PROVE  RequestOK(m)'
      BY <2>1
    <3>1. RequestOK(m)
      BY DEF Safe, SentInv
    <3> QED
      BY <1>1, <3>1, RequestKept
  <2>2. ASSUME NEW c \in appendCalls' PROVE CallOK(c)'
    <3> SUFFICES ASSUME c \in appendCalls, Continues(rf[c.from], rf'[c.from])
                 PROVE  CallOK(c)'
      BY <2>2
    <3>1. CallOK(c)
      BY DEF Safe, SentInv
    <3> QED
      BY <1>1, <3>1, CallKept
  <2> QED
    BY <2>1, <2>2 DEF SentInv
<1> QED
  BY <1>2, <1>3, <1>4, <1>5 DEF Safe

(* A step in which all peers idle is safe if the calls it makes and the     *)
(* votes it casts are right.                                               *)
LEMMA IdleStep ==
    ASSUME Steady, Safe, UNCHANGED copyVars, grants \subseteq grants',
           \A s \in Server : Idle(rf[s], rf'[s]),
           \A g \in grants' : g.candidate \in Server,
           \A g \in grants' : Campaigns(g)' =>
                \/ g \in grants /\ Campaigns(g)
                \/ \A t \in DOMAIN leaderLog : \A k \in 1..Len(leaderLog[t]) :
                        Choosable(t, k) => GrantOK(g, t, k),
           \A m \in voteRequests' : m \in voteRequests \/ RequestOK(m)',
           \A c \in appendCalls' : c \in appendCalls \/ CallOK(c)'
    PROVE  Safe'
<1>1. LogsTyped /\ LogsTyped' /\ VotesTyped /\ CallsTyped
  BY DEF Steady
<1>2. Grows
  BY <1>1, IdleGrows
<1>3. leaderLog' = leaderLog /\ acks' = acks
  BY DEF copyVars
<1>4. \A m \in voteRequests : Idle(rf[m.from], rf'[m.from])
  BY <1>1 DEF VotesTyped
<1>5. \A c \in appendCalls : Continues(rf[c.from], rf'[c.from])
  BY <1>1, IdleContinues DEF CallsTyped
<1>6. ChoiceInv'
  <2> SUFFICES ASSUME NEW t \in DOMAIN leaderLog, NEW k \in 1..Len(leaderLog[t])
               PROVE  ChoiceOK(t, k)'
    BY <1>3 DEF ChoiceInv
  <2>1. ChoiceOK(t, k)
    BY DEF Safe, ChoiceInv
  <2>2. /\ \A s \in Server : rf'[s].logs = rf[s].logs
        /\ \A g \in grants' : Campaigns(g)' =>
            \/ g \in grants /\ Campaigns(g)
            \/ Choosable(t, k) => GrantOK(g, t, k)
    BY DEF Idle
  <2> QED
    BY <1>1, <1>2, <2>1, <2>2, IdleChoice
<1> QED
  BY <1>2, <1>3, <1>4, <1>5, <1>6, StepSafe

-----------------------------------------------------------------------------
(* Steps that store entries or choose a leader *)

(* A choice stands if who stores its entry, leads or campaigns has it. *)
LEMMA ChoiceKept ==
    ASSUME LogsTyped, LogsTyped', Grows,
           NEW t \in DOMAIN leaderLog, NEW k \in 1..Len(leaderLog[t]),
           ASSUME Choosable(t, k)
           PROVE  /\ \A v \in Server : Acked(v, t, k)' => Has(rf'[v].logs, t, k)
                  /\ \A x \in DOMAIN leaderLog' : x > t => Has(leaderLog'[x], t, k)
                  /\ \A g \in grants' : Campaigns(g)' /\ g.term > t /\ Acked(g.voter, t, k)'
                        => Has(rf'[g.candidate].logs, t, k)
    PROVE  ChoiceOK(t, k)'
<1> SUFFICES ASSUME Choosable(t, k)' PROVE ChoiceOK(t, k)'
  BY DEF ChoiceOK
<1>1. Choosable(t, k)
  BY ChoosableShrinks
<1>2. /\ \A v \in Server : Acked(v, t, k)' => Has(rf'[v].logs, t, k)
      /\ \A x \in DOMAIN leaderLog' : x > t => Has(leaderLog'[x], t, k)
      /\ \A g \in grants' : Campaigns(g)' /\ g.term > t /\ Acked(g.voter, t, k)'
            => Has(rf'[g.candidate].logs, t, k)
  BY <1>1
<1>3. leaderLog'[t][k] = leaderLog[t][k]
  BY DEF Grows, Agree
<1>4. \A v \in Server : Acked(v, t, k)' => Has(rf[v].logs, t, k)'
  BY <1>2, <1>3 DEF Has
<1>5. \A x \in DOMAIN leaderLog' : x > t => Has(leaderLog[x], t, k)'
  BY <1>2, <1>3 DEF Has
<1>6. \A g \in grants' : Campaigns(g)' => GrantOK(g, t, k)'
  BY <1>2, <1>3 DEF Has, GrantOK
<1> QED
  BY <1>4, <1>5, <1>6 DEF ChoiceOK

(* A peer that does not change is idle. *)
LEMMA IdleReflexive == ASSUME NEW p PROVE Idle(p, p)
BY DEF Idle

(* Candidate u of term x, with the log l, becomes Leader with a majority    *)
(* of the votes.                                                           *)
Wins(u, x, l) ==
    /\ x = rf[u].currentTerm /\ l = rf[u].logs /\ rf[u].role = "Candidate" /\ Elected(u, x)
    /\ /\ Leader(u)' /\ rf'[u].currentTerm = x /\ rf'[u].logs = l
       /\ rf'[u].commitIndex = rf[u].commitIndex
       /\ \A i \in Server : ~(rf'[u].matchIndex[i] >= 1)
    /\ \A s \in Server \ {u} : rf'[s] = rf[s]
    /\ leaderLog' = [t \in DOMAIN leaderLog \cup {x} |-> IF t = x THEN l ELSE leaderLog[t]]
    /\ acks' = acks \cup {[peer |-> u, term |-> x, length |-> Len(l)]}
    /\ grants' = grants /\ voteRequests' = voteRequests /\ appendCalls' = appendCalls

(* A Candidate that becomes Leader keeps everything safe. *)
LEMMA WinStep ==
    ASSUME Steady, Safe, NEW u \in Server, NEW x, NEW l, Wins(u, x, l)
    PROVE  Safe'
(* It is the first leader of this term, with a log of earlier terms. *)
<1>First. /\ x \in Nat /\ l \in Seq(LogEntry) /\ Len(l) \in Nat /\ Copied(l)
          /\ \A k \in 1..Len(l) : l[k].Term \in Nat /\ l[k].Term < x
          /\ x \notin DOMAIN leaderLog
          /\ DOMAIN leaderLog' = DOMAIN leaderLog \cup {x} /\ leaderLog'[x] = l
          /\ \A t \in DOMAIN leaderLog : leaderLog'[t] = leaderLog[t]
  <2>1. /\ x = rf[u].currentTerm /\ l = rf[u].logs /\ rf[u].role = "Candidate"
        /\ Elected(u, x)
        /\ leaderLog' = [t \in DOMAIN leaderLog \cup {x} |-> IF t = x THEN l ELSE leaderLog[t]]
    BY DEF Wins
  <2>2. QuorumsMeet /\ LogsTyped /\ VoteInv /\ LedgerInv /\ LogOK(u)
    BY DEF Steady, Safe, PeerInv
  <2>3. /\ l \in Seq(LogEntry) /\ Len(l) \in Nat /\ Len(l) > 0 /\ x \in Nat
        /\ \A k \in 1..Len(l) : l[k].Term \in Nat
    BY <2>1, <2>2 DEF LogsTyped
  <2>4. Copied(l) /\ \A k \in 1..Len(l) : l[k].Term < x
    BY <2>1, <2>2 DEF LogOK
  <2>5. x > 0
    BY <2>3, <2>4, SMTT(30)
  <2>6. x \notin DOMAIN leaderLog
    <3> SUFFICES ASSUME x \in DOMAIN leaderLog PROVE FALSE
      OBVIOUS
    <3>1. PICK w \in Server : Elected(w, x) /\ (rf[w].currentTerm = x => Leader(w))
      BY <2>2, <2>5 DEF LedgerInv, LedgerOK
    <3>2. w = u
      BY <2>1, <2>2, <3>1, OneElected
    <3> QED
      BY <2>1, <3>1, <3>2 DEF Leader
  <2> QED
    BY <2>1, <2>3, <2>4, <2>6
<1>Grows. Grows
  <2>1. /\ DOMAIN leaderLog' = DOMAIN leaderLog \cup {x}
        /\ \A t \in DOMAIN leaderLog : leaderLog'[t] = leaderLog[t]
    BY <1>First
  <2>2. /\ rf'[u].currentTerm = x /\ x = rf[u].currentTerm /\ Leader(u)'
        /\ \A s \in Server \ {u} : rf'[s] = rf[s]
        /\ acks' = acks \cup {[peer |-> u, term |-> x, length |-> Len(l)]} /\ grants' = grants
    BY DEF Wins
  <2>3. \A t \in DOMAIN leaderLog : Len(leaderLog[t]) \in Nat
    BY DEF Steady, LogsTyped
  <2>4. \A s \in Server : rf[s].currentTerm \in Nat
    BY DEF Steady, LogsTyped
  <2>5. \A t \in DOMAIN leaderLog :
          /\ Agree(leaderLog[t], leaderLog'[t], Len(leaderLog[t]))
          /\ \A k \in 1..Len(leaderLog'[t]) :
              k > Len(leaderLog[t]) => leaderLog'[t][k].Term = t
    BY <2>1, <2>3, SMTT(30) DEF Agree
  <2>6. \A a \in acks' \ acks : rf[a.peer].currentTerm <= a.term
    BY <2>2, <2>4, SMTT(30)
  <2>7. ASSUME NEW s \in Server
        PROVE  /\ rf[s].currentTerm <= rf'[s].currentTerm
               /\ rf'[s].currentTerm = rf[s].currentTerm /\ Leader(s) => Leader(s)'
    BY <2>2, <2>4, SMTT(30) DEF Leader
  <2> QED
    BY <2>1, <2>2, <2>5, <2>6, <2>7 DEF Grows
(* Its log becomes the one of the term, and counts as stored by itself. *)
<1>Lead. LedgerOK(x)' /\ LogOK(u)' /\ LeadOK(u)' /\ CommitOK(u)'
  <2>1. /\ x \in Nat /\ l \in Seq(LogEntry) /\ Len(l) \in Nat /\ Copied(l)
        /\ \A k \in 1..Len(l) : l[k].Term \in Nat /\ l[k].Term < x
        /\ x \in DOMAIN leaderLog' /\ leaderLog'[x] = l /\ Grows
    BY <1>First, <1>Grows
  <2>2. /\ l = rf[u].logs /\ Elected(u, x) /\ Leader(u)' /\ rf'[u].currentTerm = x
        /\ rf'[u].logs = l /\ rf'[u].commitIndex = rf[u].commitIndex
        /\ \A i \in Server : ~(rf'[u].matchIndex[i] >= 1)
    BY DEF Wins
  <2>3. QuorumsGrow /\ LogsTyped /\ LogsTyped' /\ CommitOK(u)
    BY DEF Steady, Safe, PeerInv
  <2>4. Copied(l)' /\ Elected(u, x)'
    BY <2>1, <2>2, <2>3, CopiedGrows, ElectedGrows
  <2>5. \A k \in 1..Len(l) : l[k].Term <= x
    BY <2>1, SMTT(30)
  <2>6. LedgerOK(x)'
    <3>1. Copied(leaderLog[x])' /\ rf'[u].currentTerm >= x
      BY <2>1, <2>2, <2>4, SMTT(30)
    <3> QED
      BY <2>1, <2>2, <2>4, <2>5, <3>1 DEF LedgerOK
  <2>7. LogOK(u)'
    <3>1. Copied(rf[u].logs)'
      BY <2>2, <2>4
    <3> QED
      BY <2>2, <2>5, <3>1 DEF LogOK, Leader
  <2>8. LeadOK(u)'
    <3> DEFINE a == [peer |-> u, term |-> x, length |-> Len(l)]
    <3>1. a \in acks' /\ a.peer = u /\ a.term = x /\ a.length >= Len(l)
      BY <2>1, SMTT(30) DEF Wins
    <3>2. Acked(u, x, Len(l))'
      BY <3>1 DEF Acked
    <3>3. Acked(u, rf[u].currentTerm, Len(rf[u].logs))'
      BY <2>2, <3>2
    <3> QED
      BY <2>1, <2>2, <3>3 DEF LeadOK
  <2>9. CommitOK(u)'
    <3>1. Agree(rf[u].logs, rf'[u].logs, Len(rf[u].logs))
      BY <2>1, <2>2, SMTT(30) DEF Agree
    <3> QED
      BY <2>1, <2>2, <2>3, <3>1, CommitKept
  <2> QED
    BY <2>6, <2>7, <2>8, <2>9
(* Its majority meets every other one, so its log has all that earlier      *)
(* leaders may still get stored by a majority.                             *)
<1>Has. ASSUME NEW t \in DOMAIN leaderLog, NEW k \in 1..Len(leaderLog[t]), Choosable(t, k), x > t
        PROVE  Has(l, t, k)
  <2> USE <1>Has
  <2>1. /\ x = rf[u].currentTerm /\ l = rf[u].logs /\ rf[u].role = "Candidate"
        /\ Elected(u, x)
    BY DEF Wins
  <2>2. QuorumsMeet /\ LogsTyped /\ VotesTyped /\ VoteInv
    BY DEF Steady
  <2>3. PICK Q \in Quorum : \A v \in Q : rf[v].currentTerm <= t \/ Acked(v, t, k)
    BY DEF Choosable
  <2>4. Voters(u, x) \in Quorum
    BY <2>1 DEF Quorum, Voters, Elected
  <2>5. PICK v \in Server : v \in Q /\ v \in Voters(u, x)
    BY <2>2, <2>3, <2>4 DEF QuorumsMeet
  <2>6. rf[v].currentTerm >= x /\ rf[v].currentTerm \in Nat /\ x \in Nat /\ t \in Nat
    BY <2>1, <2>2, <2>5, VotersBeyond DEF LogsTyped
  <2>7. Acked(v, t, k)
    BY <2>3, <2>5, <2>6, SMTT(30)
  <2>8. PICK g : g = Vote(v, x, u)
    OBVIOUS
  <2>9. g \in grants /\ g.voter = v /\ g.term = x /\ g.candidate = u
    BY <2>5, <2>8 DEF Voters, Vote
  <2>10. GrantOK(g, t, k)
    BY <2>1, <2>9 DEF Safe, ChoiceInv, ChoiceOK, Campaigns
  <2> QED
    BY <2>1, <2>7, <2>9, <2>10 DEF GrantOK
<1>Choice. ChoiceInv'
  <2>1. /\ \A k \in 1..Len(l) : l[k].Term \in Nat /\ l[k].Term < x
        /\ x \in Nat /\ x \notin DOMAIN leaderLog /\ Grows
        /\ DOMAIN leaderLog' = DOMAIN leaderLog \cup {x} /\ leaderLog'[x] = l
        /\ \A t \in DOMAIN leaderLog : leaderLog'[t] = leaderLog[t]
    BY <1>First, <1>Grows
  <2>2. /\ Leader(u)' /\ \A s \in Server : rf'[s].logs = rf[s].logs
        /\ grants' = grants /\ \A s \in Server \ {u} : rf'[s] = rf[s]
        /\ acks' = acks \cup {[peer |-> u, term |-> x, length |-> Len(l)]}
    BY DEF Wins
  <2>3. LogsTyped /\ LogsTyped' /\ \A g \in grants : g.candidate \in Server
    BY DEF Steady, VotesTyped
  <2> SUFFICES ASSUME NEW t \in DOMAIN leaderLog', NEW k \in 1..Len(leaderLog'[t])
               PROVE  ChoiceOK(t, k)'
    BY DEF ChoiceInv
  <2>4. CASE t = x
    <3>1. ~OwnEntry(t, k)'
      BY <2>1, <2>4, SMTT(30) DEF OwnEntry
    <3> QED
      BY <3>1 DEF ChoiceOK, Choosable
  <2>5. CASE t # x
    <3>1. t \in DOMAIN leaderLog /\ k \in 1..Len(leaderLog[t])
      BY <2>1, <2>5
    <3>2. ASSUME NEW v, Acked(v, t, k)' PROVE Acked(v, t, k)
      BY <2>2, <2>5, <3>2, SMTT(30) DEF Acked
    <3>3. ASSUME Choosable(t, k)
          PROVE  /\ \A v \in Server : Acked(v, t, k)' => Has(rf'[v].logs, t, k)
                 /\ \A y \in DOMAIN leaderLog' : y > t => Has(leaderLog'[y], t, k)
                 /\ \A g \in grants' : Campaigns(g)' /\ g.term > t /\ Acked(g.voter, t, k)'
                       => Has(rf'[g.candidate].logs, t, k)
      <4>1. /\ \A v \in Server : Acked(v, t, k) => Has(rf[v].logs, t, k)
            /\ \A y \in DOMAIN leaderLog : y > t => Has(leaderLog[y], t, k)
            /\ \A g \in grants : Campaigns(g) => GrantOK(g, t, k)
        BY <3>1, <3>3 DEF Safe, ChoiceInv, ChoiceOK
      <4>2. x > t => Has(l, t, k)
        BY <3>1, <3>3, <1>Has
      <4>3. ASSUME NEW g \in grants', Campaigns(g)', g.term > t, Acked(g.voter, t, k)'
            PROVE  Has(rf'[g.candidate].logs, t, k)
        <5>1. g \in grants /\ g.candidate \in Server /\ g.candidate # u
          BY <2>2, <2>3, <4>3 DEF Campaigns, Leader
        <5>2. Campaigns(g)
          BY <2>2, <4>3, <5>1 DEF Campaigns
        <5> QED
          BY <2>2, <3>2, <4>1, <4>3, <5>1, <5>2 DEF GrantOK
      <4> QED
        BY <2>1, <2>2, <3>2, <4>1, <4>2, <4>3
    <3> QED
      BY <2>1, <2>3, <3>1, <3>3, ChoiceKept
  <2> QED
    BY <2>4, <2>5
<1>1. /\ Grows /\ LedgerOK(x)' /\ LogOK(u)' /\ LeadOK(u)' /\ CommitOK(u)' /\ ChoiceInv'
      /\ DOMAIN leaderLog' = DOMAIN leaderLog \cup {x} /\ leaderLog'[x] = l
      /\ \A t \in DOMAIN leaderLog : leaderLog'[t] = leaderLog[t]
      /\ x \in Nat /\ Len(l) \in Nat
  BY <1>First, <1>Grows, <1>Lead, <1>Choice
<1>2. /\ Leader(u)' /\ rf'[u].currentTerm = x /\ rf[u].role = "Candidate"
      /\ rf'[u].logs = rf[u].logs
      /\ \A s \in Server \ {u} : rf'[s] = rf[s]
      /\ acks' = acks \cup {[peer |-> u, term |-> x, length |-> Len(l)]}
      /\ voteRequests' = voteRequests /\ appendCalls' = appendCalls
  BY DEF Wins
<1>3. LogsTyped /\ VotesTyped /\ CallsTyped
  BY DEF Steady
<1>4. \A s \in Server \ {u} :
        /\ Idle(rf[s], rf'[s])
        /\ Leader(s) => leaderLog'[rf[s].currentTerm] = leaderLog[rf[s].currentTerm]
  BY <1>1, <1>2, IdleReflexive DEF Safe, PeerInv, LeadOK
<1>5. \A a \in acks' : a \in acks \/ AckOK(a)'
  <2> SUFFICES ASSUME NEW a, a = [peer |-> u, term |-> x, length |-> Len(l)] PROVE AckOK(a)'
    BY <1>2
  <2>1. Len(l) <= Len(leaderLog'[x]) /\ x <= rf'[u].currentTerm /\ x \in DOMAIN leaderLog'
    BY <1>1, <1>2, SMTT(30)
  <2> QED
    BY <2>1 DEF AckOK
<1>6. \A r \in voteRequests' :
        r \in voteRequests /\ (rf'[r.from].role = "Candidate" => Idle(rf[r.from], rf'[r.from]))
  BY <1>2, <1>3, <1>4 DEF VotesTyped, Leader
<1>7. \A c \in appendCalls' : c \in appendCalls /\ Continues(rf[c.from], rf'[c.from])
  <2> SUFFICES ASSUME NEW c \in appendCalls PROVE Continues(rf[c.from], rf'[c.from])
    BY <1>2
  <2>1. CASE c.from = u
    BY <1>2, <1>3, <2>1, SMTT(30) DEF Continues, Agree, LogsTyped
  <2>2. CASE c.from # u
    BY <1>3, <1>4, <2>2, IdleContinues DEF CallsTyped
  <2> QED
    BY <2>1, <2>2
<1>8. \A t \in DOMAIN leaderLog' :
        (t \in DOMAIN leaderLog /\ leaderLog'[t] = leaderLog[t]) \/ LedgerOK(t)'
  BY <1>1
<1> QED
  BY <1>1, <1>4, <1>5, <1>6, <1>7, <1>8, StepSafe

(* Leader s of term x with the log l appends an entry, and has the log m. *)
Extends(s, x, l, m) ==
    /\ x = rf[s].currentTerm /\ l = rf[s].logs /\ Leader(s)
    /\ /\ m \in Seq(LogEntry) /\ Len(m) = Len(l) + 1
       /\ Agree(l, m, Len(l)) /\ m[Len(m)].Term = x
    /\ /\ Leader(s)' /\ rf'[s].currentTerm = x /\ rf'[s].logs = m
       /\ rf'[s].commitIndex = rf[s].commitIndex /\ rf'[s].matchIndex = rf[s].matchIndex
    /\ \A u \in Server \ {s} : rf'[u] = rf[u]
    /\ leaderLog' = [t \in DOMAIN leaderLog \cup {x} |-> IF t = x THEN m ELSE leaderLog[t]]
    /\ acks' = acks \cup {[peer |-> s, term |-> x, length |-> Len(m)]}
    /\ grants' = grants /\ voteRequests' = voteRequests /\ appendCalls' = appendCalls

(* A Leader that appends an entry keeps everything safe. *)
LEMMA ExtendStep ==
    ASSUME Steady, Safe, NEW s \in Server, NEW x, NEW l, NEW m, Extends(s, x, l, m)
    PROVE  Safe'
(* The log of its term grows by that entry. *)
<1>Log. /\ x \in Nat /\ Len(l) \in Nat /\ Len(m) \in Nat /\ Len(m) = Len(l) + 1
        /\ Copied(l) /\ m[Len(m)].Term = x
        /\ \A k \in 1..Len(m) : k \in 1..Len(l) \/ k = Len(m)
        /\ \A k \in 1..Len(l) : k \in 1..Len(m) /\ m[k] = l[k] /\ l[k].Term <= x
        /\ \A k \in 1..Len(m) : m[k].Term <= x
        /\ x \in DOMAIN leaderLog /\ leaderLog[x] = l
        /\ DOMAIN leaderLog' = DOMAIN leaderLog /\ leaderLog'[x] = m
        /\ \A t \in DOMAIN leaderLog : t # x => leaderLog'[t] = leaderLog[t]
  <2>1. /\ x = rf[s].currentTerm /\ l = rf[s].logs /\ Leader(s)
        /\ Len(m) = Len(l) + 1 /\ Agree(l, m, Len(l)) /\ m[Len(m)].Term = x
        /\ leaderLog' = [t \in DOMAIN leaderLog \cup {x} |-> IF t = x THEN m ELSE leaderLog[t]]
    BY DEF Extends
  <2>2. x \in Nat /\ Len(l) \in Nat /\ Len(l) > 0
    BY <2>1 DEF Steady, LogsTyped
  <2>3. Copied(l) /\ \A k \in 1..Len(l) : l[k].Term <= x
    BY <2>1 DEF Safe, PeerInv, LogOK
  <2>4. x \in DOMAIN leaderLog /\ leaderLog[x] = l
    BY <2>1 DEF Safe, PeerInv, LeadOK
  <2>5. \A k \in 1..Len(m) : k \in 1..Len(l) \/ k = Len(m)
    BY <2>1, <2>2, SMTT(30)
  <2>6. \A k \in 1..Len(l) : k \in 1..Len(m) /\ m[k] = l[k]
    BY <2>1, <2>2, SMTT(30) DEF Agree
  <2>7. \A k \in 1..Len(m) : m[k].Term <= x
    BY <2>1, <2>2, <2>3, <2>5, <2>6, SMTT(30)
  <2>8. Len(m) \in Nat
    BY <2>1, <2>2, SMTT(30)
  <2>9. /\ DOMAIN leaderLog' = DOMAIN leaderLog /\ leaderLog'[x] = m
        /\ \A t \in DOMAIN leaderLog : t # x => leaderLog'[t] = leaderLog[t]
    BY <2>1, <2>4
  <2> QED
    BY <2>1, <2>2, <2>3, <2>4, <2>5, <2>6, <2>7, <2>8, <2>9
<1>Grows. Grows
  <2>1. /\ x = rf[s].currentTerm /\ Agree(l, m, Len(l)) /\ Leader(s)' /\ rf'[s].currentTerm = x
        /\ \A u \in Server \ {s} : rf'[u] = rf[u]
        /\ acks' = acks \cup {[peer |-> s, term |-> x, length |-> Len(m)]} /\ grants' = grants
    BY DEF Extends
  <2>2. /\ m[Len(m)].Term = x /\ Len(m) \in Nat /\ Len(l) \in Nat
        /\ \A k \in 1..Len(m) : k \in 1..Len(l) \/ k = Len(m)
        /\ leaderLog[x] = l /\ DOMAIN leaderLog' = DOMAIN leaderLog /\ leaderLog'[x] = m
        /\ \A t \in DOMAIN leaderLog : t # x => leaderLog'[t] = leaderLog[t]
    BY <1>Log
  <2>3. /\ \A t \in DOMAIN leaderLog : Len(leaderLog[t]) \in Nat
        /\ \A u \in Server : rf[u].currentTerm \in Nat
    BY DEF Steady, LogsTyped
  <2>4. ASSUME NEW t \in DOMAIN leaderLog
        PROVE  /\ Agree(leaderLog[t], leaderLog'[t], Len(leaderLog[t]))
               /\ \A k \in 1..Len(leaderLog'[t]) :
                      k > Len(leaderLog[t]) => leaderLog'[t][k].Term = t
    <3>1. CASE t = x
      BY <2>1, <2>2, <3>1, SMTT(30)
    <3>2. CASE t # x
      BY <2>2, <2>3, <3>2, SMTT(30) DEF Agree
    <3> QED
      BY <3>1, <3>2
  <2>5. \A a \in acks' \ acks : rf[a.peer].currentTerm <= a.term
    BY <2>1, <2>3, SMTT(30)
  <2>6. ASSUME NEW u \in Server
        PROVE  /\ rf[u].currentTerm <= rf'[u].currentTerm
               /\ rf'[u].currentTerm = rf[u].currentTerm /\ Leader(u) => Leader(u)'
    BY <2>1, <2>3, SMTT(30) DEF Leader
  <2> QED
    BY <2>1, <2>2, <2>4, <2>5, <2>6 DEF Grows
<1>Copied. Copied(m)'
  <2>1. /\ x \in Nat /\ Len(l) \in Nat /\ Len(m) \in Nat /\ Copied(l) /\ m[Len(m)].Term = x
        /\ \A k \in 1..Len(m) : k \in 1..Len(l) \/ k = Len(m)
        /\ \A k \in 1..Len(l) : k \in 1..Len(m) /\ m[k] = l[k]
        /\ x \in DOMAIN leaderLog' /\ leaderLog'[x] = m
    BY <1>Log
  <2>2. LogsTyped /\ LogsTyped' /\ Grows /\ l = rf[s].logs /\ l \in Seq(LogEntry)
    BY <1>Grows DEF Steady, Extends, LogsTyped
  <2>3. Copied(l)'
    BY <2>1, <2>2, CopiedGrows
  <2> SUFFICES ASSUME NEW k \in 1..Len(m)
               PROVE  m[k].Term \in DOMAIN leaderLog' /\ Agree(m, leaderLog'[m[k].Term], k)
    BY <2>1, <2>3, SMTT(30) DEF Copied
  <2>4. CASE k \in 1..Len(l)
    <3>1. /\ l[k].Term \in DOMAIN leaderLog' /\ Agree(l, leaderLog'[l[k].Term], k)
          /\ m[k] = l[k]
      BY <2>1, <2>3, <2>4 DEF Copied
    <3> QED
      BY <2>1, <2>4, <3>1, SMTT(30) DEF Agree
  <2>5. CASE k = Len(m)
    BY <2>1, <2>5, SMTT(30) DEF Agree
  <2> QED
    BY <2>1, <2>4, <2>5
<1>Lead. LedgerOK(x)' /\ LogOK(s)' /\ LeadOK(s)' /\ CommitOK(s)'
  <2>1. /\ x = rf[s].currentTerm /\ l = rf[s].logs /\ Agree(l, m, Len(l))
        /\ Leader(s) /\ Leader(s)' /\ rf'[s].currentTerm = x /\ rf'[s].logs = m
        /\ rf'[s].commitIndex = rf[s].commitIndex /\ rf'[s].matchIndex = rf[s].matchIndex
        /\ \A u \in Server \ {s} : rf'[u] = rf[u]
    BY DEF Extends
  <2>2. /\ x \in Nat /\ Len(m) \in Nat /\ x \in DOMAIN leaderLog
        /\ x \in DOMAIN leaderLog' /\ leaderLog'[x] = m
        /\ \A k \in 1..Len(m) : m[k].Term <= x
    BY <1>Log
  <2>3. QuorumsGrow /\ LogsTyped /\ LogsTyped' /\ CommitOK(s) /\ LedgerOK(x) /\ Grows
    BY <2>2, <1>Grows DEF Steady, Safe, PeerInv, LedgerInv
  <2>4. Copied(m)'
    BY <1>Copied
  <2>5. LedgerOK(x)'
    <3>1. Copied(leaderLog[x])'
      BY <2>2, <2>4
    <3>2. ASSUME x > 0
          PROVE  \E w \in Server : /\ Elected(w, x)'
                                   /\ rf'[w].currentTerm >= x
                                   /\ rf'[w].currentTerm = x => Leader(w)'
      <4>1. PICK w \in Server : /\ Elected(w, x)
                                /\ rf[w].currentTerm >= x
                                /\ rf[w].currentTerm = x => Leader(w)
        BY <2>3, <3>2 DEF LedgerOK
      <4>2. Elected(w, x)'
        BY <2>3, <4>1, ElectedGrows
      <4> QED
        BY <2>1, <4>1, <4>2 DEF Leader
    <3> QED
      BY <2>2, <3>1, <3>2 DEF LedgerOK
  <2>6. LogOK(s)'
    <3>1. Copied(rf[s].logs)'
      BY <2>1, <2>4
    <3> QED
      BY <2>1, <2>2, <3>1 DEF LogOK, Leader
  <2>7. LeadOK(s)'
    <3>1. Acked(s, x, Len(m))'
      <4> DEFINE a == [peer |-> s, term |-> x, length |-> Len(m)]
      <4>1. a \in acks' /\ a.peer = s /\ a.term = x /\ a.length >= Len(m)
        BY <2>2, SMTT(30) DEF Extends
      <4> QED
        BY <4>1 DEF Acked
    <3>2. ASSUME NEW i \in Server, rf'[s].matchIndex[i] >= 1
          PROVE  Acked(i, rf[s].currentTerm, rf[s].matchIndex[i] + 1)'
      <4>1. PICK j : j = rf[s].matchIndex[i] + 1
        OBVIOUS
      <4>2. Acked(i, x, j)
        BY <2>1, <3>2, <4>1 DEF Safe, PeerInv, LeadOK
      <4>3. Acked(i, x, j)'
        BY <2>3, <4>2, AckedGrows
      <4> QED
        BY <2>1, <4>1, <4>3
    <3>3. Acked(s, rf[s].currentTerm, Len(rf[s].logs))'
      BY <2>1, <3>1
    <3> QED
      BY <2>1, <2>2, <3>2, <3>3 DEF LeadOK
  <2>8. CommitOK(s)'
    BY <2>1, <2>3, CommitKept
  <2> QED
    BY <2>5, <2>6, <2>7, <2>8
(* What may have been decided before stays where it was. *)
<1>Old. ASSUME NEW t \in DOMAIN leaderLog, NEW k \in 1..Len(leaderLog[t])
        PROVE  ChoiceOK(t, k)'
  <2> USE <1>Old
  <2>1. /\ x = rf[s].currentTerm /\ l = rf[s].logs /\ Leader(s)' /\ rf'[s].logs = m
        /\ \A u \in Server \ {s} : rf'[u] = rf[u]
        /\ acks' = acks \cup {[peer |-> s, term |-> x, length |-> Len(m)]} /\ grants' = grants
    BY DEF Extends
  <2>2. /\ x \in Nat /\ \A j \in 1..Len(l) : j \in 1..Len(m) /\ m[j] = l[j]
        /\ leaderLog[x] = l /\ DOMAIN leaderLog' = DOMAIN leaderLog /\ leaderLog'[x] = m
        /\ \A y \in DOMAIN leaderLog : y # x => leaderLog'[y] = leaderLog[y]
    BY <1>Log
  <2>3. /\ LogsTyped /\ LogsTyped' /\ Grows /\ t \in Nat
        /\ \A g \in grants : /\ g.candidate \in Server /\ g.term \in Nat
                             /\ g.voter = s => g.term <= x
    BY <2>1, <1>Grows DEF Steady, VotesTyped, VoteInv, LogsTyped
  <2>4. ASSUME NEW u \in Server, Has(rf[u].logs, t, k) PROVE Has(rf'[u].logs, t, k)
    BY <2>1, <2>2, <2>4 DEF Has
  <2>5. ASSUME NEW y \in DOMAIN leaderLog, Has(leaderLog[y], t, k)
        PROVE  Has(leaderLog'[y], t, k)
    BY <2>2, <2>5 DEF Has
  <2>6. ASSUME NEW v, Acked(v, t, k)' PROVE Acked(v, t, k) \/ (v = s /\ t = x)
    BY <2>1, <2>6, SMTT(30) DEF Acked
  <2>7. ASSUME Choosable(t, k)
        PROVE  /\ \A v \in Server : Acked(v, t, k)' => Has(rf'[v].logs, t, k)
               /\ \A y \in DOMAIN leaderLog' : y > t => Has(leaderLog'[y], t, k)
               /\ \A g \in grants' : Campaigns(g)' /\ g.term > t /\ Acked(g.voter, t, k)'
                     => Has(rf'[g.candidate].logs, t, k)
    <3>1. /\ \A v \in Server : Acked(v, t, k) => Has(rf[v].logs, t, k)
          /\ \A y \in DOMAIN leaderLog : y > t => Has(leaderLog[y], t, k)
          /\ \A g \in grants : Campaigns(g) => GrantOK(g, t, k)
      BY <2>7 DEF Safe, ChoiceInv, ChoiceOK
    <3>2. t = x => Has(rf[s].logs, t, k)
      BY <2>1, <2>2 DEF Has
    <3>3. ASSUME NEW g \in grants', Campaigns(g)', g.term > t, Acked(g.voter, t, k)'
          PROVE  Has(rf'[g.candidate].logs, t, k)
      <4>1. g \in grants /\ g.candidate \in Server /\ g.candidate # s
        BY <2>1, <2>3, <3>3 DEF Campaigns, Leader
      <4>2. Campaigns(g)
        BY <2>1, <3>3, <4>1 DEF Campaigns
      <4>3. Acked(g.voter, t, k)
        BY <2>2, <2>3, <2>6, <3>3, <4>1, SMTT(30)
      <4> QED
        BY <2>4, <3>1, <3>3, <4>1, <4>2, <4>3 DEF GrantOK
    <3> QED
      BY <2>2, <2>4, <2>5, <2>6, <3>1, <3>2, <3>3
  <2> QED
    BY <2>3, <2>7, ChoiceKept
(* Nobody else has stored the new entry, and a later leader exists only if  *)
(* a majority can no longer store it.                                      *)
<1>New. ASSUME Choosable(x, Len(m))'
        PROVE  ChoiceOK(x, Len(m))'
  <2> USE <1>New
  <2>1. /\ x = rf[s].currentTerm /\ rf'[s].logs = m /\ \A u \in Server \ {s} : rf'[u] = rf[u]
        /\ acks' = acks \cup {[peer |-> s, term |-> x, length |-> Len(m)]} /\ grants' = grants
    BY DEF Extends
  <2>2. /\ x \in Nat /\ Len(l) \in Nat /\ Len(m) \in Nat /\ Len(m) = Len(l) + 1
        /\ leaderLog[x] = l /\ DOMAIN leaderLog' = DOMAIN leaderLog /\ leaderLog'[x] = m
    BY <1>Log
  <2>3. QuorumsMeet /\ LogsTyped /\ VotesTyped /\ VoteInv /\ LedgerInv
    BY DEF Steady, Safe
  <2>4. \A g \in grants : g.term \in Nat /\ (g.voter = s => g.term <= x)
    BY <2>1, <2>3 DEF VotesTyped, VoteInv
  <2>5. ASSUME NEW v, Acked(v, x, Len(m))' PROVE v = s
    <3>1. ASSUME NEW b \in acks, b.term = x PROVE ~(b.length >= Len(m))
      <4>1. b.length \in Nat /\ b.length <= Len(leaderLog[b.term])
        BY DEF Steady, Safe, AckInv, AckOK, LogsTyped
      <4> QED
        BY <2>2, <3>1, <4>1, SMTT(30)
    <3> QED
      BY <2>1, <2>5, <3>1, SMTT(30) DEF Acked
  <2>6. \A v \in Server : Acked(v, x, Len(m))' => Has(rf[v].logs, x, Len(m))'
    BY <2>1, <2>2, <2>5, SMTT(30) DEF Has
  <2>7. ASSUME NEW y \in DOMAIN leaderLog', y > x PROVE FALSE
    <3>1. y \in DOMAIN leaderLog /\ y \in Nat /\ y > 0
      BY <2>2, <2>3, <2>7, SMTT(30) DEF LogsTyped
    <3>2. PICK w \in Server : Elected(w, y)
      BY <2>3, <3>1 DEF LedgerInv, LedgerOK
    <3>3. PICK Q \in Quorum : \A v \in Q : rf'[v].currentTerm <= x \/ Acked(v, x, Len(m))'
      BY DEF Choosable
    <3>4. Voters(w, y) \in Quorum
      BY <3>2 DEF Quorum, Voters, Elected
    <3>5. PICK v \in Server : v \in Q /\ v \in Voters(w, y)
      BY <2>3, <3>3, <3>4 DEF QuorumsMeet
    <3>6. rf[v].currentTerm >= y /\ rf[v].currentTerm \in Nat
      BY <2>3, <3>5, VotersBeyond DEF LogsTyped
    <3>7. v # s
      BY <2>1, <2>2, <2>7, <3>1, <3>6, SMTT(30)
    <3> QED
      BY <2>1, <2>2, <2>5, <2>7, <3>1, <3>3, <3>5, <3>6, <3>7, SMTT(30)
  <2>8. \A g \in grants' : GrantOK(g, x, Len(m))'
    BY <2>1, <2>2, <2>4, <2>5, SMTT(30) DEF GrantOK
  <2> QED
    BY <2>6, <2>7, <2>8 DEF ChoiceOK
<1>Choice. ChoiceInv'
  <2>1. /\ \A k \in 1..Len(m) : k \in 1..Len(l) \/ k = Len(m)
        /\ leaderLog[x] = l /\ DOMAIN leaderLog' = DOMAIN leaderLog /\ leaderLog'[x] = m
        /\ \A t \in DOMAIN leaderLog : t # x => leaderLog'[t] = leaderLog[t]
    BY <1>Log
  <2> SUFFICES ASSUME NEW t \in DOMAIN leaderLog', NEW k \in 1..Len(leaderLog'[t])
               PROVE  ChoiceOK(t, k)'
    BY DEF ChoiceInv
  <2>2. CASE t \in DOMAIN leaderLog /\ k \in 1..Len(leaderLog[t])
    BY <2>2, <1>Old
  <2>3. CASE t = x /\ k = Len(m)
    <3>1. ~Choosable(t, k)' => ChoiceOK(t, k)'
      BY DEF ChoiceOK
    <3> QED
      BY <2>3, <3>1, <1>New
  <2> QED
    BY <2>1, <2>2, <2>3
<1>1. /\ Grows /\ LedgerOK(x)' /\ LogOK(s)' /\ LeadOK(s)' /\ CommitOK(s)' /\ ChoiceInv'
  BY <1>Grows, <1>Lead, <1>Choice
<1>2. /\ x = rf[s].currentTerm /\ l = rf[s].logs /\ Agree(l, m, Len(l)) /\ Leader(s)
      /\ Leader(s)' /\ rf'[s].currentTerm = x /\ rf'[s].logs = m
      /\ \A u \in Server \ {s} : rf'[u] = rf[u]
      /\ acks' = acks \cup {[peer |-> s, term |-> x, length |-> Len(m)]}
      /\ voteRequests' = voteRequests /\ appendCalls' = appendCalls
  BY DEF Extends
<1>3. /\ x \in Nat /\ Len(l) \in Nat /\ Len(m) \in Nat /\ m[Len(m)].Term = x
      /\ \A k \in 1..Len(m) : k \in 1..Len(l) \/ k = Len(m)
      /\ x \in DOMAIN leaderLog' /\ DOMAIN leaderLog' = DOMAIN leaderLog /\ leaderLog'[x] = m
      /\ \A t \in DOMAIN leaderLog : t # x => leaderLog'[t] = leaderLog[t]
  BY <1>Log
<1>4. /\ QuorumsMeet /\ LogsTyped /\ VotesTyped /\ CallsTyped /\ VoteInv /\ LeaderInv
  BY DEF Steady
<1>5. ASSUME NEW u \in Server \ {s}
      PROVE  /\ Idle(rf[u], rf'[u])
             /\ Leader(u) => leaderLog'[rf[u].currentTerm] = leaderLog[rf[u].currentTerm]
  <2>1. Leader(u) => rf[u].currentTerm \in DOMAIN leaderLog
    BY DEF Safe, PeerInv, LeadOK
  <2>2. Elected(s, x) /\ (Leader(u) => Elected(u, rf[u].currentTerm))
    BY <1>2, <1>4 DEF LeaderInv, Leader, Elected
  <2>3. Leader(u) => rf[u].currentTerm # x
    BY <1>4, <2>2, OneElected
  <2> QED
    BY <1>2, <1>3, <2>1, <2>3, IdleReflexive
<1>6. \A a \in acks' : a \in acks \/ AckOK(a)'
  <2> SUFFICES ASSUME NEW a, a = [peer |-> s, term |-> x, length |-> Len(m)] PROVE AckOK(a)'
    BY <1>2
  <2> QED
    BY <1>2, <1>3, SMTT(30) DEF AckOK
<1>7. \A r \in voteRequests' :
        r \in voteRequests /\ (rf'[r.from].role = "Candidate" => Idle(rf[r.from], rf'[r.from]))
  BY <1>2, <1>4, <1>5 DEF VotesTyped, Leader
<1>8. \A c \in appendCalls' : c \in appendCalls /\ Continues(rf[c.from], rf'[c.from])
  <2> SUFFICES ASSUME NEW c \in appendCalls PROVE Continues(rf[c.from], rf'[c.from])
    BY <1>2
  <2>1. CASE c.from = s
    BY <1>2, <1>3, <2>1, SMTT(30) DEF Continues, Leader
  <2>2. CASE c.from # s
    BY <1>4, <1>5, <2>2, IdleContinues DEF CallsTyped
  <2> QED
    BY <2>1, <2>2
<1>9. \A t \in DOMAIN leaderLog' :
        (t \in DOMAIN leaderLog /\ leaderLog'[t] = leaderLog[t]) \/ LedgerOK(t)'
  BY <1>1, <1>3
<1> QED
  BY <1>1, <1>5, <1>6, <1>7, <1>8, <1>9, StepSafe

(* m, the new log of v, is the log of the leader of x as far as it goes,    *)
(* and what it leaves out is of x in the leader's log but not in v's.      *)
Follows(v, x, l, m) ==
    /\ x \in DOMAIN leaderLog /\ l = rf[v].logs /\ rf[v].currentTerm <= x
    /\ m \in Seq(LogEntry) /\ Len(m) > 0 /\ Agree(m, leaderLog[x], Len(m))
    /\ \A k \in 1..Len(leaderLog[x]) : leaderLog[x][k].Term < x => k <= Len(m)
    /\ \A k \in 1..Len(l) : l[k].Term = x => k <= Len(m)

(* AppendEntries with args turns the log l of v into m, and cuts off no     *)
(* entry of the term of args.                                              *)
Stored(v, args, l, m) ==
    LET prev == args.PrevLogIndex + 1
    IN  /\ args.Term \in DOMAIN leaderLog /\ l = rf[v].logs
        /\ rf[v].currentTerm <= args.Term
        /\ Segment(args, leaderLog[args.Term])
        /\ prev <= Len(l) /\ (prev > 1 => l[prev].Term = args.PrevLogTerm)
        /\ m \in Seq(LogEntry) /\ Len(m) = prev + Len(args.Entries)
        /\ \A k \in 1..prev : m[k] = l[k]
        /\ \A j \in 1..Len(args.Entries) : m[prev + j] = args.Entries[j]
        /\ \A k \in 1..Len(l) : l[k].Term = args.Term => k <= Len(m)

(* The test of PrevLogTerm makes the new log a copy of the leader's. *)
LEMMA StoredFollows ==
    ASSUME LogsTyped, LedgerInv, NEW v \in Server, LogOK(v), NEW l, NEW m,
           NEW args \in AppendEntriesArgs, Stored(v, args, l, m)
    PROVE  Follows(v, args.Term, l, m)
<1>1. PICK x : x = args.Term
  OBVIOUS
<1>2. PICK L : L = leaderLog[x]
  OBVIOUS
<1>3. PICK prev : prev = args.PrevLogIndex + 1
  OBVIOUS
<1>4. PICK e : e = Len(args.Entries)
  OBVIOUS
<1>5. /\ x \in Nat /\ prev \in Nat /\ prev > 0 /\ e \in Nat
      /\ x \in DOMAIN leaderLog /\ L \in Seq(LogEntry) /\ Len(L) \in Nat
      /\ l \in Seq(LogEntry) /\ Len(l) \in Nat
  BY <1>1, <1>2, <1>3, <1>4, SMTT(30) DEF Stored, LogsTyped, AppendEntriesArgs
<1>6. /\ prev + e <= Len(L) /\ L[prev].Term = args.PrevLogTerm
      /\ \A j \in 1..e : args.Entries[j] = L[prev + j]
      /\ \A k \in 1..Len(L) : L[k].Term < x => k <= prev + e
  BY <1>1, <1>2, <1>3, <1>4 DEF Stored, Segment
<1>7. /\ prev <= Len(l) /\ (prev > 1 => l[prev].Term = args.PrevLogTerm)
      /\ m \in Seq(LogEntry) /\ Len(m) = prev + e
      /\ \A k \in 1..prev : m[k] = l[k]
      /\ \A j \in 1..e : m[prev + j] = args.Entries[j]
  BY <1>3, <1>4 DEF Stored
<1>8. Copied(l) /\ Copied(L) /\ l[1].Term = L[1].Term
  BY <1>2, <1>5 DEF Stored, LogOK, LedgerInv, LedgerOK, Copied
<1>9. l[prev].Term = L[prev].Term /\ prev \in 1..Len(l) /\ prev \in 1..Len(L)
  BY <1>5, <1>6, <1>7, <1>8, SMTT(30)
<1>10. Agree(l, L, prev)
  BY <1>5, <1>8, <1>9, CopiesAgree
<1>11. ASSUME NEW k \in 1..Len(m) PROVE m[k] = L[k]
  <2>1. CASE k <= prev
    BY <1>5, <1>7, <1>10, <2>1, SMTT(30) DEF Agree
  <2>2. CASE k > prev
    <3>1. k - prev \in 1..e /\ prev + (k - prev) = k
      BY <1>5, <1>7, <2>2, SMTT(30)
    <3> QED
      BY <1>6, <1>7, <3>1
  <2> QED
    BY <1>5, <2>1, <2>2, SMTT(30)
<1>12. Agree(m, L, Len(m)) /\ Len(m) > 0
  BY <1>5, <1>6, <1>7, <1>11, SMTT(30) DEF Agree
<1> QED
  BY <1>1, <1>2, <1>5, <1>6, <1>7, <1>12 DEF Stored, Follows

(* It keeps every entry that a majority may still have stored, ... *)
LEMMA FollowsHas ==
    ASSUME LogsTyped, NEW v \in Server, LogOK(v), NEW x, NEW l, NEW m, Follows(v, x, l, m),
           NEW t \in DOMAIN leaderLog, NEW k, OwnEntry(t, k), Has(l, t, k),
           x > t => Has(leaderLog[x], t, k)
    PROVE  Has(m, t, k)
<1>1. /\ x \in Nat /\ t \in Nat /\ Len(m) \in Nat /\ Len(l) \in Nat
      /\ rf[v].currentTerm \in Nat /\ rf[v].currentTerm <= x
  BY SMTT(30) DEF LogsTyped, Follows
<1>2. k \in 1..Len(l) /\ l[k].Term = t /\ leaderLog[t][k].Term = t
  BY DEF Has, OwnEntry
<1>3. t <= x
  BY <1>1, <1>2, SMTT(30) DEF Follows, LogOK
<1>4. k <= Len(m) /\ k \in 1..Len(leaderLog[x]) /\ leaderLog[x][k] = leaderLog[t][k]
  <2>1. CASE t = x
    BY <1>2, <2>1 DEF Follows, OwnEntry
  <2>2. CASE t < x
    BY <1>2, <2>2 DEF Has, Follows
  <2> QED
    BY <1>1, <1>3, <2>1, <2>2, SMTT(30)
<1>5. m[k] = leaderLog[x][k] /\ k \in 1..Len(m)
  BY <1>1, <1>2, <1>4, SMTT(30) DEF Follows, Agree
<1> QED
  BY <1>4, <1>5 DEF Has

(* ... and every entry that is decided. *)
LEMMA FollowsDecided ==
    ASSUME LogsTyped, LedgerInv, ChoiceInv, NEW v \in Server, NEW x, NEW l, NEW m,
           Follows(v, x, l, m), NEW k \in Nat, DecidedIn(l, k, rf[v].currentTerm)
    PROVE  DecidedIn(m, k, x) /\ k \in 1..Len(l) /\ k \in 1..Len(m) /\ m[k] = l[k]
<1>1. PICK t \in DOMAIN leaderLog :
        /\ t <= rf[v].currentTerm
        /\ \E n \in k..Len(leaderLog[t]) : Chosen(t, n)
        /\ Has(l, t, k)
  BY DEF DecidedIn
<1>2. PICK n \in k..Len(leaderLog[t]) : Chosen(t, n)
  BY <1>1
<1>3. PICK L : L = leaderLog[x]
  OBVIOUS
<1>4. /\ x \in Nat /\ t \in Nat /\ Len(m) \in Nat /\ Len(l) \in Nat /\ t <= x
      /\ rf[v].currentTerm \in Nat /\ Len(leaderLog[t]) \in Nat
      /\ L \in Seq(LogEntry) /\ Len(L) \in Nat
      /\ k \in 1..Len(l) /\ l[k] = leaderLog[t][k] /\ n \in Nat /\ k <= n
  BY <1>1, <1>2, <1>3, SMTT(30) DEF LogsTyped, Follows, Has
<1>5. k <= Len(m) /\ k \in 1..Len(L) /\ L[k] = leaderLog[t][k]
  <2>1. CASE t = x
    <3>1. k \in 1..Len(L) /\ L[k] = l[k]
      BY <1>2, <1>3, <1>4, <2>1, SMTT(30)
    <3>2. L[k].Term \in Nat /\ L[k].Term <= x
      BY <1>3, <2>1, <3>1 DEF LedgerInv, LedgerOK, LogsTyped
    <3>3. CASE L[k].Term < x
      BY <1>3, <1>4, <2>1, <3>1, <3>3 DEF Follows
    <3>4. CASE L[k].Term = x
      BY <1>3, <1>4, <2>1, <3>1, <3>4 DEF Follows
    <3> QED
      BY <1>4, <3>2, <3>3, <3>4, SMTT(30)
  <2>2. CASE t < x
    <3>1. Choosable(t, n) /\ OwnEntry(t, n) /\ n \in 1..Len(leaderLog[t])
      BY <1>2, ChosenChoosable DEF Chosen, OwnEntry
    <3>2. Has(L, t, n)
      BY <1>3, <1>4, <2>2, <3>1 DEF ChoiceInv, ChoiceOK, Follows
    <3>3. Agree(L, leaderLog[t], n)
      BY <1>3, <1>4, <3>1, <3>2, HasAll DEF Follows, LedgerInv, LedgerOK
    <3>4. n <= Len(m)
      BY <1>3, <2>2, <3>1, <3>2 DEF Has, OwnEntry, Follows
    <3> QED
      BY <1>4, <3>3, <3>4, SMTT(30) DEF Agree
  <2> QED
    BY <1>4, <2>1, <2>2, SMTT(30)
<1>6. k \in 1..Len(m) /\ m[k] = leaderLog[t][k]
  BY <1>3, <1>4, <1>5, SMTT(30) DEF Follows, Agree
<1> QED
  BY <1>1, <1>2, <1>4, <1>6 DEF DecidedIn, Has

(* Peer v accepts the AppendEntries call c of the leader of x. *)
Accepts(c, v, x, l, m) ==
    /\ c \in appendCalls /\ c.pc = "request" /\ v = c.to /\ x = c.args.Term
    /\ Stored(v, c.args, l, m)
    /\ /\ rf'[v].role = "Follower" /\ rf'[v].currentTerm = x /\ rf'[v].logs = m
       /\ \/ rf'[v].commitIndex = rf[v].commitIndex
          \/ /\ rf'[v].commitIndex <= c.args.LeaderCommit /\ rf'[v].commitIndex < Len(m)
             /\ rf[v].commitIndex < rf'[v].commitIndex \/ rf'[v].commitIndex = Len(m) - 1
    /\ \A u \in Server \ {v} : rf'[u] = rf[u]
    /\ acks' = acks \cup {[peer |-> v, term |-> x, length |-> Len(m)]}
    /\ leaderLog' = leaderLog /\ grants' = grants /\ voteRequests' = voteRequests
    /\ \A b \in appendCalls' :
        \/ b \in appendCalls
        \/ b.from = c.from /\ b.to = v /\ b.args = c.args /\ b.pc = "reply"

(* What s has committed stays committed, and in its place. *)
Kept(s) ==
    /\ rf[s].commitIndex <= rf'[s].commitIndex
    /\ \A n \in 1..rf[s].commitIndex :
        /\ n + 1 \in 1..Len(rf[s].logs) /\ n + 1 \in 1..Len(rf'[s].logs)
        /\ rf'[s].logs[n + 1] = rf[s].logs[n + 1]

(* A follower that accepts an AppendEntries call keeps everything safe. *)
LEMMA AcceptStep ==
    ASSUME Steady, Safe, NEW c, NEW v, NEW x, NEW l, NEW m, Accepts(c, v, x, l, m)
    PROVE  Safe' /\ Kept(v)
(* It stores part of the log of x, and was not the leader of x itself. *)
<1>Follows. /\ v \in Server /\ Follows(v, x, l, m) /\ c.args \in AppendEntriesArgs
            /\ c.from \in Server /\ c.from # v /\ x <= rf[c.from].currentTerm
            /\ rf[v].currentTerm = x => ~Leader(v)
  <2>1. /\ c \in appendCalls /\ c.pc = "request" /\ v = c.to /\ x = c.args.Term
        /\ Stored(v, c.args, l, m)
    BY DEF Accepts
  <2>2. /\ c.from \in Server /\ c.to \in Server /\ c.args \in AppendEntriesArgs
        /\ QuorumsMeet /\ VoteInv /\ LeaderInv /\ LogsTyped
    BY <2>1 DEF Steady, CallsTyped
  <2>3. c.from # c.to /\ x <= rf[c.from].currentTerm /\ Elected(c.from, x)
    BY <2>1 DEF Safe, SentInv, CallOK
  <2>4. LogOK(v) /\ LedgerInv
    BY <2>1, <2>2 DEF Safe, PeerInv
  <2>5. Follows(v, x, l, m)
    BY <2>1, <2>2, <2>4, StoredFollows
  <2>6. ASSUME rf[v].currentTerm = x, Leader(v) PROVE FALSE
    <3>1. Elected(v, x)
      BY <2>1, <2>2, <2>6 DEF LeaderInv, Leader, Elected
    <3> QED
      BY <2>1, <2>2, <2>3, <3>1, OneElected
  <2> QED
    BY <2>1, <2>2, <2>3, <2>5, <2>6
<1>Grows. Grows
  <2>1. /\ v \in Server /\ rf[v].currentTerm <= x
        /\ rf[v].currentTerm = x => ~Leader(v)
    BY <1>Follows DEF Follows
  <2>2. /\ rf'[v].currentTerm = x /\ leaderLog' = leaderLog /\ grants' = grants
        /\ acks' = acks \cup {[peer |-> v, term |-> x, length |-> Len(m)]}
        /\ \A u \in Server \ {v} : rf'[u] = rf[u]
    BY DEF Accepts
  <2>3. \A t \in DOMAIN leaderLog : Len(leaderLog[t]) \in Nat
    BY DEF Steady, LogsTyped
  <2>4. \A u \in Server : rf[u].currentTerm \in Nat
    BY DEF Steady, LogsTyped
  <2>5. \A a \in acks' \ acks : rf[a.peer].currentTerm <= a.term
    BY <2>1, <2>2, SMTT(30)
  <2>6. ASSUME NEW u \in Server
        PROVE  /\ rf[u].currentTerm <= rf'[u].currentTerm
               /\ rf'[u].currentTerm = rf[u].currentTerm /\ Leader(u) => Leader(u)'
    BY <2>1, <2>2, <2>4, SMTT(30) DEF Leader
  <2>7. \A t \in DOMAIN leaderLog :
          /\ Agree(leaderLog[t], leaderLog'[t], Len(leaderLog[t]))
          /\ \A k \in 1..Len(leaderLog'[t]) :
              k > Len(leaderLog[t]) => leaderLog'[t][k].Term = t
    BY <2>2, <2>3, SMTT(30) DEF Agree
  <2> QED
    BY <2>2, <2>5, <2>6, <2>7 DEF Grows
<1>Kept. Kept(v) /\ CommitOK(v)'
  <2>1. v \in Server /\ Follows(v, x, l, m) /\ Grows
    BY <1>Follows, <1>Grows
  <2>2. LogsTyped /\ LogsTyped' /\ LedgerInv /\ ChoiceInv /\ CommitOK(v)
    BY <2>1 DEF Steady, Safe, PeerInv
  <2>3. PICK i : i = rf[v].commitIndex
    OBVIOUS
  <2>4. PICK j : j = rf'[v].commitIndex
    OBVIOUS
  <2>5. /\ i \in Int /\ j \in Int /\ x \in Nat /\ Len(m) \in Nat /\ Len(m) > 0
        /\ l = rf[v].logs /\ m = rf'[v].logs /\ x = rf'[v].currentTerm
    BY <2>1, <2>2, <2>3, <2>4 DEF LogsTyped, Accepts, Follows
  <2>6. ASSUME NEW n \in 1..i
        PROVE  /\ DecidedIn(m, n + 1, x)
               /\ n + 1 \in 1..Len(l) /\ n + 1 \in 1..Len(m) /\ m[n + 1] = l[n + 1]
    <3>1. DecidedIn(l, n + 1, rf[v].currentTerm) /\ n + 1 \in Nat
      BY <2>2, <2>3, <2>5, SMTT(30) DEF CommitOK
    <3> QED
      BY <2>1, <2>2, <3>1, FollowsDecided, SMTT(30)
  <2>7. i <= j
    <3>1. i >= 1 => i + 1 <= Len(m)
      BY <2>5, <2>6, SMTT(30)
    <3>2. i = j \/ i < j \/ j = Len(m) - 1
      BY <2>3, <2>4 DEF Accepts
    <3> QED
      BY <2>5, <3>1, <3>2, SMTT(30)
  <2>8. ASSUME NEW n \in 1..j PROVE DecidedIn(m, n + 1, x) /\ n + 1 \in 1..Len(m)
    <3>1. CASE i = j
      BY <2>6, <3>1
    <3>2. CASE i # j
      <4>1. PICK L : L = leaderLog[x]
        OBVIOUS
      <4>2. j <= c.args.LeaderCommit /\ j < Len(m) /\ c.args.LeaderCommit \in Int
        BY <2>1, <2>3, <2>4, <3>2, <1>Follows DEF Accepts, AppendEntriesArgs
      <4>3. DecidedIn(L, n + 1, x)
        <5>1. \A h \in 1..c.args.LeaderCommit : DecidedIn(L, h + 1, x)
          BY <4>1 DEF Accepts, Stored, Segment
        <5>2. n \in 1..c.args.LeaderCommit
          BY <2>5, <4>2, SMTT(30)
        <5> QED
          BY <5>1, <5>2
      <4>4. n + 1 \in 1..Len(m) /\ m[n + 1] = L[n + 1]
        BY <2>1, <2>5, <4>1, <4>2, SMTT(30) DEF Follows, Agree
      <4> QED
        BY <4>3, <4>4 DEF DecidedIn, Has
    <3> QED
      BY <3>1, <3>2
  <2>9. CommitOK(v)'
    <3> SUFFICES ASSUME NEW n \in 1..j PROVE DecidedIn(m, n + 1, x)'
      BY <2>4, <2>5 DEF CommitOK
    <3>1. PICK k : k = n + 1
      OBVIOUS
    <3>2. k \in Nat /\ DecidedIn(m, k, x) /\ k \in 1..Len(m) /\ x <= x
      BY <2>5, <2>8, <3>1, SMTT(30)
    <3>3. DecidedIn(m, k, x)'
      BY <2>1, <2>2, <2>5, <3>2, DecidedGrows
    <3> QED
      BY <3>1, <3>3
  <2>10. \A n \in 1..i : /\ n + 1 \in 1..Len(l) /\ n + 1 \in 1..Len(m)
                          /\ m[n + 1] = l[n + 1]
    BY <2>6
  <2> QED
    BY <2>3, <2>4, <2>5, <2>7, <2>9, <2>10 DEF Kept
<1>Log. LogOK(v)' /\ LeadOK(v)'
  <2>1. /\ x \in DOMAIN leaderLog /\ m \in Seq(LogEntry) /\ Len(m) > 0
        /\ Agree(m, leaderLog[x], Len(m)) /\ Grows
    BY <1>Follows, <1>Grows DEF Follows
  <2>2. rf'[v].role = "Follower" /\ rf'[v].currentTerm = x /\ rf'[v].logs = m
    BY DEF Accepts
  <2>3. LogsTyped /\ LedgerOK(x)
    BY <2>1 DEF Steady, Safe, LedgerInv
  <2>4. PICK L : L = leaderLog[x]
    OBVIOUS
  <2>5. L \in Seq(LogEntry) /\ Len(L) \in Nat /\ Len(m) \in Nat /\ Len(m) <= Len(L)
    BY <2>1, <2>3, <2>4, SMTT(30) DEF LogsTyped, Agree
  <2>6. Copied(L) /\ \A k \in 1..Len(L) : L[k].Term <= x
    BY <2>3, <2>4 DEF LedgerOK
  <2>7. \A k \in 1..Len(m) : k \in 1..Len(L) /\ m[k] = L[k]
    BY <2>1, <2>4, <2>5, SMTT(30) DEF Agree
  <2>8. Copied(m)
    <3> SUFFICES ASSUME NEW k \in 1..Len(m)
                 PROVE  m[k].Term \in DOMAIN leaderLog /\ Agree(m, leaderLog[m[k].Term], k)
      BY <2>1, <2>5, <2>6, <2>7, SMTT(30) DEF Copied
    <3>1. L[k].Term \in DOMAIN leaderLog /\ Agree(L, leaderLog[L[k].Term], k)
      BY <2>6, <2>7 DEF Copied
    <3> QED
      BY <2>5, <2>7, <3>1, SMTT(30) DEF Agree
  <2>9. Copied(m)'
    BY <2>1, <2>3, <2>8, CopiedGrows
  <2> QED
    BY <2>2, <2>6, <2>7, <2>9 DEF LogOK, LeadOK, Leader
(* Who counts as having stored an entry has it still. *)
<1>Choice. ChoiceInv'
  <2>1. /\ v \in Server /\ Follows(v, x, l, m) /\ Grows /\ l = rf[v].logs
        /\ rf[v].currentTerm <= x
    BY <1>Follows, <1>Grows DEF Follows
  <2>2. /\ LogsTyped /\ LogsTyped' /\ LogOK(v)
        /\ \A g \in grants : /\ g.voter \in Server /\ g.candidate \in Server /\ g.term \in Nat
                             /\ g.term <= rf[g.voter].currentTerm
    BY <2>1 DEF Steady, Safe, PeerInv, VotesTyped, VoteInv
  <2>3. /\ rf'[v].role = "Follower" /\ rf'[v].logs = m /\ leaderLog' = leaderLog
        /\ grants' = grants /\ \A u \in Server \ {v} : rf'[u] = rf[u]
        /\ acks' = acks \cup {[peer |-> v, term |-> x, length |-> Len(m)]}
    BY DEF Accepts
  <2> SUFFICES ASSUME NEW t \in DOMAIN leaderLog, NEW k \in 1..Len(leaderLog[t])
               PROVE  ChoiceOK(t, k)'
    BY <2>3 DEF ChoiceInv
  <2>4. t \in Nat /\ x \in Nat /\ Len(m) \in Nat /\ rf[v].currentTerm \in Nat
    BY <2>1, <2>2, SMTT(30) DEF LogsTyped, Follows
  <2>5. ASSUME NEW u, Acked(u, t, k)' PROVE Acked(u, t, k) \/ (u = v /\ t = x /\ k <= Len(m))
    BY <2>3, <2>5, SMTT(30) DEF Acked
  <2>6. ASSUME Choosable(t, k)
        PROVE  /\ \A u \in Server : Acked(u, t, k)' => Has(rf'[u].logs, t, k)
               /\ \A y \in DOMAIN leaderLog' : y > t => Has(leaderLog'[y], t, k)
               /\ \A g \in grants' : Campaigns(g)' /\ g.term > t /\ Acked(g.voter, t, k)'
                     => Has(rf'[g.candidate].logs, t, k)
    <3>1. /\ \A u \in Server : Acked(u, t, k) => Has(rf[u].logs, t, k)
          /\ \A y \in DOMAIN leaderLog : y > t => Has(leaderLog[y], t, k)
          /\ \A g \in grants : Campaigns(g) => GrantOK(g, t, k)
      BY <2>6 DEF Safe, ChoiceInv, ChoiceOK
    <3>2. OwnEntry(t, k)
      BY <2>6 DEF Choosable
    <3>3. ASSUME NEW u \in Server, Acked(u, t, k)' PROVE Has(rf'[u].logs, t, k)
      <4>1. CASE u # v
        BY <2>3, <2>5, <3>1, <3>3, <4>1
      <4>2. CASE u = v /\ Acked(v, t, k)
        <5>1. Has(l, t, k) /\ (x > t => Has(leaderLog[x], t, k))
          BY <2>1, <3>1, <4>2 DEF Follows
        <5>2. Has(m, t, k)
          BY <2>1, <2>2, <3>2, <5>1, FollowsHas
        <5> QED
          BY <2>3, <4>2, <5>2
      <4>3. CASE u = v /\ t = x /\ k <= Len(m)
        BY <2>1, <2>3, <2>4, <4>3, SMTT(30) DEF Has, Follows, Agree
      <4> QED
        BY <2>5, <3>3, <4>1, <4>2, <4>3
    <3>4. ASSUME NEW g \in grants', Campaigns(g)', g.term > t, Acked(g.voter, t, k)'
          PROVE  Has(rf'[g.candidate].logs, t, k)
      <4>1. g \in grants /\ g.candidate # v
        BY <2>3, <3>4 DEF Campaigns
      <4>2. Campaigns(g) /\ rf'[g.candidate] = rf[g.candidate]
        BY <2>2, <2>3, <3>4, <4>1 DEF Campaigns
      <4>3. ~(g.voter = v /\ t = x)
        BY <2>1, <2>2, <2>4, <3>4, <4>1, SMTT(30)
      <4> QED
        BY <2>5, <3>1, <3>4, <4>1, <4>2, <4>3 DEF GrantOK
    <3> QED
      BY <2>3, <3>1, <3>3, <3>4
  <2> QED
    BY <2>1, <2>2, <2>6, ChoiceKept
(* The answer says that the entries are stored. *)
<1>Answer. ASSUME NEW b, b.from = c.from, b.to = v, b.args = c.args, b.pc = "reply"
           PROVE  CallOK(b)'
  <2> USE <1>Answer
  <2>1. /\ c.from \in Server /\ c.from # v /\ x <= rf[c.from].currentTerm
        /\ rf'[c.from] = rf[c.from] /\ x = c.args.Term
    BY <1>Follows DEF Accepts
  <2>2. PICK last : last = c.args.PrevLogIndex + 1 + Len(c.args.Entries)
    OBVIOUS
  <2>3. last = Len(m) /\ Len(m) \in Nat
    BY <2>2, SMTT(30) DEF Accepts, Stored
  <2>4. Acked(v, x, last)'
    <3> DEFINE a == [peer |-> v, term |-> x, length |-> Len(m)]
    <3>1. a \in acks' /\ a.peer = v /\ a.term = x /\ a.length >= last
      BY <2>3, SMTT(30) DEF Accepts
    <3> QED
      BY <3>1 DEF Acked
  <2> QED
    BY <2>1, <2>2, <2>4 DEF CallOK
<1>1. /\ v \in Server /\ Grows /\ ChoiceInv' /\ x \in DOMAIN leaderLog
      /\ Agree(m, leaderLog[x], Len(m)) /\ LogOK(v)' /\ LeadOK(v)' /\ CommitOK(v)'
  BY <1>Follows, <1>Grows, <1>Choice, <1>Log, <1>Kept DEF Follows
<1>2. /\ rf'[v].role = "Follower" /\ rf'[v].currentTerm = x /\ leaderLog' = leaderLog
      /\ \A u \in Server \ {v} : rf'[u] = rf[u]
      /\ acks' = acks \cup {[peer |-> v, term |-> x, length |-> Len(m)]}
      /\ voteRequests' = voteRequests
  BY DEF Accepts
<1>3. LogsTyped /\ LogsTyped' /\ VotesTyped /\ CallsTyped
  BY DEF Steady
<1>4. \A u \in Server \ {v} : Idle(rf[u], rf'[u])
  BY <1>2, IdleReflexive
<1>5. \A a \in acks' : a \in acks \/ AckOK(a)'
  <2> SUFFICES ASSUME NEW a, a = [peer |-> v, term |-> x, length |-> Len(m)] PROVE AckOK(a)'
    BY <1>2
  <2>1. x <= x /\ Len(m) <= Len(leaderLog[x])
    BY <1>1, <1>3, SMTT(30) DEF Agree, LogsTyped
  <2> QED
    BY <1>1, <1>2, <2>1 DEF AckOK
<1>6. \A r \in voteRequests' :
        r \in voteRequests /\ (rf'[r.from].role = "Candidate" => Idle(rf[r.from], rf'[r.from]))
  BY <1>2, <1>3, <1>4 DEF VotesTyped
<1>7. \A b \in appendCalls' :
        (b \in appendCalls /\ Continues(rf[b.from], rf'[b.from])) \/ CallOK(b)'
  <2> SUFFICES ASSUME NEW b \in appendCalls PROVE Continues(rf[b.from], rf'[b.from])
    BY <1>Answer DEF Accepts
  <2>1. CASE b.from = v
    BY <1>2, <2>1 DEF Continues
  <2>2. CASE b.from # v
    BY <1>3, <1>4, <2>2, IdleContinues DEF CallsTyped
  <2> QED
    BY <2>1, <2>2
<1> QED
  BY <1>Kept, <1>1, <1>2, <1>4, <1>5, <1>6, <1>7, StepSafe

-----------------------------------------------------------------------------
(* The leader counts a positive answer *)

(* Leader s of term x, with the log l, handles the answer c: matchIndex of *)
(* the follower moves to what the call carried, and commitIndex may move   *)
(* to an index with an entry of x that a majority has by matchIndex.       *)
Commits(c, s, x, l) ==
    /\ c \in appendCalls /\ c.pc = "reply" /\ c.reply.Success /\ c.from = s
    /\ c.args.Term = x /\ c.args.PrevLogIndex + Len(c.args.Entries) \in Int
    /\ Leader(s) /\ x = rf[s].currentTerm /\ l = rf[s].logs
    /\ Leader(s)' /\ rf'[s].currentTerm = x /\ rf'[s].logs = l
    /\ \A i \in Server :
        \/ rf'[s].matchIndex[i] = rf[s].matchIndex[i]
        \/ i = c.to /\ rf'[s].matchIndex[i] = c.args.PrevLogIndex + Len(c.args.Entries)
    /\ \/ rf'[s].commitIndex = rf[s].commitIndex
       \/ /\ rf'[s].commitIndex > rf[s].commitIndex
          /\ rf'[s].commitIndex >= 1 =>
              /\ rf'[s].commitIndex + 1 \in 1..Len(l) /\ l[rf'[s].commitIndex + 1].Term = x
              /\ Majority(1 + Cardinality({i \in Server \ {s} :
                                            rf'[s].matchIndex[i] >= rf'[s].commitIndex}))
    /\ \A u \in Server \ {s} : rf'[u] = rf[u]
    /\ leaderLog' = leaderLog /\ acks' = acks /\ grants' = grants
    /\ voteRequests' = voteRequests /\ appendCalls' \subseteq appendCalls

(* A leader that counts an answer, and commits, keeps everything safe. *)
LEMMA CommitStep ==
    ASSUME Steady, Safe, NEW c, NEW s \in Server, NEW x, NEW l, Commits(c, s, x, l)
    PROVE  Safe' /\ Kept(s)
<1>Grows. Grows
  <2>1. /\ rf'[s].currentTerm = rf[s].currentTerm /\ Leader(s)'
        /\ leaderLog' = leaderLog /\ acks' = acks /\ grants' = grants
        /\ \A u \in Server \ {s} : rf'[u] = rf[u]
    BY DEF Commits
  <2>2. \A t \in DOMAIN leaderLog : Len(leaderLog[t]) \in Nat
    BY DEF Steady, LogsTyped
  <2>3. \A u \in Server : rf[u].currentTerm \in Nat
    BY DEF Steady, LogsTyped
  <2>4. \A t \in DOMAIN leaderLog :
          /\ Agree(leaderLog[t], leaderLog'[t], Len(leaderLog[t]))
          /\ \A k \in 1..Len(leaderLog'[t]) :
              k > Len(leaderLog[t]) => leaderLog'[t][k].Term = t
    BY <2>1, <2>2, SMTT(30) DEF Agree
  <2>5. ASSUME NEW u \in Server
        PROVE  /\ rf[u].currentTerm <= rf'[u].currentTerm
               /\ rf'[u].currentTerm = rf[u].currentTerm /\ Leader(u) => Leader(u)'
    BY <2>1, <2>3, SMTT(30) DEF Leader
  <2> QED
    BY <2>1, <2>4, <2>5 DEF Grows
(* What matchIndex says is stored is. *)
<1>Lead. /\ LeadOK(s)' /\ x \in DOMAIN leaderLog /\ leaderLog[x] = l
         /\ Acked(s, x, Len(l))
         /\ \A i \in Server : rf'[s].matchIndex[i] >= 1 =>
              Acked(i, x, rf'[s].matchIndex[i] + 1)
  <2>1. /\ x \in DOMAIN leaderLog /\ leaderLog[x] = l /\ Acked(s, x, Len(l))
        /\ \A i \in Server : rf[s].matchIndex[i] >= 1 => Acked(i, x, rf[s].matchIndex[i] + 1)
    BY DEF Commits, Safe, PeerInv, LeadOK
  <2>2. PICK e : e = c.args.PrevLogIndex + Len(c.args.Entries)
    OBVIOUS
  <2>3. PICK f : f = c.args.PrevLogIndex + 1 + Len(c.args.Entries)
    OBVIOUS
  <2>4. e \in Int /\ f = e + 1
    <3>1. c.args \in AppendEntriesArgs
      BY DEF Commits, Steady, CallsTyped
    <3> QED
      BY <2>2, <2>3, <3>1, SMTT(30) DEF AppendEntriesArgs
  <2>5. Acked(c.to, x, f)
    BY <2>3 DEF Commits, Safe, SentInv, CallOK
  <2>6. ASSUME NEW i \in Server, rf'[s].matchIndex[i] >= 1
        PROVE  Acked(i, x, rf'[s].matchIndex[i] + 1)
    <3>1. CASE rf'[s].matchIndex[i] = rf[s].matchIndex[i]
      BY <2>1, <2>6, <3>1
    <3>2. CASE i = c.to /\ rf'[s].matchIndex[i] = e
      BY <2>4, <2>5, <3>2
    <3> QED
      BY <2>2, <3>1, <3>2 DEF Commits
  <2>7. /\ leaderLog' = leaderLog /\ acks' = acks
        /\ rf'[s].currentTerm = x /\ rf'[s].logs = l
    BY DEF Commits
  <2> QED
    BY <2>1, <2>6, <2>7 DEF LeadOK, Acked
(* An index that handleAppendEntries commits is stored by a majority. *)
<1>Chosen. ASSUME NEW n, n = rf'[s].commitIndex, n # rf[s].commitIndex, n >= 1
           PROVE  Chosen(x, n + 1)
  <2> USE <1>Chosen
  <2> DEFINE A == {i \in Server \ {s} : rf'[s].matchIndex[i] >= n}
  <2>1. /\ n + 1 \in 1..Len(l) /\ l[n + 1].Term = x /\ Majority(1 + Cardinality(A))
    BY DEF Commits
  <2>2. /\ x \in DOMAIN leaderLog /\ leaderLog[x] = l /\ Acked(s, x, Len(l))
        /\ \A i \in Server : rf'[s].matchIndex[i] >= 1 => Acked(i, x, rf'[s].matchIndex[i] + 1)
    BY <1>Lead
  <2>3. n \in Int /\ Len(l) \in Nat /\ \A i \in Server : rf'[s].matchIndex[i] \in Int
    BY DEF Steady, LogsTyped, Commits
  <2>4. \A a \in acks : a.length \in Nat
    BY DEF Steady, LogsTyped
  <2>5. OwnEntry(x, n + 1)
    BY <2>1, <2>2 DEF OwnEntry
  <2>6. A \cup {s} \in Quorum
    BY <2>1 DEF Steady, QuorumsCount
  <2>7. ASSUME NEW i \in A PROVE Acked(i, x, n + 1)
    <3>1. PICK j : j = rf'[s].matchIndex[i] + 1
      OBVIOUS
    <3>2. Acked(i, x, j) /\ j >= n + 1 /\ j \in Int
      BY <2>2, <2>3, <3>1, SMTT(30)
    <3> QED
      BY <2>3, <2>4, <3>2, SMTT(30) DEF Acked
  <2>8. Acked(s, x, n + 1)
    BY <2>1, <2>2, <2>3, <2>4, SMTT(30) DEF Acked
  <2> HIDE DEF A
  <2> QED
    BY <2>5, <2>6, <2>7, <2>8 DEF Chosen
<1>Keeps. Kept(s) /\ CommitOK(s)'
  <2>1. /\ x \in DOMAIN leaderLog /\ leaderLog[x] = l /\ Grows
        /\ LogsTyped /\ LogsTyped' /\ CommitOK(s)
    BY <1>Lead, <1>Grows DEF Steady, Safe, PeerInv
  <2>2. /\ rf'[s].logs = l /\ rf[s].logs = l /\ rf'[s].currentTerm = x /\ rf[s].currentTerm = x
        /\ x \in Nat /\ Len(l) \in Nat
    BY <2>1 DEF Commits, LogsTyped
  <2>3. PICK i : i = rf[s].commitIndex
    OBVIOUS
  <2>4. PICK j : j = rf'[s].commitIndex
    OBVIOUS
  <2>5. i \in Int /\ j \in Int /\ i <= j
    BY <2>1, <2>3, <2>4, SMTT(30) DEF LogsTyped, Commits
  <2>6. ASSUME NEW n \in 1..i PROVE DecidedIn(l, n + 1, x) /\ n + 1 \in 1..Len(l)
    <3>1. DecidedIn(l, n + 1, x)
      BY <2>1, <2>2, <2>3 DEF CommitOK
    <3> QED
      BY <3>1 DEF DecidedIn, Has
  <2>7. ASSUME NEW n \in 1..j PROVE DecidedIn(l, n + 1, x) /\ n + 1 \in 1..Len(l)
    <3>1. CASE i = j
      BY <2>6, <3>1
    <3>2. CASE i # j
      <4>1. j + 1 \in 1..Len(l) /\ j >= 1
        BY <2>2, <2>3, <2>4, <2>5, <3>2, SMTT(30) DEF Commits
      <4>2. Chosen(x, j + 1)
        BY <2>3, <2>4, <3>2, <4>1, <1>Chosen
      <4>3. j + 1 \in (n + 1)..Len(l) /\ n + 1 \in 1..Len(l)
        BY <2>2, <2>5, <4>1, SMTT(30)
      <4>4. Has(l, x, n + 1) /\ x <= x
        BY <2>1, <2>2, <4>3, SMTT(30) DEF Has
      <4> QED
        BY <2>1, <4>2, <4>3, <4>4 DEF DecidedIn
    <3> QED
      BY <3>1, <3>2
  <2>8. CommitOK(s)'
    <3> SUFFICES ASSUME NEW n \in 1..j PROVE DecidedIn(l, n + 1, x)'
      BY <2>2, <2>4 DEF CommitOK
    <3>1. PICK k : k = n + 1
      OBVIOUS
    <3>2. k \in Nat /\ DecidedIn(l, k, x) /\ k \in 1..Len(l) /\ x <= x
      BY <2>2, <2>7, <3>1, SMTT(30)
    <3>3. DecidedIn(l, k, x)'
      BY <2>1, <2>2, <3>2, DecidedGrows
    <3> QED
      BY <3>1, <3>3
  <2>9. \A n \in 1..i : n + 1 \in 1..Len(l)
    BY <2>6
  <2> QED
    BY <2>2, <2>3, <2>4, <2>5, <2>8, <2>9 DEF Kept
<1>1. Grows /\ LeadOK(s)' /\ CommitOK(s)'
  BY <1>Grows, <1>Lead, <1>Keeps
<1>2. /\ rf'[s].logs = rf[s].logs /\ Leader(s) /\ Leader(s)'
      /\ rf'[s].currentTerm = rf[s].currentTerm
      /\ leaderLog' = leaderLog /\ acks' = acks /\ grants' = grants
      /\ \A u \in Server \ {s} : rf'[u] = rf[u]
      /\ voteRequests' = voteRequests /\ appendCalls' \subseteq appendCalls
  BY DEF Commits
<1>3. LogsTyped /\ LogsTyped' /\ VotesTyped /\ CallsTyped /\ LogOK(s)
  BY DEF Steady, Safe, PeerInv
<1>4. LogOK(s)'
  <2>1. PICK l1 : l1 = rf[s].logs
    OBVIOUS
  <2>2. Copied(l1)'
    BY <1>1, <1>3, <2>1, CopiedGrows DEF LogOK, LogsTyped
  <2> QED
    BY <1>2, <1>3, <2>1, <2>2 DEF LogOK, Leader
<1>5. \A u \in Server \ {s} : Idle(rf[u], rf'[u])
  BY <1>2, IdleReflexive
<1>6. \A r \in voteRequests' :
        r \in voteRequests /\ (rf'[r.from].role = "Candidate" => Idle(rf[r.from], rf'[r.from]))
  BY <1>2, <1>3, <1>5 DEF VotesTyped, Leader
<1>7. \A b \in appendCalls' : b \in appendCalls /\ Continues(rf[b.from], rf'[b.from])
  <2> SUFFICES ASSUME NEW b \in appendCalls PROVE Continues(rf[b.from], rf'[b.from])
    BY <1>2
  <2>1. CASE b.from = s
    BY <1>2, <1>3, <2>1, SMTT(30) DEF Continues, Agree, Leader, LogsTyped
  <2>2. CASE b.from # s
    BY <1>3, <1>5, <2>2, IdleContinues DEF CallsTyped
  <2> QED
    BY <2>1, <2>2
<1>8. ChoiceInv'
  <2> SUFFICES ASSUME NEW t \in DOMAIN leaderLog, NEW k \in 1..Len(leaderLog[t])
               PROVE  ChoiceOK(t, k)'
    BY <1>2 DEF ChoiceInv
  <2>1. ChoiceOK(t, k) /\ UNCHANGED copyVars /\ \A g \in grants' : g.candidate \in Server
    BY <1>2, <1>3 DEF Safe, ChoiceInv, copyVars, VotesTyped
  <2>2. /\ \A u \in Server : rf'[u].logs = rf[u].logs
        /\ \A g \in grants' : Campaigns(g)' => g \in grants /\ Campaigns(g)
    BY <1>2, <1>3 DEF Campaigns, VotesTyped, Leader
  <2> QED
    BY <1>1, <1>3, <2>1, <2>2, IdleChoice
<1> QED
  BY <1>Keeps, <1>1, <1>2, <1>4, <1>5, <1>6, <1>7, <1>8, StepSafe

-----------------------------------------------------------------------------
(* Votes *)

(* A candidate whose log is up to date has what the voter has of a          *)
(* position that a majority may still store.                               *)
LEMMA UpToDate ==
    ASSUME LogsTyped, LedgerInv, NEW l \in Seq(LogEntry), NEW m \in Seq(LogEntry),
           Copied(l), Copied(m), NEW t \in DOMAIN leaderLog, NEW k, OwnEntry(t, k),
           Has(l, t, k), \A y \in DOMAIN leaderLog : y > t => Has(leaderLog[y], t, k),
           \/ m[Len(m)].Term = l[Len(l)].Term /\ Len(m) >= Len(l)
           \/ m[Len(m)].Term > l[Len(l)].Term
    PROVE  Has(m, t, k)
<1>1. PICK y : y = m[Len(m)].Term
  OBVIOUS
<1>2. PICK z : z = l[Len(l)].Term
  OBVIOUS
<1>3. /\ Len(l) \in Nat /\ Len(m) \in Nat /\ Len(l) \in 1..Len(l) /\ Len(m) \in 1..Len(m)
      /\ y \in DOMAIN leaderLog /\ Agree(m, leaderLog[y], Len(m))
      /\ z \in DOMAIN leaderLog /\ Agree(l, leaderLog[z], Len(l))
  BY <1>1, <1>2, SMTT(30) DEF Copied
<1>4. t \in Nat /\ y \in Nat /\ z \in Nat /\ Len(leaderLog[y]) \in Nat
  BY <1>3 DEF LogsTyped
<1>5. k \in 1..Len(l) /\ l[k] = leaderLog[t][k] /\ l[k].Term = t
  BY DEF Has, OwnEntry
<1>6. CASE y = z /\ Len(m) >= Len(l)
  BY <1>3, <1>5, <1>6, SMTT(30) DEF Agree, Has
<1>7. CASE y > z
  <2>1. t <= z
    BY <1>2, <1>3, <1>5, TermsOrdered
  <2>2. k \in 1..Len(leaderLog[y]) /\ leaderLog[y][k] = leaderLog[t][k]
    BY <1>3, <1>4, <1>7, <2>1, SMTT(30) DEF Has
  <2>3. k <= Len(m)
    <3> SUFFICES ASSUME k > Len(m) PROVE FALSE
      BY <1>3, <1>5, SMTT(30)
    <3>1. leaderLog[y][Len(m)].Term = y /\ Len(m) \in 1..k
      BY <1>1, <1>3, <1>5, SMTT(30) DEF Agree
    <3>2. leaderLog[y] \in Seq(LogEntry) /\ Copied(leaderLog[y])
      BY <1>3 DEF LogsTyped, LedgerInv, LedgerOK
    <3>3. y <= leaderLog[y][k].Term
      BY <2>2, <3>1, <3>2, TermsOrdered
    <3> QED
      BY <1>4, <1>5, <1>7, <2>1, <2>2, <3>3, SMTT(30)
  <2> QED
    BY <1>3, <1>5, <2>2, <2>3, SMTT(30) DEF Agree, Has
<1> QED
  BY <1>1, <1>2, <1>6, <1>7
=============================================================================
