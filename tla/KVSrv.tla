------------------------------- MODULE KVSrv -------------------------------
(***************************************************************************)
(* The single key/value server of src/src/kvsrv and its clerks, over a     *)
(* network that loses requests and replies.                                *)
(*                                                                         *)
(* A clerk has one call outstanding, numbered by seq, and sends it again   *)
(* with the same seq until a reply arrives.  The server's three handlers   *)
(* run under kv.mu, so each is one action.  They find a repeated request   *)
(* by comparing its seq with the entry of clientTable, but only Append     *)
(* ever creates the entry: for a client that never appended, Get and Put   *)
(* run again.                                                              *)
(*                                                                         *)
(* Losing a request leaves the clerk where it was (Call returns false and  *)
(* the loop sends the same request), so it is a stuttering step.           *)
(*                                                                         *)
(* A string is the sequence of the pieces it was concatenated from, "" is  *)
(* the empty sequence.                                                     *)
(***************************************************************************)
EXTENDS Integers, Sequences

CONSTANTS Clients, Keys, Strings,
          Nil,      \* no entry in the map
          MaxSeq    \* bound: calls a clerk makes

VARIABLES
    data,         \* KVServer.data, "" for a missing key
    clientTable,  \* KVServer.clientTable
    clerk,        \* the clerks: their call in progress and its reply
    effect        \* history: did the call in progress run, with what result

vars == <<data, clientTable, clerk, effect>>

Ops == {"Get", "Put", "Append"}
String == Seq(Strings)
DupTable == [seq : Int, value : String]
Clerk == [pc : {"idle", "calling", "replied"}, op : Ops, Key : Keys,
          Value : String, seq : 0..MaxSeq, reply : String]
Effect == [done : BOOLEAN, out : String]

ASSUME ConstantsAssumption ==
    MaxSeq \in Nat /\ Keys # {} /\ Nil \notin DupTable

(* one type invariant: the server's maps and the clerks' records *)
TypeOK ==
    /\ data \in [Keys -> String]
    /\ clientTable \in [Clients -> DupTable \cup {Nil}]
    /\ clerk \in [Clients -> Clerk]
    /\ effect \in [Clients -> Effect]

MakeClerk == [pc |-> "idle", op |-> "Get", Key |-> CHOOSE k \in Keys : TRUE,
              Value |-> <<>>, seq |-> 0, reply |-> <<>>]

Init ==
    /\ data = [k \in Keys |-> <<>>]
    /\ clientTable = [c \in Clients |-> Nil]
    /\ clerk = [c \in Clients |-> MakeClerk]
    /\ effect = [c \in Clients |-> [done |-> FALSE, out |-> <<>>]]

-----------------------------------------------------------------------------
(* The clerk.  PutAppend and Get differ only in the handler they name.     *)
(* Here and below a definition whose name adds a fault to the next one's   *)
(* (ReturnOnValue, PutForgets...) is a wrong variant that no specification *)
(* uses: the properties must notice it.                                    *)

Invoke(c, op, k, v) ==
    /\ clerk[c].pc = "idle"
    /\ clerk[c].seq < MaxSeq
    /\ clerk' = [clerk EXCEPT ![c] = [pc |-> "calling", op |-> op, Key |-> k,
                   Value |-> v, seq |-> @.seq + 1, reply |-> <<>>]]
    /\ effect' = [effect EXCEPT ![c] = [done |-> FALSE, out |-> <<>>]]
    /\ UNCHANGED <<data, clientTable>>

(* Call returned false after the handler ran: the same args are sent again *)
LoseReply(c) ==
    /\ clerk[c].pc = "replied"
    /\ clerk' = [clerk EXCEPT ![c].pc = "calling", ![c].reply = <<>>]
    /\ UNCHANGED <<data, clientTable, effect>>

ReturnOnValue(c) ==
    /\ clerk[c].pc = "replied"
    /\ clerk[c].reply # <<>>
    /\ clerk' = [clerk EXCEPT ![c].pc = "idle"]
    /\ UNCHANGED <<data, clientTable, effect>>

Return(c) ==
    /\ clerk[c].pc = "replied"
    /\ clerk' = [clerk EXCEPT ![c].pc = "idle"]
    /\ UNCHANGED <<data, clientTable, effect>>

-----------------------------------------------------------------------------
(* The server's handlers, each with the reply it leaves for the clerk.     *)

Request(c, op) == clerk[c].pc = "calling" /\ clerk[c].op = op

Reply(c, value) ==
    clerk' = [clerk EXCEPT ![c].pc = "replied", ![c].reply = value]

Ran(c, value) == effect' = [effect EXCEPT ![c] = [done |-> TRUE, out |-> value]]

Duplicate(c) == clientTable[c] # Nil /\ clientTable[c].seq = clerk[c].seq

Remember(c, value) ==
    clientTable' = [clientTable EXCEPT ![c] = [seq |-> clerk[c].seq,
                                               value |-> value]]

Get(c) ==
    LET value == data[clerk[c].Key]
    IN  /\ Request(c, "Get")
        /\ \/ /\ Duplicate(c)
              /\ Reply(c, clientTable[c].value)
              /\ UNCHANGED <<clientTable, effect>>
           \/ /\ ~ Duplicate(c)
              /\ Reply(c, value)
              /\ Ran(c, value)
              /\ IF clientTable[c] = Nil THEN UNCHANGED clientTable
                                         ELSE Remember(c, value)
        /\ UNCHANGED data

PutAlwaysRuns(c) ==
    /\ Request(c, "Put")
    /\ data' = [data EXCEPT ![clerk[c].Key] = clerk[c].Value]
    /\ Reply(c, <<>>)
    /\ Ran(c, <<>>)
    /\ IF clientTable[c] = Nil THEN UNCHANGED clientTable
                               ELSE Remember(c, <<>>)

PutForgets(c) ==
    /\ Request(c, "Put")
    /\ Reply(c, <<>>)
    /\ \/ Duplicate(c) /\ UNCHANGED <<data, clientTable, effect>>
       \/ /\ ~ Duplicate(c)
          /\ data' = [data EXCEPT ![clerk[c].Key] = clerk[c].Value]
          /\ Ran(c, <<>>)
          /\ UNCHANGED clientTable

Put(c) ==
    /\ Request(c, "Put")
    /\ Reply(c, <<>>)
    /\ \/ Duplicate(c) /\ UNCHANGED <<data, clientTable, effect>>
       \/ /\ ~ Duplicate(c)
          /\ data' = [data EXCEPT ![clerk[c].Key] = clerk[c].Value]
          /\ Ran(c, <<>>)
          /\ IF clientTable[c] = Nil THEN UNCHANGED clientTable
                                     ELSE Remember(c, <<>>)

(* a new client's entry {-1, ""} matches no seq, so the call runs *)
KVAppend(c) ==
    LET value == data[clerk[c].Key]
    IN  /\ Request(c, "Append")
        /\ \/ /\ Duplicate(c)
              /\ Reply(c, clientTable[c].value)
              /\ UNCHANGED <<data, clientTable, effect>>
           \/ /\ ~ Duplicate(c)
              /\ Remember(c, value)
              /\ Reply(c, value)
              /\ data' = [data EXCEPT ![clerk[c].Key] = @ \o clerk[c].Value]
              /\ Ran(c, value)

Handle(c) == Get(c) \/ Put(c) \/ KVAppend(c)

CallsOf(c) ==
    \E k \in Keys :
        \/ Invoke(c, "Get", k, <<>>)
        \/ \E s \in Strings : \/ Invoke(c, "Put", k, <<s>>)
                              \/ Invoke(c, "Append", k, <<s>>)

Next ==
    \E c \in Clients : CallsOf(c) \/ Handle(c) \/ LoseReply(c) \/ Return(c)

Spec == Init /\ [][Next]_vars

-----------------------------------------------------------------------------
(* The mapping to the atomic store: a call is done once its handler ran    *)
(* past the duplicate check; what the application receives is the reply.   *)

AbstractCall(c) ==
    [pc |-> IF clerk[c].pc = "idle" THEN "idle"
            ELSE IF effect[c].done THEN "done" ELSE "called",
     op |-> clerk[c].op, key |-> clerk[c].Key, arg |-> clerk[c].Value,
     out |-> IF clerk[c].pc = "idle" THEN clerk[c].reply ELSE effect[c].out]

Atomic == INSTANCE AtomicKV WITH
              store <- data,
              call <- [c \in Clients |-> AbstractCall(c)],
              NoCall <- [pc |-> "idle", op |-> "Get",
                         key |-> CHOOSE k \in Keys : TRUE,
                         arg |-> <<>>, out |-> <<>>]

(* the case the duplicate table misses: a client without an entry repeats  *)
(* a Put that ran already                                                  *)
PutRunsAgain(c) ==
    /\ Put(c)
    /\ effect[c].done
    /\ clientTable[c] = Nil

(***************************************************************************)
(* Why the duplicate check works: the entry is never ahead of the clerk,   *)
(* it has the number of the call in progress exactly when that call ran,   *)
(* it then holds the result, and a reply on its way is that result.  An    *)
(* Append that ran always left an entry.                                   *)
(***************************************************************************)
Agrees(c) ==
    /\ clientTable[c] # Nil =>
         /\ clientTable[c].seq <= clerk[c].seq
         /\ clerk[c].pc # "idle" =>
              /\ clientTable[c].seq = clerk[c].seq <=> effect[c].done
              /\ effect[c].done => clientTable[c].value = effect[c].out
    /\ clerk[c].pc # "idle" /\ effect[c].done =>
         /\ clerk[c].op = "Append" => clientTable[c] # Nil
         /\ clerk[c].op = "Put" => effect[c].out = <<>>
    /\ clerk[c].pc = "replied" =>
         effect[c].done /\ clerk[c].reply = effect[c].out

TableAgrees == \A c \in Clients : Agrees(c)

(***************************************************************************)
(* Every call takes effect exactly once between its invocation and its     *)
(* return, and returns the value of that moment, whatever replies are      *)
(* lost: each step of the clerks and handlers is a step of the atomic      *)
(* store, except that a client that never appended may run a Put again.    *)
(***************************************************************************)
AtomicButRepeatedPut ==
    Atomic!Init /\ [][Atomic!Next \/ \E c \in Clients : PutRunsAgain(c)]_(Atomic!vars)

(***************************************************************************)
(* The clerk's loop "keeps trying forever": under the fairness of          *)
(* KVHistory every call returns, so no client is stuck in a call the       *)
(* network disturbs.                                                       *)
(***************************************************************************)
EveryCallReturns ==
    \A c \in Clients : clerk[c].pc = "calling" ~> clerk[c].pc = "idle"
=============================================================================
