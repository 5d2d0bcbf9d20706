--------------------------- MODULE ServiceProofs ---------------------------
(***************************************************************************)
(* The other two labs and the network below them.  KVSrv, for any clients, *)
(* keys and strings and any number of calls: its types, the agreement of   *)
(* duplicate table and clerks, and the atomicity of the calls.  LabRPC,    *)
(* for any calls, ends, names, servers and tester's operations: a call     *)
(* that returns true has had its handler run.  MapReduce, for every number *)
(* of workers, map and reduce tasks, crashes and slow executions: its      *)
(* safety.                                                                 *)
(***************************************************************************)
EXTENDS KVSrv, LabRPC, MapReduce, FiniteSetTheorems, TLAPS

-----------------------------------------------------------------------------
(* The key/value server *)

(* the inductive invariant of KVSrv *)
Inv == TypeOK /\ TableAgrees

(* The initial state has the types and an empty table agrees with anything *)
LEMMA InitInv == Init => Inv
  <1> SUFFICES ASSUME Init PROVE Inv
    OBVIOUS
  <1> USE ConstantsAssumption
  <1>1. <<>> \in String
    BY DEF String
  <1>2. (CHOOSE k \in Keys : TRUE) \in Keys
    OBVIOUS
  <1>3. MakeClerk \in Clerk
    BY <1>1, <1>2 DEF MakeClerk, Clerk, Ops
  <1>4. [done |-> FALSE, out |-> <<>>] \in Effect
    BY <1>1 DEF Effect
  <1>5. TypeOK
    BY <1>1, <1>3, <1>4 DEF TypeOK, Init
  <1>6. TableAgrees
    BY Zenon DEF TableAgrees, Agrees, Init, MakeClerk
  <1> QED
    BY <1>5, <1>6 DEF Inv

(* Concatenation and one piece are strings: what Append and the calls build *)
LEMMA Strings1 ==
    /\ <<>> \in String
    /\ \A s \in Strings : <<s>> \in String
    /\ \A u, v \in String : u \o v \in String
  BY DEF String

(* The steps of the clerks keep the types *)
LEMMA ClerkTypes ==
  ASSUME TypeOK, NEW c \in Clients,
         CallsOf(c) \/ LoseReply(c) \/ Return(c)
  PROVE  TypeOK'
  <1> USE ConstantsAssumption
  <1>0. clerk[c] \in Clerk
    BY DEF TypeOK
  <1>1. CASE CallsOf(c)
    <2>1. PICK op \in Ops, k \in Keys, v \in String : Invoke(c, op, k, v)
      BY <1>1, Strings1, Zenon DEF CallsOf, Ops
    <2> DEFINE new == [pc |-> "calling", op |-> op, Key |-> k, Value |-> v,
                       seq |-> clerk[c].seq + 1, reply |-> <<>>]
    <2>2. new \in Clerk
      BY <1>0, <2>1, Strings1 DEF Clerk, Invoke
    <2>3. [done |-> FALSE, out |-> <<>>] \in Effect
      BY Strings1 DEF Effect
    <2>4. clerk' = [clerk EXCEPT ![c] = new]
      BY <2>1 DEF Invoke
    <2> HIDE DEF new
    <2> QED
      BY <2>1, <2>2, <2>3, <2>4 DEF TypeOK, Invoke
  <1>2. CASE LoseReply(c)
    BY <1>0, <1>2, Strings1, Zenon DEF TypeOK, LoseReply, Clerk
  <1>3. CASE Return(c)
    BY <1>0, <1>3 DEF TypeOK, Return, Clerk
  <1> QED
    BY <1>1, <1>2, <1>3

(* The handlers keep the types *)
LEMMA HandlerTypes ==
  ASSUME TypeOK, NEW c \in Clients, Handle(c)
  PROVE  TypeOK'
  <1> USE ConstantsAssumption
  <1> DEFINE value == data[clerk[c].Key]
  <1>0. /\ clerk[c] \in Clerk /\ clerk[c].Key \in Keys
        /\ clerk[c].Value \in String /\ value \in String
        /\ clerk[c].seq \in Int
    BY DEF TypeOK, Clerk
  <1>1. ASSUME NEW v \in String, Reply(c, v)
        PROVE  clerk' \in [Clients -> Clerk]
    BY <1>0, <1>1, Zenon DEF TypeOK, Reply, Clerk
  <1>2. ASSUME NEW v \in String, Remember(c, v)
        PROVE  clientTable' \in [Clients -> DupTable \cup {Nil}]
    <2>1. [seq |-> clerk[c].seq, value |-> v] \in DupTable
      BY <1>0, <1>2 DEF DupTable
    <2> QED
      BY <2>1, <1>2 DEF TypeOK, Remember
  <1>3. ASSUME NEW v \in String, Ran(c, v)
        PROVE  effect' \in [Clients -> Effect]
    <2>1. [done |-> TRUE, out |-> v] \in Effect
      BY <1>3 DEF Effect
    <2> QED
      BY <2>1, <1>3 DEF TypeOK, Ran
  <1>4. Duplicate(c) => clientTable[c].value \in String
    BY DEF TypeOK, Duplicate, DupTable
  <1> HIDE DEF value
  <1>5. CASE Get(c)
    BY <1>0, <1>1, <1>2, <1>3, <1>4, <1>5 DEF TypeOK, Get, value
  <1>6. CASE Put(c)
    BY <1>0, <1>1, <1>2, <1>3, <1>6, Strings1 DEF TypeOK, Put
  <1>7. CASE KVAppend(c)
    <2>1. CASE Duplicate(c)
      BY <1>1, <1>4, <1>7, <2>1 DEF TypeOK, KVAppend
    <2>2. CASE ~ Duplicate(c)
      <3>1. /\ Remember(c, value) /\ Reply(c, value) /\ Ran(c, value)
            /\ data' = [data EXCEPT ![clerk[c].Key] = value \o clerk[c].Value]
        BY <1>7, <2>2, Zenon DEF KVAppend, value
      <3>2. value \o clerk[c].Value \in String
        BY <1>0, Strings1
      <3> QED
        BY <1>0, <1>1, <1>2, <1>3, <3>1, <3>2 DEF TypeOK
    <2> QED
      BY <2>1, <2>2
  <1> QED
    BY <1>5, <1>6, <1>7 DEF Handle

(* A step of client c leaves the other clients' rows alone *)
LEMMA OthersAgree ==
  ASSUME TypeOK, TableAgrees, NEW c \in Clients, NEW d \in Clients, d # c,
         CallsOf(c) \/ Handle(c) \/ LoseReply(c) \/ Return(c)
  PROVE  Agrees(d)'
  <1>1. /\ clerk'[d] = clerk[d]
        /\ clientTable'[d] = clientTable[d]
        /\ effect'[d] = effect[d]
    <2>1. CASE CallsOf(c)
      BY <2>1 DEF TypeOK, CallsOf, Invoke
    <2>2. CASE Handle(c)
      BY <2>2, Zenon DEF TypeOK, Handle, Get, Put, KVAppend, Reply, Ran, Remember
    <2>3. CASE LoseReply(c) \/ Return(c)
      BY <2>3 DEF TypeOK, LoseReply, Return
    <2> QED
      BY <2>1, <2>2, <2>3
  <1>2. Agrees(d)
    BY DEF TableAgrees
  <1> QED
    BY <1>1, <1>2 DEF Agrees

(* The clerk's own steps keep its row: a new call has a number the table   *)
(* does not have yet, and a lost reply forgets nothing                     *)
LEMMA ClerkAgrees ==
  ASSUME TypeOK, TableAgrees, NEW c \in Clients,
         CallsOf(c) \/ LoseReply(c) \/ Return(c)
  PROVE  Agrees(c)'
  <1>0. /\ clerk[c].seq \in Int
        /\ clientTable[c] # Nil => clientTable[c].seq \in Int
        /\ Agrees(c)
    BY ConstantsAssumption DEF TypeOK, Clerk, DupTable, TableAgrees
  <1>1. CASE CallsOf(c)
    <2>1. /\ clerk'[c].pc = "calling"
          /\ clerk'[c].seq = clerk[c].seq + 1
          /\ effect'[c].done = FALSE
          /\ clientTable' = clientTable
      BY <1>1 DEF TypeOK, CallsOf, Invoke
    <2> QED
      BY <1>0, <2>1 DEF Agrees
  <1>2. CASE LoseReply(c)
    <2>1. /\ clerk[c].pc = "replied" /\ clerk'[c].pc = "calling"
          /\ clerk'[c].seq = clerk[c].seq /\ clerk'[c].op = clerk[c].op
          /\ effect' = effect /\ clientTable' = clientTable
      BY <1>2 DEF TypeOK, LoseReply
    <2> QED
      BY <1>0, <2>1 DEF Agrees
  <1>3. CASE Return(c)
    <2>1. /\ clerk'[c].pc = "idle" /\ clerk'[c].seq = clerk[c].seq
          /\ effect' = effect /\ clientTable' = clientTable
      BY <1>3 DEF TypeOK, Return
    <2> QED
      BY <1>0, <2>1 DEF Agrees
  <1> QED
    BY <1>1, <1>2, <1>3

(* The handlers keep the row: a duplicate is answered with the result in   *)
(* the table, and a call that runs is recorded with its own number         *)
LEMMA HandlerAgrees ==
  ASSUME TypeOK, TableAgrees, NEW c \in Clients, Handle(c)
  PROVE  Agrees(c)'
  <1>0. /\ clerk[c].seq \in Int
        /\ clerk[c].pc = "calling"
        /\ effect[c].done \in BOOLEAN
        /\ Agrees(c)
    <2>1. clerk[c] \in Clerk /\ effect[c] \in Effect
      BY DEF TypeOK
    <2>2. clerk[c].seq \in Int /\ effect[c].done \in BOOLEAN
      BY <2>1 DEF Clerk, Effect
    <2>3. clerk[c].pc = "calling"
      BY Zenon DEF Handle, Get, Put, KVAppend, Request
    <2> QED
      BY <2>2, <2>3 DEF TableAgrees
  <1>1. ASSUME NEW v, Reply(c, v)
        PROVE  /\ clerk'[c].pc = "replied" /\ clerk'[c].reply = v
               /\ clerk'[c].seq = clerk[c].seq /\ clerk'[c].op = clerk[c].op
    BY <1>1 DEF TypeOK, Reply, Clerk
  <1>2. ASSUME NEW v, Reply(c, v), Duplicate(c), v = clientTable[c].value,
               UNCHANGED <<clientTable, effect>>
        PROVE  Agrees(c)'
    BY <1>0, <1>1, <1>2 DEF Agrees, Duplicate
  <1>3. ASSUME NEW v, Reply(c, v), Ran(c, v), clerk[c].op = "Put" => v = <<>>,
               Remember(c, v)
        PROVE  Agrees(c)'
    <2>1. clientTable'[c] = [seq |-> clerk[c].seq, value |-> v]
      BY <1>3 DEF TypeOK, Remember
    <2>2. effect'[c] = [done |-> TRUE, out |-> v]
      BY <1>3 DEF TypeOK, Ran
    <2>3. clientTable'[c] # Nil
      <3>1. clientTable'[c] \in DupTable \/ v \notin String
        BY <2>1, <1>0 DEF DupTable
      <3> QED
        BY <1>3, <3>1, ConstantsAssumption, HandlerTypes, <2>2 DEF TypeOK, Effect
    <2> QED
      BY <1>0, <1>1, <1>3, <2>1, <2>2, <2>3 DEF Agrees
  <1>4. ASSUME NEW v, Reply(c, v), Ran(c, v), clerk[c].op = "Put" => v = <<>>,
               clientTable[c] = Nil, UNCHANGED clientTable,
               clerk[c].op # "Append"
        PROVE  Agrees(c)'
    <2>1. effect'[c] = [done |-> TRUE, out |-> v]
      BY <1>4 DEF TypeOK, Ran
    <2> QED
      BY <1>0, <1>1, <1>4, <2>1 DEF Agrees
  <1>5. CASE Get(c)
    BY <1>2, <1>3, <1>4, <1>5 DEF Get, Request
  <1>6. CASE Put(c)
    <2>1. Duplicate(c) => clientTable[c].value = <<>>
      BY <1>0, <1>6 DEF Agrees, Duplicate, Put, Request
    <2> QED
      BY <1>2, <1>3, <1>4, <1>6, <2>1 DEF Put, Request
  <1>7. CASE KVAppend(c)
    BY <1>2, <1>3, <1>7, Zenon DEF KVAppend, Request
  <1> QED
    BY <1>5, <1>6, <1>7 DEF Handle

(* Every step keeps the invariant *)
LEMMA NextInv == Inv /\ [Next]_vars => Inv'
  <1> SUFFICES ASSUME Inv, [Next]_vars PROVE Inv'
    OBVIOUS
  <1>1. CASE UNCHANGED vars
    BY <1>1 DEF Inv, vars, TypeOK, TableAgrees, Agrees
  <1>2. CASE Next
    <2>1. PICK c \in Clients :
            CallsOf(c) \/ Handle(c) \/ LoseReply(c) \/ Return(c)
      BY <1>2 DEF Next
    <2>2. TypeOK'
      BY <2>1, ClerkTypes, HandlerTypes DEF Inv
    <2>3. \A d \in Clients : Agrees(d)'
      BY <2>1, OthersAgree, ClerkAgrees, HandlerAgrees DEF Inv
    <2> QED
      BY <2>2, <2>3 DEF Inv, TableAgrees
  <1> QED
    BY <1>1, <1>2

(* Inv is an invariant. *)
LEMMA InvAlways == Spec => []Inv
  BY InitInv, NextInv, PTL DEF Spec

(* The server's maps and the clerks keep their types *)
THEOREM KVTypeCorrect == Spec => []TypeOK
  <1>1. Inv => TypeOK
    BY DEF Inv
  <1> QED
    BY InvAlways, <1>1, PTL

(* The duplicate table always agrees with the clerks: an entry has the     *)
(* number of the call in progress exactly when that call ran, and then     *)
(* holds its result                                                        *)
THEOREM TableCorrect == Spec => []TableAgrees
  <1>1. Inv => TableAgrees
    BY DEF Inv
  <1> QED
    BY InvAlways, <1>1, PTL

-----------------------------------------------------------------------------
(* Atomicity.  Abs is the refinement mapping's value of the calls.         *)

Abs == [c \in Clients |-> AbstractCall(c)]

(* Changing the row of one client changes one row of the abstract calls *)
LEMMA AbsStep ==
  ASSUME NEW c \in Clients, NEW row,
         AbstractCall(c)' = row,
         \A d \in Clients \ {c} : clerk'[d] = clerk[d] /\ effect'[d] = effect[d]
  PROVE  Abs' = [Abs EXCEPT ![c] = row]
  <1>1. \A d \in Clients \ {c} : AbstractCall(d)' = AbstractCall(d)
    BY DEF AbstractCall
  <1> QED
    BY <1>1, Zenon DEF Abs

(* A step that keeps a client's abstract row is a stutter of the calls *)
LEMMA AbsStutter ==
  ASSUME NEW c \in Clients, AbstractCall(c)' = AbstractCall(c),
         \A d \in Clients \ {c} : clerk'[d] = clerk[d] /\ effect'[d] = effect[d]
  PROVE  Abs' = Abs
  BY AbsStep, Zenon DEF Abs

(* Making a call is the atomic store's Invoke *)
LEMMA InvokeRefines ==
  ASSUME TypeOK, NEW c \in Clients, CallsOf(c)
  PROVE  Atomic!Invoke(c)
  <1>1. PICK op \in Ops, k \in Keys : \E v \in Atomic!Args(op) : Invoke(c, op, k, v)
    BY Zenon DEF CallsOf, Ops, Atomic!Args
  <1>2. PICK v \in Atomic!Args(op) : Invoke(c, op, k, v)
    BY <1>1
  <1> DEFINE row == [pc |-> "called", op |-> op, key |-> k, arg |-> v, out |-> <<>>]
  <1>3. /\ clerk'[c] = [pc |-> "calling", op |-> op, Key |-> k, Value |-> v,
                        seq |-> clerk[c].seq + 1, reply |-> <<>>]
        /\ effect'[c] = [done |-> FALSE, out |-> <<>>]
        /\ \A d \in Clients \ {c} : clerk'[d] = clerk[d] /\ effect'[d] = effect[d]
        /\ data' = data
        /\ clerk[c].pc = "idle"
    BY <1>2 DEF TypeOK, Invoke
  <1>4. AbstractCall(c)' = row
    BY <1>3 DEF AbstractCall
  <1>5. Abs' = [Abs EXCEPT ![c] = row]
    <2> HIDE DEF row
    <2> QED
      BY <1>3, <1>4, AbsStep
  <1>6. Abs[c].pc = "idle"
    BY <1>3 DEF Abs, AbstractCall
  <1> QED
    BY <1>2, <1>3, <1>5, <1>6, ZenonT(60) DEF Atomic!Invoke, Atomic!Ops, Ops, Abs

(* A lost reply is invisible, and a return hands over the recorded result *)
LEMMA ReplyRefines ==
  ASSUME TypeOK, TableAgrees, NEW c \in Clients, LoseReply(c) \/ Return(c)
  PROVE  Atomic!Return(c) \/ UNCHANGED Atomic!vars
  <1>0. /\ clerk[c].pc = "replied" /\ effect[c].done
        /\ clerk[c].reply = effect[c].out
        /\ effect' = effect /\ data' = data
        /\ \A d \in Clients \ {c} : clerk'[d] = clerk[d]
        /\ clerk'[c].op = clerk[c].op /\ clerk'[c].Key = clerk[c].Key
        /\ clerk'[c].Value = clerk[c].Value
    BY DEF TypeOK, Clerk, TableAgrees, Agrees, LoseReply, Return
  <1>1. CASE LoseReply(c)
    <2>1. clerk'[c].pc = "calling"
      BY <1>1 DEF TypeOK, LoseReply
    <2>2. AbstractCall(c)' = AbstractCall(c)
      BY <1>0, <2>1 DEF AbstractCall
    <2>3. Abs' = Abs
      BY <1>0, <2>2, AbsStutter
    <2> QED
      BY <1>0, <2>3 DEF Atomic!vars, Abs
  <1>2. CASE Return(c)
    <2>1. clerk'[c].pc = "idle" /\ clerk'[c].reply = clerk[c].reply
      BY <1>2 DEF TypeOK, Return, Clerk
    <2>2. AbstractCall(c)' = [AbstractCall(c) EXCEPT !.pc = "idle"]
      BY <1>0, <2>1 DEF AbstractCall
    <2>3. Abs' = [Abs EXCEPT ![c].pc = "idle"]
      BY <1>0, <2>2, AbsStep DEF Abs
    <2>4. Abs[c].pc = "done"
      BY <1>0 DEF Abs, AbstractCall
    <2> QED
      BY <1>0, <2>3, <2>4 DEF Atomic!Return, Abs
  <1> QED
    BY <1>1, <1>2

(* A handler that runs a call which did not run, or a Get, is Perform *)
LEMMA RunRefines ==
  ASSUME TypeOK, NEW c \in Clients, clerk[c].pc = "calling",
         ~ effect[c].done \/ clerk[c].op = "Get",
         NEW value, value = Atomic!Output(clerk[c].op, data[clerk[c].Key]),
         Reply(c, value), Ran(c, value),
         data' = [data EXCEPT ![clerk[c].Key] =
                    Atomic!NewValue(clerk[c].op, @, clerk[c].Value)]
  PROVE  Atomic!Perform(c)
  <1>1. /\ clerk'[c].pc = "replied"
        /\ clerk'[c].op = clerk[c].op /\ clerk'[c].Key = clerk[c].Key
        /\ clerk'[c].Value = clerk[c].Value
        /\ \A d \in Clients \ {c} : clerk'[d] = clerk[d]
    BY DEF TypeOK, Clerk, Reply
  <1>2. /\ effect'[c] = [done |-> TRUE, out |-> value]
        /\ \A d \in Clients \ {c} : effect'[d] = effect[d]
    BY DEF TypeOK, Ran
  <1>3. AbstractCall(c)' = [AbstractCall(c) EXCEPT !.pc = "done", !.out = value]
    <2>1. effect'[c].done /\ effect'[c].out = value
      BY <1>2
    <2>2. AbstractCall(c)' = [pc |-> "done", op |-> clerk[c].op,
                              key |-> clerk[c].Key, arg |-> clerk[c].Value,
                              out |-> value]
      BY <1>1, <2>1 DEF AbstractCall
    <2>3. PICK p, x : AbstractCall(c) = [pc |-> p, op |-> clerk[c].op,
                              key |-> clerk[c].Key, arg |-> clerk[c].Value,
                              out |-> x]
      BY Zenon DEF AbstractCall
    <2> DEFINE marked == [AbstractCall(c) EXCEPT !.pc = "done"]
    <2>4. marked = [pc |-> "done", op |-> clerk[c].op, key |-> clerk[c].Key,
                    arg |-> clerk[c].Value, out |-> x]
      BY <2>3
    <2>5. [marked EXCEPT !.out = value]
            = [AbstractCall(c) EXCEPT !.pc = "done", !.out = value]
      OBVIOUS
    <2> HIDE DEF marked
    <2>6. [marked EXCEPT !.out = value]
            = [pc |-> "done", op |-> clerk[c].op, key |-> clerk[c].Key,
               arg |-> clerk[c].Value, out |-> value]
      BY <2>4
    <2> QED
      BY <2>2, <2>5, <2>6
  <1>4. Abs' = [Abs EXCEPT ![c].pc = "done", ![c].out = value]
    BY <1>1, <1>2, <1>3, AbsStep DEF Abs
  <1>5. /\ Abs[c].pc = IF effect[c].done THEN "done" ELSE "called"
        /\ Abs[c].op = clerk[c].op /\ Abs[c].key = clerk[c].Key
        /\ Abs[c].arg = clerk[c].Value
    BY DEF Abs, AbstractCall
  <1> QED
    BY <1>4, <1>5, Zenon DEF Atomic!Perform, Abs

(* A handler that answers a duplicate from the table is a stutter *)
LEMMA DuplicateRefines ==
  ASSUME TypeOK, NEW c \in Clients, clerk[c].pc = "calling", NEW v, Reply(c, v),
         UNCHANGED <<data, effect>>
  PROVE  UNCHANGED Atomic!vars
  <1>1. /\ clerk'[c].pc = "replied"
        /\ clerk'[c].op = clerk[c].op /\ clerk'[c].Key = clerk[c].Key
        /\ clerk'[c].Value = clerk[c].Value
        /\ \A d \in Clients \ {c} : clerk'[d] = clerk[d]
    BY DEF TypeOK, Clerk, Reply
  <1>2. AbstractCall(c)' = AbstractCall(c)
    BY <1>1 DEF AbstractCall
  <1>3. Abs' = Abs
    BY <1>1, <1>2, AbsStutter
  <1> QED
    BY <1>3 DEF Atomic!vars, Abs

(* Each handler performs the call, answers it again, or repeats a Put *)
LEMMA HandleRefines ==
  ASSUME TypeOK, TableAgrees, NEW c \in Clients, Handle(c)
  PROVE  \/ Atomic!Perform(c)
         \/ UNCHANGED Atomic!vars
         \/ PutRunsAgain(c)
  <1>0. clerk[c].pc = "calling" /\ clerk[c].Key \in Keys
    BY Zenon DEF TypeOK, Clerk, Handle, Get, Put, KVAppend, Request
  <1>1. clientTable[c] # Nil /\ effect[c].done => Duplicate(c)
    BY <1>0 DEF TableAgrees, Agrees, Duplicate
  <1>2. CASE Get(c)
    <2>1. CASE Duplicate(c)
      BY <1>0, <1>2, <2>1, DuplicateRefines DEF Get
    <2>2. CASE ~ Duplicate(c)
      <3>1. data[clerk[c].Key] = Atomic!Output(clerk[c].op, data[clerk[c].Key])
        BY <1>2 DEF Get, Request, Atomic!Output
      <3>2. data' = [data EXCEPT ![clerk[c].Key] =
                       Atomic!NewValue(clerk[c].op, @, clerk[c].Value)]
        BY <1>0, <1>2 DEF Get, Request, Atomic!NewValue, TypeOK
      <3> QED
        BY <1>0, <1>2, <2>2, <3>1, <3>2, RunRefines, Zenon DEF Get, Request
    <2> QED
      BY <2>1, <2>2
  <1>3. CASE Put(c)
    <2>1. CASE Duplicate(c)
      BY <1>0, <1>3, <2>1, DuplicateRefines DEF Put
    <2>2. CASE ~ Duplicate(c) /\ effect[c].done
      BY <1>1, <1>3, <2>2 DEF PutRunsAgain
    <2>3. CASE ~ Duplicate(c) /\ ~ effect[c].done
      <3>1. <<>> = Atomic!Output(clerk[c].op, data[clerk[c].Key])
        BY <1>3 DEF Put, Request, Atomic!Output
      <3>2. data' = [data EXCEPT ![clerk[c].Key] =
                       Atomic!NewValue(clerk[c].op, @, clerk[c].Value)]
        BY <1>3, <2>3 DEF Put, Request, Atomic!NewValue
      <3> QED
        BY <1>0, <1>3, <2>3, <3>1, <3>2, RunRefines, Zenon DEF Put
    <2> QED
      BY <2>1, <2>2, <2>3
  <1>4. CASE KVAppend(c)
    <2>1. CASE Duplicate(c)
      BY <1>0, <1>4, <2>1, DuplicateRefines DEF KVAppend
    <2>2. CASE ~ Duplicate(c)
      <3>1. data[clerk[c].Key] = Atomic!Output(clerk[c].op, data[clerk[c].Key])
        BY <1>4 DEF KVAppend, Request, Atomic!Output
      <3>2. data' = [data EXCEPT ![clerk[c].Key] =
                       Atomic!NewValue(clerk[c].op, @, clerk[c].Value)]
        BY <1>4, <2>2, Zenon DEF KVAppend, Request, Atomic!NewValue
      <3>3. ~ effect[c].done
        BY <1>0, <1>1, <1>4, <2>2 DEF TableAgrees, Agrees, KVAppend, Request
      <3> QED
        BY <1>0, <1>4, <2>2, <3>1, <3>2, <3>3, RunRefines, Zenon DEF KVAppend
    <2> QED
      BY <2>1, <2>2
  <1> QED
    BY <1>2, <1>3, <1>4 DEF Handle

(* Every call takes effect exactly once between its invocation and its     *)
(* return, and returns the value of that moment, except for the repeated   *)
(* Put of a client that has no entry in the duplicate table                *)
THEOREM CallsAtomic == Spec => AtomicButRepeatedPut
  <1>1. Init => Atomic!Init
    BY DEF Init, Atomic!Init, AbstractCall, MakeClerk
  <1>2. Inv /\ [Next]_vars =>
          [Atomic!Next \/ \E c \in Clients : PutRunsAgain(c)]_(Atomic!vars)
    <2> SUFFICES ASSUME Inv, [Next]_vars
                 PROVE  \/ Atomic!Next
                        \/ \E c \in Clients : PutRunsAgain(c)
                        \/ UNCHANGED Atomic!vars
      OBVIOUS
    <2>1. CASE UNCHANGED vars
      BY <2>1 DEF vars, Atomic!vars, AbstractCall
    <2>2. ASSUME NEW c \in Clients,
                 CallsOf(c) \/ Handle(c) \/ LoseReply(c) \/ Return(c)
          PROVE  \/ Atomic!Invoke(c) \/ Atomic!Perform(c) \/ Atomic!Return(c)
                 \/ PutRunsAgain(c)
                 \/ UNCHANGED Atomic!vars
      BY <2>2, InvokeRefines, HandleRefines, ReplyRefines DEF Inv
    <2> QED
      BY <2>1, <2>2 DEF Next, Atomic!Next
  <1> QED
    BY <1>1, <1>2, InvAlways, PTL DEF Spec, AtomicButRepeatedPut

-----------------------------------------------------------------------------
(* LabRPC *)

(* How far a call's handler can be when the call is at a given point, and  *)
(* that the server of a handler that ended too late never comes back: a    *)
(* restarted server has a new number.                                      *)
HandlerFollows(c) ==
    /\ call[c].pc \in {"idle", "send", "accepted", "deliver"} =>
         handler[c] = "none" /\ c \notin expired
    /\ call[c].pc = "wait" => handler[c] \in {"running", "replied"}
    /\ call[c].pc \in {"recheck", "delayed"} => handler[c] = "drained"
    /\ call[c].pc = "delayed" => c \notin expired
    /\ call[c].pc \in {"answer", "returned"} /\ call[c].ok =>
         handler[c] = "drained" /\ c \notin expired
    /\ handler[c] # "none" => call[c].name \in Names /\ call[c].server # 0
    /\ c \in expired => servers[call[c].name] # call[c].server /\ handler[c] # "none"

(* the inductive invariant *)
NetInv == NetTypeOK /\ \A c \in Calls : HandlerFollows(c)

-----------------------------------------------------------------------------
(* A network that was just made (MakeNetwork) has the invariant. *)
LEMMA InitNetInv == NetInit => NetInv
<1> SUFFICES ASSUME NetInit PROVE NetInv
    OBVIOUS
<1>1. NetTypeOK
  <2>1. {reliable, longReordering, done} \subseteq BOOLEAN
      BY Zenon DEF NetInit
  <2>2. /\ ends \subseteq Ends /\ enabled \in [Ends -> BOOLEAN]
        /\ connections \in [Ends -> Names \cup {NoName}]
        /\ added \in 0..MaxServers /\ toggles \in 0..MaxToggles
        /\ servers \in [Names -> 0..added]
      BY NetAssumption DEF NetInit
  <2>3. ASSUME NEW c \in Calls
        PROVE  /\ call[c] \in
                    [pc : {"idle", "send", "accepted", "deliver", "wait", "recheck",
                           "delayed", "answer", "returned"},
                     name : Names \cup {NoName}, server : 0..added, reliable : BOOLEAN,
                     longReordering : BOOLEAN, ok : BOOLEAN]
               /\ call[c].pc = "idle"
      BY DEF NetInit, Call0
  <2> QED
      BY <2>1, <2>2, <2>3 DEF NetInit, NetTypeOK
<1>2. ASSUME NEW c \in Calls PROVE HandlerFollows(c)
    BY DEF NetInit, HandlerFollows, Call0
<1> QED
    BY <1>1, <1>2 DEF NetInv

-----------------------------------------------------------------------------
(* A step of Call, of processReq or of a handler (labrpc.go:83 and 223)    *)
(* preserves the invariant.                                                *)
LEMMA ProgressNetInv ==
    ASSUME NetInv, NEW c \in Calls, Calling(c) \/ Progress(c) \/ HandlerReturns(c)
    PROVE  NetInv'
<1> USE DEF NetInv, netVars
<1>0. /\ call[c] \in [pc : {"idle", "send", "accepted", "deliver", "wait", "recheck",
                            "delayed", "answer", "returned"},
                      name : Names \cup {NoName}, server : 0..added, reliable : BOOLEAN,
                      longReordering : BOOLEAN, ok : BOOLEAN]
      /\ HandlerFollows(c)
    BY DEF NetTypeOK
<1>1. CASE Calling(c)
  <2>1. NetTypeOK'
      BY <1>0, <1>1 DEF Calling, Goes, NetTypeOK
  <2>2. ASSUME NEW d \in Calls PROVE HandlerFollows(d)'
      BY <1>1, HandlerFollows(d), <1>0 DEF Calling, Goes, HandlerFollows, NetTypeOK
  <2> QED BY <2>1, <2>2
<1>2. CASE Accept(c)
  <2>1. NetTypeOK'
      BY <1>0, <1>2 DEF Accept, Goes, NetTypeOK
  <2>2. ASSUME NEW d \in Calls PROVE HandlerFollows(d)'
      BY <1>2, HandlerFollows(d), <1>0 DEF Accept, Goes, HandlerFollows, NetTypeOK
  <2> QED BY <2>1, <2>2
<1>3. CASE Destroyed(c)
  <2>1. NetTypeOK'
      BY <1>0, <1>3, Zenon DEF Destroyed, NetTypeOK
  <2>2. ASSUME NEW d \in Calls PROVE HandlerFollows(d)'
      BY <1>3, HandlerFollows(d), <1>0 DEF Destroyed, HandlerFollows, NetTypeOK
  <2> QED BY <2>1, <2>2
<1>4. CASE readEndnameInfo(c)
  <2> DEFINE name == connections[End[c]]
  <2>0. name \in Names \cup {NoName} /\ ServerOf(name) \in 0..added
      BY NetAssumption DEF NetTypeOK, ServerOf, Ends
  <2> HIDE DEF name
  <2>1. CASE call' = [call EXCEPT ![c] =
                [pc |-> "deliver", name |-> name, server |-> ServerOf(name),
                 reliable |-> reliable, longReordering |-> longReordering, ok |-> FALSE]]
             /\ name # NoName /\ ServerOf(name) # 0
    <3>1. NetTypeOK'
        BY <1>0, <1>4, <2>0, <2>1 DEF readEndnameInfo, NetTypeOK
    <3>2. ASSUME NEW d \in Calls PROVE HandlerFollows(d)'
        BY <1>4, <2>0, <2>1, HandlerFollows(d), <1>0
        DEF readEndnameInfo, HandlerFollows, NetTypeOK
    <3> QED BY <3>1, <3>2
  <2>2. CASE Answers(c, FALSE)
    <3>1. NetTypeOK'
        BY <1>0, <1>4, <2>2 DEF readEndnameInfo, Answers, NetTypeOK
    <3>2. ASSUME NEW d \in Calls PROVE HandlerFollows(d)'
        BY <1>4, <2>2, HandlerFollows(d), <1>0
        DEF readEndnameInfo, Answers, HandlerFollows, NetTypeOK
    <3> QED BY <3>1, <3>2
  <2> QED BY <1>4, <2>1, <2>2, Zenon DEF readEndnameInfo, name
<1>5. CASE DropRequest(c)
  <2>1. NetTypeOK'
      BY <1>0, <1>5, Zenon DEF DropRequest, Answers, NetTypeOK
  <2>2. ASSUME NEW d \in Calls PROVE HandlerFollows(d)'
      BY <1>5, HandlerFollows(d), <1>0 DEF DropRequest, Answers, HandlerFollows, NetTypeOK
  <2> QED BY <2>1, <2>2
<1>6. CASE Dispatch(c)
  <2>1. NetTypeOK'
      BY <1>0, <1>6 DEF Dispatch, Goes, NetTypeOK
  <2>2. ASSUME NEW d \in Calls PROVE HandlerFollows(d)'
      BY <1>6, HandlerFollows(d), <1>0 DEF Dispatch, Goes, HandlerFollows, NetTypeOK
  <2> QED BY <2>1, <2>2
<1>7. CASE TakeReply(c)
  <2>1. NetTypeOK'
      BY <1>0, <1>7 DEF TakeReply, Goes, NetTypeOK
  <2>2. ASSUME NEW d \in Calls PROVE HandlerFollows(d)'
      BY <1>7, HandlerFollows(d), <1>0 DEF TakeReply, Goes, HandlerFollows, NetTypeOK
  <2> QED BY <2>1, <2>2
<1>8. CASE Poll(c)
  <2>1. NetTypeOK'
      BY <1>0, <1>8, Zenon DEF Poll, Answers, NetTypeOK
  <2>2. ASSUME NEW d \in Calls PROVE HandlerFollows(d)'
      BY <1>8, HandlerFollows(d), <1>0 DEF Poll, Answers, HandlerFollows, NetTypeOK
  <2> QED BY <2>1, <2>2
<1>9. CASE Recheck(c)
  <2>0. c \notin expired \/ isServerDead(c)
      BY <1>0 DEF HandlerFollows, isServerDead
  <2>1. NetTypeOK'
      BY <1>0, <1>9 DEF Recheck, Answers, Goes, NetTypeOK
  <2>2. ASSUME NEW d \in Calls PROVE HandlerFollows(d)'
    <3>1. CASE Answers(c, FALSE)
        BY <1>9, <3>1, HandlerFollows(d), <1>0 DEF Recheck, Answers, HandlerFollows, NetTypeOK
    <3>2. CASE Goes(c, "delayed") /\ ~isServerDead(c)
        BY <1>9, <2>0, <3>2, HandlerFollows(d), <1>0 DEF Recheck, Goes, HandlerFollows, NetTypeOK
    <3>3. CASE Answers(c, TRUE) /\ ~isServerDead(c)
        BY <1>9, <2>0, <3>3, HandlerFollows(d), <1>0 DEF Recheck, Answers, HandlerFollows, NetTypeOK
    <3> QED BY <1>9, <3>1, <3>2, <3>3, Zenon DEF Recheck
  <2> QED BY <2>1, <2>2
<1>10. CASE Delayed(c)
  <2>1. NetTypeOK'
      BY <1>0, <1>10, Zenon DEF Delayed, Answers, NetTypeOK
  <2>2. ASSUME NEW d \in Calls PROVE HandlerFollows(d)'
      BY <1>10, HandlerFollows(d), <1>0 DEF Delayed, Answers, HandlerFollows, NetTypeOK
  <2> QED BY <2>1, <2>2
<1>11. CASE Returns(c)
  <2>1. NetTypeOK'
      BY <1>0, <1>11 DEF Returns, Goes, NetTypeOK
  <2>2. ASSUME NEW d \in Calls PROVE HandlerFollows(d)'
      BY <1>11, HandlerFollows(d), <1>0 DEF Returns, Goes, HandlerFollows, NetTypeOK
  <2> QED BY <2>1, <2>2
<1>12. CASE HandlerReturns(c)
  <2>1. NetTypeOK'
      BY <1>0, <1>12 DEF HandlerReturns, NetTypeOK
  <2>2. ASSUME NEW d \in Calls PROVE HandlerFollows(d)'
      BY <1>12, HandlerFollows(d), <1>0 DEF HandlerReturns, HandlerFollows, ServerOf, NetTypeOK
  <2> QED BY <2>1, <2>2
<1> QED
    BY <1>1, <1>2, <1>3, <1>4, <1>5, <1>6, <1>7, <1>8, <1>9, <1>10, <1>11, <1>12 DEF Progress

-----------------------------------------------------------------------------
(* The tester's operations (MakeEnd, DeleteEnd, Connect, Enable, Reliable, *)
(* LongReordering, AddServer, DeleteServer, Cleanup) preserve the          *)
(* invariant: a new server's number is larger than every call's.           *)
LEMMA TesterNetInv == NetInv /\ Tester => NetInv'
<1> SUFFICES ASSUME NetInv, Tester PROVE NetInv'
    OBVIOUS
<1> USE DEF NetInv
<1>1. UNCHANGED <<call, handler, expired>>
    BY DEF Tester, MakeEnd, DeleteEnd, Connect, Enable, Reliable, LongReordering, Toggled,
           AddServer, DeleteServer, Cleanup
<1>2. CASE UNCHANGED <<servers, done, added>>
  <2>0. CASE \E e \in Ends : MakeEnd(e) \/ DeleteEnd(e)
    <3> PICK e \in Ends : MakeEnd(e) \/ DeleteEnd(e)
        BY <2>0
    <3>1. toggles' \in 0..MaxToggles /\ UNCHANGED <<reliable, longReordering>>
        BY NetAssumption DEF MakeEnd, DeleteEnd, Toggled, NetTypeOK
    <3>2. ends' \subseteq Ends
        BY DEF MakeEnd, DeleteEnd, NetTypeOK
    <3>3. enabled' \in [Ends -> BOOLEAN] /\ connections' \in [Ends -> Names \cup {NoName}]
        BY Zenon DEF MakeEnd, DeleteEnd, NetTypeOK
    <3>4. NetTypeOK'
        BY <1>1, <1>2, <3>1, <3>2, <3>3 DEF NetTypeOK
    <3>5. ASSUME NEW c \in Calls PROVE HandlerFollows(c)'
        BY <1>1, <1>2, HandlerFollows(c) DEF HandlerFollows
    <3> QED BY <3>4, <3>5
  <2>1. CASE \E e \in Ends, name \in Names : Connect(e, name)
      BY <1>1, <1>2, <2>1, NetAssumption DEF Connect, Toggled, NetTypeOK, HandlerFollows
  <2>2. CASE \E e \in Ends, yes \in BOOLEAN : Enable(e, yes)
      BY <1>1, <1>2, <2>2, NetAssumption DEF Enable, Toggled, NetTypeOK, HandlerFollows
  <2>3. CASE \E yes \in BOOLEAN : Reliable(yes) \/ LongReordering(yes)
      BY <1>1, <1>2, <2>3, NetAssumption
      DEF Reliable, LongReordering, Toggled, NetTypeOK, HandlerFollows
  <2>4. CASE \E name \in Names : AddServer(name)
      BY <1>2, <2>4 DEF AddServer, NetTypeOK
  <2>5. CASE \E name \in Names : DeleteServer(name)
      BY <1>1, <1>2, <2>5 DEF DeleteServer, NetTypeOK, HandlerFollows
  <2>6. CASE Cleanup
      BY <1>2, <2>6 DEF Cleanup
  <2> QED
      BY <2>0, <2>1, <2>2, <2>3, <2>4, <2>5, <2>6 DEF Tester
<1>3. ASSUME NEW name \in Names, AddServer(name) PROVE NetInv'
  <2>1. added' = added + 1 /\ servers' = [servers EXCEPT ![name] = added + 1]
        /\ added \in Nat /\ added' \in 0..MaxServers
      BY <1>3, NetAssumption DEF AddServer, NetTypeOK
  <2>2. servers' \in [Names -> 0..added']
      BY <2>1 DEF NetTypeOK
  <2>3. ASSUME NEW c \in Calls
        PROVE  call[c] \in
                  [pc : {"idle", "send", "accepted", "deliver", "wait", "recheck",
                         "delayed", "answer", "returned"},
                   name : Names \cup {NoName}, server : 0..added', reliable : BOOLEAN,
                   longReordering : BOOLEAN, ok : BOOLEAN]
      BY <2>1 DEF NetTypeOK
  <2>4. NetTypeOK'
      BY <1>1, <1>3, <2>1, <2>2, <2>3 DEF AddServer, NetTypeOK
  <2>5. ASSUME NEW c \in Calls PROVE HandlerFollows(c)'
    <3>1. call[c].server \in 0..added /\ HandlerFollows(c)
        BY DEF NetTypeOK
    <3>2. servers'[call[c].name] # call[c].server \/ c \notin expired
        BY <2>1, <3>1 DEF HandlerFollows, NetTypeOK
    <3> QED
        BY <1>1, <3>1, <3>2 DEF HandlerFollows
  <2> QED BY <2>4, <2>5
<1>4. ASSUME NEW name \in Names, DeleteServer(name) PROVE NetInv'
  <2>1. NetTypeOK'
      BY <1>1, <1>4, NetAssumption DEF DeleteServer, NetTypeOK
  <2>2. ASSUME NEW c \in Calls PROVE HandlerFollows(c)'
      BY <1>1, <1>4, HandlerFollows(c) DEF DeleteServer, NetTypeOK, HandlerFollows
  <2> QED BY <2>1, <2>2
<1>5. CASE Cleanup
    BY <1>1, <1>5 DEF Cleanup, NetTypeOK, HandlerFollows
<1> QED
    BY <1>2, <1>3, <1>4, <1>5
    DEF Tester, MakeEnd, DeleteEnd, Connect, Enable, Reliable, LongReordering, Toggled

-----------------------------------------------------------------------------
(* Every reachable state of the network has the invariant. *)
LEMMA NetInvAlways == NetSpec => []NetInv
<1>1. NetInv /\ [NetNext]_allNetVars => NetInv'
  <2> SUFFICES ASSUME NetInv, [NetNext]_allNetVars PROVE NetInv'
      OBVIOUS
  <2>1. CASE UNCHANGED allNetVars
      BY <2>1 DEF allNetVars, netVars, NetInv, NetTypeOK, HandlerFollows
  <2> QED
      BY <2>1, ProgressNetInv, TesterNetInv DEF NetNext
<1> QED
    BY <1>1, InitNetInv, PTL DEF NetSpec

(* The tables of the network and the state of every Call keep their types, *)
(* and a request on its way names a server that was added.                 *)
THEOREM NetTypeCorrect == NetSpec => []NetTypeOK
<1>1. NetInv => NetTypeOK
    BY DEF NetInv
<1> QED
    BY <1>1, NetInvAlways, PTL

(* Call (labrpc.go:83) returns true only if the handler has run, and never *)
(* with the reply of a handler that ended after its server was deleted,    *)
(* also if another one has its name by now.                                *)
THEOREM OkMeansExecutedHolds == NetSpec => []OkMeansExecuted
<1>1. NetInv => OkMeansExecuted
    BY DEF NetInv, HandlerFollows, OkMeansExecuted
<1> QED
    BY <1>1, NetInvAlways, PTL

-----------------------------------------------------------------------------
(* MapReduce.  Most facts are first-order; the ones with arithmetic name   *)
(* SMTT.                                                                   *)

USE ZenonT(30)

(* what each phase rests on *)
PhaseInv ==
    /\ phase = "Map" => \A t \in ReduceIds : task[t] = NewTask
    /\ phase # "Map" =>
         /\ \A t \in MapIds : task[t].TaskStat = "Finished"
         /\ \A y \in Reduces : inputFiles[y] = Maps \X {y}
    /\ phase = "AllDone" => \A t \in ReduceIds : task[t].TaskStat = "Finished"
    /\ ~up => phase = "AllDone"

(* what a finished task left on the disk *)
DiskInv ==
    /\ \A t \in MapIds : task[t].TaskStat = "Finished" => {t[2]} \X Reduces \subseteq files
    /\ \A t \in ReduceIds : task[t].TaskStat = "Finished" => out[t[2]] = {Maps}

(* what a worker at a given point has and has done *)
WorkerInv(w) ==
    LET t == worker[w].task
    IN  /\ worker[w].seen # "Map" => phase # "Map"
        /\ worker[w].pc \in {"assign", "mapping", "reading", "writing", "report"} => t \in TaskIds
        /\ worker[w].pc = "reduceBranch" => phase # "Map"
        /\ worker[w].pc = "mapping" =>
             /\ t \in MapIds /\ worker[w].todo \subseteq Reduces
             /\ {t[2]} \X (Reduces \ worker[w].todo) \subseteq files
        /\ worker[w].pc \in {"reading", "writing"} => t \in ReduceIds /\ phase # "Map"
        /\ worker[w].pc = "reading" => worker[w].files = Maps \X {t[2]}
        /\ worker[w].pc = "writing" => worker[w].got = Maps
        /\ worker[w].pc = "report" /\ t \in MapIds => {t[2]} \X Reduces \subseteq files
        /\ worker[w].pc = "report" /\ t \in ReduceIds => out[t[2]] = {Maps}
        /\ worker[w].pc = "exit" => phase = "AllDone"

Assigning(w, t) == worker[w].pc = "assign" /\ worker[w].task = t

Watches(w, t) == <<w, t>> \in timers \/ Assigning(w, t)

(* who watches a task: nobody while it is free, one worker's handler or    *)
(* timer while it is assigned                                              *)
WatchInv(t) ==
    /\ task[t].TaskStat = "NotAssign" =>
         task[t].WorkerID = NoWorker /\ \A w \in Workers : ~Watches(w, t)
    /\ task[t].TaskStat = "Assigned" =>
         /\ \E w \in Workers : Watches(w, t)
         /\ \A v, w \in Workers : Watches(v, t) /\ Watches(w, t) => v = w
    /\ \A w \in Workers :
         /\ Assigning(w, t) => task[t].TaskStat = "Assigned" /\ task[t].WorkerID = NoWorker
                               /\ <<w, t>> \notin timers
         /\ <<w, t>> \in timers /\ task[t].TaskStat = "Assigned" => task[t].WorkerID = w

(* the inductive invariant *)
IInv ==
    /\ JobTypeOK
    /\ CountersRight
    /\ PhaseInv
    /\ DiskInv
    /\ \A w \in Workers : WorkerInv(w)
    /\ up => \A t \in TaskIds : WatchInv(t)

-----------------------------------------------------------------------------
(* The tasks of makeMapTask and makeReduceTask: their names and numbers. *)
LEMMA TaskForm ==
    /\ \A t \in MapIds : t[1] = "Map" /\ t[2] \in Maps /\ t = <<"Map", t[2]>> /\ t \notin ReduceIds
    /\ \A t \in ReduceIds : t[1] = "Reduce" /\ t[2] \in Reduces /\ t = <<"Reduce", t[2]>>
                            /\ t \notin MapIds
    /\ \A t \in TaskIds : /\ t[1] = "Map" <=> t \in MapIds
                          /\ t[1] = "Reduce" <=> t \in ReduceIds
                          /\ t[1] \in {"Map", "Reduce"}
    /\ \A x \in Maps : <<"Map", x>> \in MapIds
    /\ \A y \in Reduces : <<"Reduce", y>> \in ReduceIds
    BY SMTT(30) DEF MapIds, ReduceIds, TaskIds

(* There are NMap map tasks and NReduce reduce tasks. *)
LEMMA TaskCount ==
    /\ IsFiniteSet(MapIds) /\ Cardinality(MapIds) = NMap
    /\ IsFiniteSet(ReduceIds) /\ Cardinality(ReduceIds) = NReduce
<1>1. ASSUME NEW n \in Nat, NEW kind
      PROVE  IsFiniteSet({kind} \X (0..n - 1)) /\ Cardinality({kind} \X (0..n - 1)) = n
  <2>1. IsFiniteSet(0..n - 1) /\ Cardinality(0..n - 1) = n
      BY FS_Interval, SMTT(30)
  <2>2. IsFiniteSet({kind}) /\ Cardinality({kind}) = 1
      BY FS_Singleton
  <2> QED
      BY <2>1, <2>2, FS_Product, SMTT(30)
<1> QED
    BY <1>1, JobAssumption DEF MapIds, ReduceIds, Maps, Reduces

(* All tasks of a kind are finished when as many are as there are. *)
LEMMA AllFinished ==
    ASSUME NEW ids, IsFiniteSet(ids), Cardinality(Finished(ids)) = Cardinality(ids)
    PROVE  \A t \in ids : task[t].TaskStat = "Finished"
<1>1. Finished(ids) \subseteq ids
    BY DEF Finished
<1>2. Finished(ids) = ids
    BY <1>1, FS_Subset
<1> QED
    BY <1>2 DEF Finished

-----------------------------------------------------------------------------
(* MakeCoordinator establishes the invariant. *)
LEMMA InitIInv == JobInit => IInv
<1> SUFFICES ASSUME JobInit PROVE IInv
    OBVIOUS
<1>1. JobTypeOK
    BY JobAssumption DEF JobInit, JobTypeOK, NewTask, Task, Worker, Phases
<1>2. CountersRight
  <2>1. Finished(MapIds) = {}
      BY DEF JobInit, Finished, NewTask, TaskIds
  <2> QED
      BY <2>1, FS_EmptySet DEF JobInit, CountersRight
<1>3. PhaseInv /\ DiskInv
    BY DEF JobInit, PhaseInv, DiskInv, NewTask, TaskIds
<1>4. \A w \in Workers : WorkerInv(w)
    BY DEF JobInit, WorkerInv
<1>5. \A t \in TaskIds : WatchInv(t)
    BY DEF JobInit, WatchInv, Watches, Assigning, NewTask
<1> QED
    BY <1>1, <1>2, <1>3, <1>4, <1>5 DEF IInv

-----------------------------------------------------------------------------
(* A step of a worker that leaves the coordinator's tables alone, takes    *)
(* nothing off the disk and does not have to do with a task being          *)
(* assigned.                                                               *)
LEMMA WorkerActs ==
    ASSUME IInv, NEW w \in Workers, NEW r \in Worker,
           worker' = [worker EXCEPT ![w] = r], UNCHANGED coordinator,
           files \subseteq files', files' \subseteq Files,
           out' \in [Reduces -> SUBSET SUBSET Maps],
           \A y \in Reduces : out[y] = {Maps} => out'[y] = {Maps},
           crashes' \in Nat, slow' \in Nat,
           WorkerInv(w)', up => worker[w].pc # "assign" /\ r.pc # "assign"
    PROVE  IInv'
<1> USE DEF coordinator
<1>1. JobTypeOK'
    BY DEF IInv, JobTypeOK
<1>2. CountersRight' /\ PhaseInv'
    BY DEF IInv, CountersRight, PhaseInv, Finished
<1>3. DiskInv'
  <2>1. \A t \in ReduceIds : t[2] \in Reduces
      BY TaskForm
  <2> QED
      BY <2>1 DEF IInv, DiskInv
<1>4. ASSUME NEW v \in Workers PROVE WorkerInv(v)'
  <2>1. CASE v = w
      BY <2>1
  <2>2. CASE v # w
    <3>1. worker'[v] = worker[v]
        BY <2>2 DEF IInv, JobTypeOK
    <3> QED
        BY <3>1, WorkerInv(v), TaskForm DEF IInv, WorkerInv
  <2> QED BY <2>1, <2>2
<1>5. ASSUME up', NEW t \in TaskIds PROVE WatchInv(t)'
  <2>1. \A v \in Workers : Assigning(v, t)' <=> Assigning(v, t)
      BY <1>5 DEF IInv, JobTypeOK, Assigning
  <2> QED
      BY <1>5, <2>1, WatchInv(t) DEF IInv, WatchInv, Watches
<1> QED
    BY <1>1, <1>2, <1>3, <1>4, <1>5 DEF IInv

(* A step of a worker that leaves the disk alone too. *)
LEMMA WorkerMoves ==
    ASSUME IInv, NEW w \in Workers, NEW r \in Worker,
           worker' = [worker EXCEPT ![w] = r], UNCHANGED <<coordinator, disk>>,
           crashes' \in Nat, slow' \in Nat,
           WorkerInv(w)', up => worker[w].pc # "assign" /\ r.pc # "assign"
    PROVE  IInv'
<1>1. files \subseteq Files /\ out \in [Reduces -> SUBSET SUBSET Maps]
    BY DEF IInv, JobTypeOK
<1> QED
    BY <1>1, WorkerActs DEF disk

(* The parts of RequestTask that only read c.phase (coordinator.go:63):    *)
(* what a handler has seen of it may be old, but a phase never comes back. *)
LEMMA RequestIInv ==
    ASSUME IInv, NEW w \in Workers, RequestTask(w) \/ ChecksReduce(w) \/ CallsSelect(w)
    PROVE  IInv'
<1> USE DEF coordinator, disk, bounds
<1>0. worker[w] \in Worker /\ phase \in Phases /\ WorkerInv(w) /\ crashes \in Nat /\ slow \in Nat
    BY DEF IInv, JobTypeOK
<1>1. CASE RequestTask(w)
  <2> DEFINE r == [worker[w] EXCEPT !.pc = "entered", !.seen = phase]
  <2>1. r \in Worker /\ r.pc = "entered" /\ r.seen = phase
      BY <1>0 DEF Worker
  <2>2. worker' = [worker EXCEPT ![w] = r] /\ worker[w].pc = "idle"
      BY <1>1 DEF RequestTask
  <2>3. worker'[w] = r
      BY <2>2 DEF IInv, JobTypeOK
  <2> HIDE DEF r
  <2>4. WorkerInv(w)'
      BY <1>1, <2>1, <2>3 DEF WorkerInv, RequestTask
  <2> QED
      BY <1>0, <1>1, <2>1, <2>2, <2>4, WorkerMoves DEF RequestTask
<1>2. CASE ChecksReduce(w)
  <2> DEFINE pc == IF phase = "Reduce" THEN "reduceBranch" ELSE "exit"
             r == [worker[w] EXCEPT !.pc = pc]
  <2>1. r \in Worker /\ r.pc = pc /\ r.seen = worker[w].seen
      BY <1>0 DEF Worker
  <2>2. worker' = [worker EXCEPT ![w] = r] /\ worker[w].pc = "entered" /\ worker[w].seen # "Map"
      BY <1>2 DEF ChecksReduce, Goto
  <2>3. worker'[w] = r
      BY <2>2 DEF IInv, JobTypeOK
  <2>4. phase \in {"Reduce", "AllDone"}
      BY <1>0, <2>2 DEF WorkerInv, Phases
  <2> HIDE DEF r
  <2>5. WorkerInv(w)'
      BY <1>2, <2>1, <2>3, <2>4 DEF WorkerInv, ChecksReduce
  <2> QED
      BY <1>0, <1>2, <2>1, <2>2, <2>5, WorkerMoves DEF ChecksReduce
<1>3. CASE CallsSelect(w)
  <2> DEFINE r == [worker[w] EXCEPT !.pc = "select", !.seen = phase]
  <2>1. r \in Worker /\ r.pc = "select" /\ r.seen = phase
      BY <1>0 DEF Worker
  <2>2. worker' = [worker EXCEPT ![w] = r] /\ worker[w].pc \in {"entered", "reduceBranch"}
      BY <1>3 DEF CallsSelect
  <2>3. worker'[w] = r
      BY <2>2 DEF IInv, JobTypeOK
  <2> HIDE DEF r
  <2>4. WorkerInv(w)'
      BY <1>3, <2>1, <2>3 DEF WorkerInv, CallsSelect
  <2> QED
      BY <1>0, <1>3, <2>1, <2>2, <2>4, WorkerMoves DEF CallsSelect
<1> QED
    BY <1>1, <1>2, <1>3

(* A worker wakes up, ends because the coordinator is gone, or crashes     *)
(* (worker.go:40).                                                         *)
LEMMA StopIInv ==
    ASSUME IInv, NEW w \in Workers, Wakes(w) \/ CallFails(w) \/ Crash(w)
    PROVE  IInv'
<1> USE DEF coordinator, disk, bounds
<1>0. worker[w] \in Worker /\ WorkerInv(w) /\ PhaseInv /\ crashes \in Nat /\ slow \in Nat
    BY DEF IInv, JobTypeOK
<1>1. PICK pc \in {"idle", "exit", "dead"} :
        /\ worker' = [worker EXCEPT ![w] = [worker[w] EXCEPT !.pc = pc]]
        /\ pc = "exit" => ~up
    BY DEF Wakes, CallFails, Crash, Goto
<1> DEFINE r == [worker[w] EXCEPT !.pc = pc]
<1>2. r \in Worker /\ r.pc = pc /\ r.seen = worker[w].seen
    BY <1>0 DEF Worker
<1>3. worker' = [worker EXCEPT ![w] = r] /\ worker'[w] = r
    BY <1>1 DEF IInv, JobTypeOK
<1> HIDE DEF r
<1>4. UNCHANGED <<coordinator, disk>> /\ crashes' \in Nat /\ slow' \in Nat
    BY <1>0, SMTT(30) DEF Wakes, CallFails, Crash
<1>5. WorkerInv(w)'
    BY <1>0, <1>1, <1>2, <1>3, <1>4 DEF WorkerInv, PhaseInv
<1>6. up => worker[w].pc # "assign"
    BY DEF Wakes, CallFails, Crash
<1> QED
    BY <1>2, <1>3, <1>4, <1>5, <1>6, WorkerMoves

(* doReduce reads the files of all map tasks: they were all there when the *)
(* task was made, and none is ever removed (worker.go:175).                *)
LEMMA ReadIInv == ASSUME IInv, NEW w \in Workers, doReduce(w) PROVE IInv'
<1> USE DEF coordinator, disk, bounds
<1>0. worker[w] \in Worker /\ WorkerInv(w) /\ PhaseInv /\ DiskInv /\ crashes \in Nat /\ slow \in Nat
    BY DEF IInv, JobTypeOK
<1> DEFINE t == worker[w].task
           got == {f[1] : f \in worker[w].files \cap files}
           r == [worker[w] EXCEPT !.pc = "writing", !.got = got]
<1>1. t \in ReduceIds /\ phase # "Map" /\ worker[w].files = Maps \X {t[2]} /\ t[2] \in Reduces
    BY <1>0, TaskForm DEF doReduce, WorkerInv
<1>2. \A x \in Maps : <<x, t[2]>> \in files
  <2> TAKE x \in Maps
  <2>1. <<"Map", x>> \in MapIds /\ <<"Map", x>>[2] = x
      BY TaskForm
  <2>2. {x} \X Reduces \subseteq files
      BY <1>0, <1>1, <2>1 DEF PhaseInv, DiskInv
  <2> QED
      BY <1>1, <2>2
<1>3. got = Maps
  <2>1. ASSUME NEW x \in Maps PROVE x \in got
    <3>1. <<x, t[2]>> \in worker[w].files \cap files /\ <<x, t[2]>>[1] = x
        BY <1>1, <1>2
    <3> QED
        BY <3>1
  <2>2. ASSUME NEW f \in worker[w].files \cap files PROVE f[1] \in Maps
      BY <1>1, SMTT(30)
  <2> QED
      BY <2>1, <2>2
<1> HIDE DEF got
<1>4. r \in Worker /\ r.pc = "writing" /\ r.got = Maps /\ r.task = t /\ r.seen = worker[w].seen
    BY <1>0, <1>3 DEF Worker
<1>5. worker' = [worker EXCEPT ![w] = r] /\ worker'[w] = r
    BY DEF doReduce, IInv, JobTypeOK, got
<1> HIDE DEF r, t
<1>6. WorkerInv(w)'
    BY <1>0, <1>1, <1>4, <1>5 DEF WorkerInv, doReduce, TaskIds
<1> QED
    BY <1>0, <1>4, <1>5, <1>6, WorkerMoves DEF doReduce

-----------------------------------------------------------------------------
(* doMap renames its files one by one into place (worker.go:129). *)
LEMMA MapIInv == ASSUME IInv, NEW w \in Workers, doMap(w) PROVE IInv'
<1> USE DEF coordinator, disk, bounds
<1> DEFINE t == worker[w].task
           todo == worker[w].todo
<1>0. /\ worker[w] \in Worker /\ WorkerInv(w) /\ crashes \in Nat /\ slow \in Nat
      /\ files \subseteq Files /\ out \in [Reduces -> SUBSET SUBSET Maps]
    BY DEF IInv, JobTypeOK
<1>1. /\ t \in MapIds /\ t[2] \in Maps /\ todo \subseteq Reduces
      /\ {t[2]} \X (Reduces \ todo) \subseteq files
    BY <1>0, TaskForm DEF doMap, WorkerInv
<1>2. CASE todo = {} /\ Goto(w, "report") /\ UNCHANGED files
  <2> DEFINE r == [worker[w] EXCEPT !.pc = "report"]
  <2>1. r \in Worker /\ r.pc = "report" /\ r.task = t /\ r.seen = worker[w].seen
      BY <1>0 DEF Worker
  <2>2. worker' = [worker EXCEPT ![w] = r] /\ worker'[w] = r
      BY <1>2 DEF Goto, IInv, JobTypeOK
  <2> HIDE DEF r
  <2>3. WorkerInv(w)'
      BY <1>0, <1>1, <1>2, <2>1, <2>2, TaskForm DEF WorkerInv, doMap, TaskIds
  <2> QED
      BY <1>0, <1>2, <2>1, <2>2, <2>3, WorkerMoves DEF doMap
<1>3. ASSUME NEW y \in todo, files' = files \cup {<<t[2], y>>},
             worker' = [worker EXCEPT ![w].todo = @ \ {y}]
      PROVE  IInv'
  <2> DEFINE r == [worker[w] EXCEPT !.todo = @ \ {y}]
  <2>1. /\ r \in Worker /\ r.pc = "mapping" /\ r.task = t /\ r.seen = worker[w].seen
        /\ r.todo = todo \ {y}
      BY <1>0 DEF Worker, doMap
  <2>2. worker' = [worker EXCEPT ![w] = r] /\ worker'[w] = r
      BY <1>3 DEF IInv, JobTypeOK
  <2>3. <<t[2], y>> \in Files
      BY <1>1, <1>3 DEF Files
  <2>4. {t[2]} \X (Reduces \ (todo \ {y})) \subseteq files'
      BY <1>1, <1>3, SMTT(30)
  <2> HIDE DEF r
  <2>5. WorkerInv(w)'
      BY <1>0, <1>1, <2>1, <2>2, <2>4 DEF WorkerInv, doMap, TaskIds
  <2> QED
      BY <1>0, <1>3, <2>1, <2>2, <2>3, <2>5, WorkerActs DEF doMap
<1> QED
    BY <1>2, <1>3 DEF doMap

(* doReduce renames its result into place, for the first time or over the  *)
(* same result of another worker (worker.go:208).                          *)
LEMMA ReduceIInv == ASSUME IInv, NEW w \in Workers, doReduceRename(w) PROVE IInv'
<1> USE DEF coordinator, disk, bounds
<1> DEFINE t == worker[w].task
           r == [worker[w] EXCEPT !.pc = "report"]
<1>0. /\ worker[w] \in Worker /\ WorkerInv(w) /\ crashes \in Nat /\ slow \in Nat
      /\ files \subseteq Files /\ out \in [Reduces -> SUBSET SUBSET Maps]
    BY DEF IInv, JobTypeOK
<1>1. t \in ReduceIds /\ t[2] \in Reduces /\ worker[w].got = Maps /\ t \notin MapIds
    BY <1>0, TaskForm DEF doReduceRename, WorkerInv
<1>2. out' = [out EXCEPT ![t[2]] = {Maps}]
    BY <1>1 DEF doReduceRename
<1>3. r \in Worker /\ r.pc = "report" /\ r.task = t /\ r.seen = worker[w].seen
    BY <1>0 DEF Worker
<1>4. worker' = [worker EXCEPT ![w] = r] /\ worker'[w] = r
    BY DEF doReduceRename, Goto, IInv, JobTypeOK
<1> HIDE DEF r
<1>5. out' \in [Reduces -> SUBSET SUBSET Maps]
      /\ \A y \in Reduces : out[y] = {Maps} => out'[y] = {Maps}
    BY <1>0, <1>2
<1>6. WorkerInv(w)'
    BY <1>0, <1>1, <1>2, <1>3, <1>4 DEF WorkerInv, doReduceRename, TaskIds
<1> QED
    BY <1>0, <1>3, <1>4, <1>5, <1>6, WorkerActs DEF doReduceRename

-----------------------------------------------------------------------------
(* selectTask (coordinator.go:97) takes a free task, which nobody watches, *)
(* or finds none; it never takes one of an earlier phase.                  *)
LEMMA SelectIInv == ASSUME IInv, NEW w \in Workers, selectTask(w) PROVE IInv'
<1> USE DEF disk, bounds
<1>0. /\ worker \in [Workers -> Worker] /\ task \in [TaskIds -> Task]
      /\ worker[w] \in Worker /\ WorkerInv(w) /\ PhaseInv /\ DiskInv
      /\ crashes \in Nat /\ slow \in Nat
    BY DEF IInv, JobTypeOK
<1>00. up
    BY DEF selectTask
<1>1. CASE Goto(w, "wait") /\ UNCHANGED task
  <2> DEFINE r == [worker[w] EXCEPT !.pc = "wait"]
  <2>1. r \in Worker /\ r.pc = "wait" /\ r.seen = worker[w].seen
      BY <1>0 DEF Worker
  <2>2. worker' = [worker EXCEPT ![w] = r]
      BY <1>1 DEF Goto
  <2> HIDE DEF r
  <2>3. worker'[w] = r
      BY <1>0, <2>2
  <2>4. WorkerInv(w)'
      BY <1>0, <2>1, <2>3 DEF WorkerInv, selectTask
  <2> QED
      BY <1>0, <1>1, <2>1, <2>2, <2>4, WorkerMoves DEF selectTask, coordinator
<1>2. ASSUME NEW t \in Unassigned(worker[w].seen),
             task' = [task EXCEPT ![t].TaskStat = "Assigned"],
             worker' = [worker EXCEPT ![w].pc = "assign", ![w].task = t]
      PROVE  IInv'
  <2>0. UNCHANGED <<phase, inputFiles, nMap, nReduce, timers, up, files, out, crashes, slow>>
        /\ worker[w].pc = "select"
      BY DEF selectTask
  <2>1. t \in TaskIds /\ task[t].TaskStat = "NotAssign" /\ t[1] = worker[w].seen
      BY <1>2 DEF Unassigned
  <2>2. /\ task' \in [TaskIds -> Task] /\ task'[t].TaskStat = "Assigned"
        /\ task'[t].WorkerID = task[t].WorkerID
        /\ \A u \in TaskIds : u # t => task'[u] = task[u]
      BY <1>0, <1>2, <2>1 DEF Task
  <2>3. /\ worker' \in [Workers -> Worker] /\ worker'[w].pc = "assign" /\ worker'[w].task = t
        /\ worker'[w].seen = worker[w].seen
        /\ \A v \in Workers : v # w => worker'[v] = worker[v]
      BY <1>0, <1>2, <2>1 DEF Worker
  <2>4. JobTypeOK'
      BY <2>0, <2>2, <2>3 DEF IInv, JobTypeOK
  <2>5. CountersRight'
    <3>1. Finished(MapIds)' = Finished(MapIds) /\ Finished(ReduceIds)' = Finished(ReduceIds)
        BY <2>1, <2>2 DEF Finished, TaskIds
    <3> QED
        BY <2>0, <3>1 DEF IInv, CountersRight
  <2>6. PhaseInv' /\ DiskInv'
    <3>1. t \in ReduceIds => phase # "Map"
        BY <1>0, <2>1, TaskForm DEF WorkerInv
    <3>2. PhaseInv'
        BY <1>0, <2>0, <2>1, <2>2, <3>1 DEF PhaseInv, TaskIds
    <3>3. DiskInv'
        BY <1>0, <2>0, <2>2 DEF DiskInv, TaskIds
    <3> QED BY <3>2, <3>3
  <2>7. ASSUME NEW v \in Workers PROVE WorkerInv(v)'
      BY <1>0, <2>0, <2>1, <2>3, WorkerInv(v) DEF IInv, WorkerInv
  <2>8. ASSUME NEW u \in TaskIds PROVE WatchInv(u)'
    <3>1. WatchInv(u) /\ WatchInv(t)
        BY <1>00, <2>1 DEF IInv
    <3>2. CASE u = t
      <4>1. \A v \in Workers : Watches(v, t)' <=> v = w
          BY <2>0, <2>1, <2>3, <3>1 DEF WatchInv, Watches, Assigning
      <4>2. \A v \in Workers : <<v, t>> \notin timers'
          BY <2>0, <2>1, <3>1 DEF WatchInv, Watches
      <4> QED
          BY <2>1, <2>2, <3>1, <3>2, <4>1, <4>2 DEF WatchInv
    <3>3. CASE u # t
      <4>1. \A v \in Workers : Assigning(v, u)' <=> Assigning(v, u)
          BY <2>0, <2>3, <3>3 DEF Assigning
      <4> QED
          BY <2>0, <2>2, <3>1, <3>3, <4>1 DEF WatchInv, Watches
    <3> QED BY <3>2, <3>3
  <2> QED
      BY <2>4, <2>5, <2>6, <2>7, <2>8 DEF IInv
<1> QED
    BY <1>1, <1>2 DEF selectTask

(* RequestTask writes the WorkerID and starts the timer after selectTask   *)
(* released the lock (coordinator.go:66): the task is still assigned and   *)
(* nobody's, so its phase is still the current one.                        *)
LEMMA AssignIInv == ASSUME IInv, NEW w \in Workers, Assign(w) PROVE IInv'
<1> DEFINE t == worker[w].task
<1>0. /\ worker \in [Workers -> Worker] /\ task \in [TaskIds -> Task]
      /\ worker[w] \in Worker /\ WorkerInv(w) /\ PhaseInv /\ DiskInv /\ up
      /\ t \in TaskIds /\ inputFiles \in [Reduces -> SUBSET Files] /\ nReduce \in Nat
    BY DEF IInv, JobTypeOK, Assign, WorkerInv
<1>1. /\ UNCHANGED <<phase, inputFiles, nMap, nReduce, up, files, out, crashes, slow>>
      /\ worker[w].pc = "assign" /\ Assigning(w, t)
      /\ task' = [task EXCEPT ![t].WorkerID = w]
      /\ timers' = timers \cup {<<w, t>>}
    BY DEF Assign, Assigning, disk, bounds
<1>2. /\ WatchInv(t) /\ task[t].TaskStat = "Assigned" /\ task[t].WorkerID = NoWorker
      /\ \A v \in Workers : v # w => ~Watches(v, t)
    BY <1>0, <1>1 DEF IInv, WatchInv, Watches
<1>3. /\ task' \in [TaskIds -> Task] /\ task'[t].TaskStat = "Assigned"
      /\ task'[t].WorkerID = w
      /\ \A u \in TaskIds : u # t => task'[u] = task[u]
    BY <1>0, <1>1, <1>2 DEF Task
<1>4. /\ t \in MapIds => /\ t[1] = "Map" /\ t[2] \in Maps /\ t \notin ReduceIds
                         /\ phase = "Map" /\ nReduce = NReduce
      /\ t \in ReduceIds => /\ t[1] = "Reduce" /\ t[2] \in Reduces /\ t \notin MapIds
                            /\ phase # "Map" /\ inputFiles[t[2]] = Maps \X {t[2]}
      /\ t \in MapIds \/ t \in ReduceIds
    BY <1>0, <1>2, TaskForm, SMTT(30) DEF PhaseInv, NewTask, IInv, CountersRight, TaskIds
<1> DEFINE pc == IF t[1] = "Map" THEN "mapping" ELSE "reading"
           todo == IF t[1] = "Map" THEN 0..nReduce - 1 ELSE {}
           input == IF t[1] = "Map" THEN {} ELSE inputFiles[t[2]]
           r == [worker[w] EXCEPT !.pc = pc, !.todo = todo, !.files = input]
<1>5. /\ pc \in {"mapping", "reading"} /\ todo \subseteq Nat /\ input \subseteq Files
      /\ t \in MapIds => pc = "mapping" /\ todo = Reduces
      /\ t \in ReduceIds => pc = "reading" /\ input = Maps \X {t[2]}
    BY <1>0, <1>4, JobAssumption, SMTT(30) DEF Reduces
<1>6. worker' = [worker EXCEPT ![w] = r]
    BY DEF Assign
<1> HIDE DEF pc, todo, input
<1>7. /\ r \in Worker /\ r.task = t /\ r.seen = worker[w].seen
      /\ r.pc = pc /\ r.todo = todo /\ r.files = input
    BY <1>0, <1>5 DEF Worker
<1> HIDE DEF r
<1>8. worker'[w] = r /\ \A v \in Workers : v # w => worker'[v] = worker[v]
    BY <1>0, <1>6
<1>9. WorkerInv(w)'
  <2>1. CASE t \in MapIds
      BY <1>0, <1>1, <1>4, <1>5, <1>7, <1>8, <2>1 DEF WorkerInv
  <2>2. CASE t \in ReduceIds
      BY <1>0, <1>1, <1>4, <1>5, <1>7, <1>8, <2>2 DEF WorkerInv
  <2> QED BY <1>4, <2>1, <2>2
<1>10. JobTypeOK'
    BY <1>0, <1>1, <1>3, <1>6, <1>7, SMTT(30) DEF IInv, JobTypeOK
<1>11. CountersRight'
  <2>1. Finished(MapIds)' = Finished(MapIds) /\ Finished(ReduceIds)' = Finished(ReduceIds)
      BY <1>2, <1>3 DEF Finished, TaskIds
  <2> QED
      BY <1>1, <2>1 DEF IInv, CountersRight
<1>12. PhaseInv' /\ DiskInv'
    BY <1>0, <1>1, <1>2, <1>3, <1>4 DEF PhaseInv, DiskInv, TaskIds
<1>13. ASSUME NEW v \in Workers PROVE WorkerInv(v)'
    BY <1>1, <1>8, <1>9, WorkerInv(v) DEF IInv, WorkerInv
<1>14. ASSUME NEW u \in TaskIds PROVE WatchInv(u)'
  <2>1. \A v \in Workers : v # w => (Assigning(v, u)' <=> Assigning(v, u))
      BY <1>8 DEF Assigning
  <2>2. ~Assigning(w, u)'
      BY <1>5, <1>7, <1>8 DEF Assigning
  <2>3. WatchInv(u)
      BY <1>0 DEF IInv
  <2>4. CASE u = t
      BY <1>1, <1>2, <1>3, <2>1, <2>2, <2>4 DEF WatchInv, Watches
  <2>5. CASE u # t
    <3>1. ~Assigning(w, u)
        BY <2>5 DEF Assigning
    <3>2. \A v \in Workers : <<v, u>> \in timers' <=> <<v, u>> \in timers
        BY <1>1, <2>5
    <3> QED
        BY <1>3, <2>1, <2>2, <2>3, <2>5, <3>1, <3>2 DEF WatchInv, Watches
  <2> QED BY <2>4, <2>5
<1> QED
    BY <1>10, <1>11, <1>12, <1>13, <1>14 DEF IInv

-----------------------------------------------------------------------------
(* checkTimeout (coordinator.go:123) takes an assigned task away from its  *)
(* worker, and leaves a finished one alone.  Its test for another worker's *)
(* task never matters: the timer is the task's only one.                   *)
LEMMA TimeoutIInv ==
    ASSUME IInv, NEW w \in Workers, NEW t \in TaskIds, checkTimeout(w, t)
    PROVE  IInv'
<1>0. /\ task \in [TaskIds -> Task] /\ PhaseInv /\ DiskInv /\ up /\ WatchInv(t)
      /\ slow \in Nat
    BY DEF IInv, JobTypeOK, checkTimeout
<1>1. /\ UNCHANGED <<phase, inputFiles, nMap, nReduce, up, worker, files, out, crashes>>
      /\ <<w, t>> \in timers /\ timers' = timers \ {<<w, t>>} /\ slow' \in Nat
    BY <1>0, SMTT(30) DEF checkTimeout, disk
<1>2. task[t].TaskStat \in {"Assigned", "Finished"} /\ (task[t].TaskStat = "Assigned" => task[t].WorkerID = w)
    BY <1>0, <1>1 DEF WatchInv, Watches, Task
<1>3. /\ task' \in [TaskIds -> Task] /\ \A u \in TaskIds : u # t => task'[u] = task[u]
      /\ task[t].TaskStat = "Assigned" => task'[t] = NewTask
      /\ task[t].TaskStat = "Finished" => task'[t] = task[t]
    BY <1>0, <1>2 DEF checkTimeout, NewTask, Task
<1>4. \A u \in TaskIds : task'[u].TaskStat = "Finished" <=> task[u].TaskStat = "Finished"
    BY <1>2, <1>3, SMTT(30) DEF NewTask
<1>5. JobTypeOK'
    BY <1>1, <1>3 DEF IInv, JobTypeOK
<1>6. CountersRight'
  <2>1. Finished(MapIds)' = Finished(MapIds) /\ Finished(ReduceIds)' = Finished(ReduceIds)
      BY <1>4 DEF Finished, TaskIds
  <2> QED
      BY <1>1, <2>1 DEF IInv, CountersRight
<1>7. PhaseInv' /\ DiskInv'
    BY <1>0, <1>1, <1>2, <1>3, <1>4 DEF PhaseInv, DiskInv, TaskIds
<1>8. ASSUME NEW v \in Workers PROVE WorkerInv(v)'
    BY <1>1, WorkerInv(v) DEF IInv, WorkerInv
<1>9. ASSUME NEW u \in TaskIds PROVE WatchInv(u)'
  <2>1. \A v \in Workers : Assigning(v, u)' <=> Assigning(v, u)
      BY <1>1 DEF Assigning
  <2>2. CASE u # t
    <3>1. \A v \in Workers : <<v, u>> \in timers' <=> <<v, u>> \in timers
        BY <1>1, <2>2
    <3> QED
        BY <1>0, <1>3, <2>1, <2>2, <3>1, WatchInv(u) DEF IInv, WatchInv, Watches
  <2>3. CASE u = t /\ task[t].TaskStat = "Finished"
      BY <1>0, <1>1, <1>3, <2>1, <2>3 DEF WatchInv
  <2>4. CASE u = t /\ task[t].TaskStat = "Assigned"
    <3>1. \A v \in Workers : ~Watches(v, t)'
        BY <1>0, <1>1, <2>1, <2>4 DEF WatchInv, Watches
    <3> QED
        BY <1>3, <2>4, <3>1, SMTT(30) DEF WatchInv, Watches, NewTask
  <2> QED BY <1>2, <2>2, <2>3, <2>4
<1> QED
    BY <1>5, <1>6, <1>7, <1>8, <1>9 DEF IInv

(* ReportTask (coordinator.go:141) finishes a task only for the worker it  *)
(* is assigned to, counts it once, and its files are there.                *)
LEMMA ReportIInv == ASSUME IInv, NEW w \in Workers, ReportTask(w) PROVE IInv'
<1> USE DEF disk, bounds
<1> DEFINE t == worker[w].task
           r == [worker[w] EXCEPT !.pc = "idle"]
<1>0. /\ worker \in [Workers -> Worker] /\ task \in [TaskIds -> Task]
      /\ worker[w] \in Worker /\ WorkerInv(w) /\ PhaseInv /\ DiskInv
      /\ crashes \in Nat /\ slow \in Nat /\ nMap \in Nat /\ nReduce \in Nat
    BY DEF IInv, JobTypeOK
<1>1. /\ UNCHANGED <<phase, inputFiles, timers, up, files, out, crashes, slow>>
      /\ up /\ worker[w].pc = "report" /\ t \in TaskIds
      /\ worker' = [worker EXCEPT ![w] = r]
    BY <1>0 DEF ReportTask, Goto, WorkerInv
<1>2. r \in Worker /\ r.pc = "idle" /\ r.seen = worker[w].seen
    BY <1>0 DEF Worker
<1> HIDE DEF r
<1>3. worker'[w] = r /\ \A v \in Workers : v # w => worker'[v] = worker[v]
    BY <1>0, <1>1
<1>4. WorkerInv(w)'
    BY <1>0, <1>1, <1>2, <1>3 DEF WorkerInv
<1>5. CASE ~Holds(w, t)
  <2>1. UNCHANGED <<task, nMap, nReduce>>
      BY <1>5 DEF ReportTask
  <2> QED
      BY <1>0, <1>1, <1>2, <1>4, <2>1, WorkerMoves DEF coordinator
<1>6. CASE Holds(w, t)
  <2>1. task[t].TaskStat = "Assigned" /\ task[t].WorkerID = w
      BY <1>6 DEF Holds
  <2>2. /\ task' = [task EXCEPT ![t].TaskStat = "Finished"]
        /\ nMap' = IF t[1] = "Map" THEN nMap + 1 ELSE nMap
        /\ nReduce' = IF t[1] = "Reduce" THEN nReduce + 1 ELSE nReduce
      BY <1>6 DEF ReportTask
  <2>3. /\ task' \in [TaskIds -> Task] /\ task'[t].TaskStat = "Finished"
        /\ \A u \in TaskIds : u # t => task'[u] = task[u]
      BY <1>0, <1>1, <2>2 DEF Task
  <2>4. JobTypeOK'
      BY <1>0, <1>1, <1>2, <2>2, <2>3, SMTT(30) DEF IInv, JobTypeOK
  <2>5. t \in ReduceIds => phase # "Map"
      BY <1>0, <2>1, SMTT(30) DEF PhaseInv, NewTask
  <2>6. ASSUME NEW ids, ids \subseteq TaskIds, IsFiniteSet(ids)
        PROVE  /\ t \in ids => Cardinality(Finished(ids)') = Cardinality(Finished(ids)) + 1
               /\ t \notin ids => Finished(ids)' = Finished(ids)
    <3>1. IsFiniteSet(Finished(ids)) /\ t \notin Finished(ids)
        BY <2>1, <2>6, FS_Subset DEF Finished
    <3>2. t \in ids => Finished(ids)' = Finished(ids) \cup {t}
        BY <2>3, <2>6 DEF Finished
    <3>3. t \notin ids => Finished(ids)' = Finished(ids)
        BY <2>3, <2>6 DEF Finished
    <3> QED
        BY <3>1, <3>2, <3>3, FS_AddElement
  <2>7. CountersRight'
    <3>1. MapIds \subseteq TaskIds /\ ReduceIds \subseteq TaskIds
        BY DEF TaskIds
    <3>2. nMap' = Cardinality(Finished(MapIds)')
        BY <1>1, <2>2, <2>6, <3>1, TaskForm, TaskCount DEF IInv, CountersRight
    <3>3. phase # "Map" => nReduce' = Cardinality(Finished(ReduceIds)')
        BY <1>1, <2>2, <2>6, <3>1, TaskForm, TaskCount DEF IInv, CountersRight
    <3>4. phase = "Map" => nReduce' = NReduce
        BY <1>1, <2>2, <2>5, TaskForm DEF IInv, CountersRight
    <3> QED
        BY <1>1, <3>2, <3>3, <3>4 DEF CountersRight
  <2>8. PhaseInv' /\ DiskInv'
    <3>1. PhaseInv'
        BY <1>0, <1>1, <2>3, <2>5 DEF PhaseInv, TaskIds
    <3>2. DiskInv'
        BY <1>0, <1>1, <2>3 DEF DiskInv, WorkerInv, TaskIds
    <3> QED BY <3>1, <3>2
  <2>9. ASSUME NEW v \in Workers PROVE WorkerInv(v)'
      BY <1>1, <1>3, <1>4, WorkerInv(v) DEF IInv, WorkerInv
  <2>10. ASSUME NEW u \in TaskIds PROVE WatchInv(u)'
    <3>1. \A v \in Workers : Assigning(v, u)' <=> Assigning(v, u)
        BY <1>1, <1>2, <1>3 DEF Assigning
    <3>2. WatchInv(u)
        BY <1>1 DEF IInv
    <3>3. CASE u = t
      <4>1. \A v \in Workers : ~Assigning(v, u)
          BY <2>1, <3>2, <3>3, JobAssumption DEF WatchInv
      <4> QED
          BY <2>3, <3>1, <3>3, <4>1 DEF WatchInv
    <3>4. CASE u # t
        BY <1>1, <2>3, <3>1, <3>2, <3>4 DEF WatchInv, Watches
    <3> QED BY <3>3, <3>4
  <2> QED
      BY <2>4, <2>7, <2>8, <2>9, <2>10 DEF IInv
<1> QED BY <1>5, <1>6

-----------------------------------------------------------------------------
(* checkPhase (coordinator.go:201) moves on when all tasks of the phase    *)
(* are finished; then the files of all map tasks are there for             *)
(* makeReduceTask to find.                                                 *)
LEMMA PhaseIInv == IInv /\ checkPhase => IInv'
<1> SUFFICES ASSUME IInv, checkPhase PROVE IInv'
    OBVIOUS
<1> USE DEF disk, bounds
<1>0. PhaseInv /\ DiskInv /\ files \subseteq Files /\ CountersRight
    BY DEF IInv, JobTypeOK
<1>1. UNCHANGED <<task, nMap, timers, up, worker, files, out, crashes, slow>>
    BY DEF checkPhase
<1>2. ASSUME UNCHANGED <<task, timers, up, worker>>, NEW t \in TaskIds, WatchInv(t)
      PROVE  WatchInv(t)'
    BY <1>2 DEF WatchInv, Watches, Assigning
<1>3. CASE /\ phase = "Map" /\ nMap = NMap /\ phase' = "Reduce" /\ nReduce' = 0
           /\ inputFiles' = [y \in Reduces |-> Glob(y)]
  <2>1. \A t \in MapIds : task[t].TaskStat = "Finished"
      BY <1>0, <1>3, TaskCount, AllFinished DEF CountersRight
  <2>2. ASSUME NEW x \in Maps, NEW y \in Reduces PROVE <<x, y>> \in files
    <3>1. <<"Map", x>> \in MapIds /\ <<"Map", x>>[2] = x
        BY TaskForm
    <3>2. {x} \X Reduces \subseteq files
        BY <1>0, <2>1, <3>1 DEF DiskInv
    <3> QED
        BY <3>2
  <2>3. ASSUME NEW y \in Reduces PROVE inputFiles'[y] = Maps \X {y}
    <3>1. ASSUME NEW f \in Maps \X {y} PROVE f \in Glob(y)
        BY <2>2, <2>3, SMTT(30) DEF Glob
    <3>2. ASSUME NEW f \in Glob(y) PROVE f \in Maps \X {y}
        BY <1>0 DEF Glob, Files
    <3> QED
        BY <1>3, <3>1, <3>2
  <2>4. JobTypeOK'
    <3>1. inputFiles' \in [Reduces -> SUBSET Files]
        BY <1>0, <1>3 DEF Glob
    <3> QED
        BY <1>1, <1>3, <3>1 DEF IInv, JobTypeOK, Phases
  <2>5. CountersRight'
    <3>1. Finished(ReduceIds) = {}
        BY <1>0, <1>3, SMTT(30) DEF PhaseInv, Finished, NewTask
    <3>2. Finished(MapIds)' = Finished(MapIds) /\ Finished(ReduceIds)' = {}
        BY <1>1, <3>1 DEF Finished
    <3> QED
        BY <1>0, <1>1, <1>3, <3>2, FS_EmptySet DEF CountersRight
  <2>6. PhaseInv' /\ DiskInv'
      BY <1>0, <1>1, <1>3, <2>1, <2>3 DEF PhaseInv, DiskInv
  <2>7. ASSUME NEW w \in Workers PROVE WorkerInv(w)'
      BY <1>1, <1>3, WorkerInv(w) DEF IInv, WorkerInv
  <2> QED
      BY <1>1, <1>2, <2>4, <2>5, <2>6, <2>7 DEF IInv
<1>4. CASE /\ phase = "Reduce" /\ nReduce = NReduce /\ phase' = "AllDone"
           /\ UNCHANGED <<inputFiles, nReduce>>
  <2>1. \A t \in ReduceIds : task[t].TaskStat = "Finished"
      BY <1>0, <1>4, TaskCount, AllFinished DEF CountersRight
  <2>2. JobTypeOK'
      BY <1>1, <1>4 DEF IInv, JobTypeOK, Phases
  <2>3. CountersRight'
    <3>1. Finished(MapIds)' = Finished(MapIds) /\ Finished(ReduceIds)' = Finished(ReduceIds)
        BY <1>1 DEF Finished
    <3> QED
        BY <1>0, <1>1, <1>4, <3>1 DEF CountersRight
  <2>4. PhaseInv' /\ DiskInv'
      BY <1>0, <1>1, <1>4, <2>1 DEF PhaseInv, DiskInv
  <2>5. ASSUME NEW w \in Workers PROVE WorkerInv(w)'
      BY <1>1, <1>4, WorkerInv(w) DEF IInv, WorkerInv
  <2> QED
      BY <1>1, <1>2, <2>2, <2>3, <2>4, <2>5 DEF IInv
<1> QED
    BY <1>3, <1>4 DEF checkPhase

(* The coordinator leaves when Done (coordinator.go:259) says so. *)
LEMMA ExitIInv == IInv /\ CoordinatorExits => IInv'
<1> SUFFICES ASSUME IInv, CoordinatorExits PROVE IInv'
    OBVIOUS
<1>1. /\ UNCHANGED <<phase, task, inputFiles, nMap, nReduce, worker, files, out, crashes, slow>>
      /\ phase = "AllDone" /\ up' = FALSE /\ timers' = {}
    BY DEF CoordinatorExits, disk, bounds
<1>2. JobTypeOK'
    BY <1>1 DEF IInv, JobTypeOK
<1>3. CountersRight' /\ PhaseInv' /\ DiskInv'
    BY <1>1 DEF IInv, CountersRight, Finished, PhaseInv, DiskInv
<1>4. ASSUME NEW w \in Workers PROVE WorkerInv(w)'
    BY <1>1, WorkerInv(w) DEF IInv, WorkerInv
<1> QED
    BY <1>1, <1>2, <1>3, <1>4 DEF IInv

-----------------------------------------------------------------------------
(* Every reachable state has the invariant. *)
LEMMA MapReduceIInv == JobSpec => []IInv
<1>1. IInv /\ [JobNext]_jobVars => IInv'
  <2> SUFFICES ASSUME IInv, [JobNext]_jobVars PROVE IInv'
      OBVIOUS
  <2>1. ASSUME NEW w \in Workers, WorkerStep(w) PROVE IInv'
      BY <2>1, RequestIInv, SelectIInv, AssignIInv, MapIInv, ReadIInv, ReduceIInv,
         ReportIInv, StopIInv DEF WorkerStep
  <2>2. CASE UNCHANGED jobVars
    <3>1. JobTypeOK' /\ CountersRight' /\ PhaseInv' /\ DiskInv'
        BY <2>2 DEF jobVars, IInv, JobTypeOK, CountersRight, Finished, PhaseInv, DiskInv
    <3>2. ASSUME NEW w \in Workers PROVE WorkerInv(w)'
      <4>1. WorkerInv(w)
          BY DEF IInv
      <4> QED
          BY <2>2, <4>1 DEF jobVars, WorkerInv
    <3>3. ASSUME up, NEW t \in TaskIds PROVE WatchInv(t)'
        BY <2>2, <3>3, WatchInv(t) DEF jobVars, IInv, WatchInv, Watches, Assigning
    <3> QED
        BY <2>2, <3>1, <3>2, <3>3 DEF jobVars, IInv
  <2> QED
      BY <2>1, <2>2, StopIInv, TimeoutIInv, PhaseIInv, ExitIInv DEF JobNext, Terminated
<1> QED
    BY <1>1, InitIInv, PTL DEF JobSpec

(* The coordinator, the workers and the disk keep their types. *)
THEOREM JobTypeCorrect == JobSpec => []JobTypeOK
<1>1. IInv => JobTypeOK
    BY DEF IInv
<1> QED
    BY <1>1, MapReduceIInv, PTL

(* nMap and nReduce are the numbers of finished tasks, however often a     *)
(* task is run, timed out and reported (ReportTask, checkTimeout).         *)
THEOREM CountersRightHolds == JobSpec => []CountersRight
<1>1. IInv => CountersRight
    BY DEF IInv
<1> QED
    BY <1>1, MapReduceIInv, PTL

(* Exactly one timer, or handler about to start one, watches an assigned   *)
(* task, although selectTask and the assignment of the WorkerID are two    *)
(* critical sections.                                                      *)
THEOREM AssignedIsWatchedHolds == JobSpec => []AssignedIsWatched
<1>1. IInv => AssignedIsWatched
  <2> SUFFICES ASSUME IInv, up, NEW t \in TaskIds, task[t].TaskStat = "Assigned"
               PROVE  \E w \in Workers : /\ Watchers(t) = {w}
                                         /\ <<w, t>> \in timers => task[t].WorkerID = w
      BY DEF AssignedIsWatched
  <2>1. WatchInv(t)
      BY DEF IInv
  <2>2. PICK w \in Workers : Watches(w, t)
      BY <2>1 DEF WatchInv
  <2>3. Watchers(t) = {w}
      BY <2>1, <2>2 DEF WatchInv, Watchers, Watches, Assigning
  <2> QED
      BY <2>1, <2>3 DEF WatchInv
<1> QED
    BY <1>1, MapReduceIInv, PTL

(* Every reduce task is made with the files of all map tasks, whoever      *)
(* crashed or was slow (checkPhase, makeReduceTask).                       *)
THEOREM ReduceSeesAllMapsHolds == JobSpec => []ReduceSeesAllMaps
<1>1. IInv => ReduceSeesAllMaps
    BY DEF IInv, PhaseInv, ReduceSeesAllMaps
<1> QED
    BY <1>1, MapReduceIInv, PTL

(* A finished reduce task's result is complete, and a worker that is told  *)
(* to exit, or finds the coordinator gone, leaves all results behind.      *)
THEOREM ResultsCompleteHolds == JobSpec => []ResultsComplete
<1>1. IInv => ResultsComplete
  <2> SUFFICES ASSUME IInv PROVE ResultsComplete
      OBVIOUS
  <2>1. \A y \in Reduces : <<"Reduce", y>> \in ReduceIds /\ <<"Reduce", y>>[2] = y
      BY TaskForm
  <2>2. \A y \in Reduces : task[<<"Reduce", y>>].TaskStat = "Finished" => out[y] = {Maps}
      BY <2>1 DEF IInv, DiskInv
  <2>3. (\E w \in Workers : worker[w].pc = "exit") \/ ~up => phase = "AllDone"
    <3>1. ASSUME NEW w \in Workers, worker[w].pc = "exit" PROVE phase = "AllDone"
        BY <3>1, WorkerInv(w) DEF IInv, WorkerInv
    <3> QED
        BY <3>1 DEF IInv, PhaseInv
  <2> QED
      BY <2>1, <2>2, <2>3 DEF IInv, PhaseInv, ResultsComplete
<1> QED
    BY <1>1, MapReduceIInv, PTL
=============================================================================
