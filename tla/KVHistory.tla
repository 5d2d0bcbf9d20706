----------------------------- MODULE KVHistory -----------------------------
(***************************************************************************)
(* KVSrv together with the history its clients observe, judged as the      *)
(* tests judge it: test_test.go records every call with its times and      *)
(* result, and porcupine looks for an order of the calls of a key that     *)
(* keeps the real-time order and that models.KvModel accepts.              *)
(***************************************************************************)
EXTENDS KVSrv, FiniteSets, SequencesExt

VARIABLES
    ops,     \* the calls in order of invocation, with their results
    again    \* did a Put of a client without an entry run again

hvars == <<vars, ops, again>>

(* porcupine.Operation; before is the real-time order: the calls that had  *)
(* returned when this one was made                                         *)
Operation(c, op, k, v) ==
    [ClientId |-> c, op |-> op, Key |-> k, Value |-> v, out |-> Nil,
     before |-> {i \in DOMAIN ops : ops[i].out # Nil}]

HInit == Init /\ ops = <<>> /\ again = FALSE

HInvoke(c, op, k, v) ==
    /\ Invoke(c, op, k, v)
    /\ ops' = ops \o <<Operation(c, op, k, v)>>
    /\ UNCHANGED again

HHandle(c) ==
    /\ Handle(c)
    /\ again' = (again \/ PutRunsAgain(c))
    /\ UNCHANGED ops

HReturn(c) ==
    /\ Return(c)
    /\ ops' = [i \in DOMAIN ops |->
                 IF ops[i].ClientId = c /\ ops[i].out = Nil
                 THEN [ops[i] EXCEPT !.out = clerk[c].reply] ELSE ops[i]]
    /\ UNCHANGED again

HNext ==
    \E c \in Clients :
        \/ \E k \in Keys : HInvoke(c, "Get", k, <<>>)
        \/ \E k \in Keys, s \in Strings, op \in {"Put", "Append"} :
               HInvoke(c, op, k, <<s>>)
        \/ HHandle(c)
        \/ LoseReply(c) /\ UNCHANGED <<ops, again>>
        \/ HReturn(c)

HSpec == HInit /\ [][HNext]_hvars

(***************************************************************************)
(* The handlers hold kv.mu only for a moment, so a request that is sent    *)
(* again and again is handled.  The network drops one reply in ten         *)
(* (labrpc processReq), each on its own: a reply that is sent infinitely   *)
(* often arrives, which is the strong fairness of Return.                  *)
(***************************************************************************)
HFairSpec ==
    HSpec /\ \A c \in Clients : WF_hvars(HHandle(c)) /\ SF_hvars(HReturn(c))

-----------------------------------------------------------------------------
(* models.KvModel: Step's verdict and next state for one key *)
StepOK(o, state) == o.op = "Put" \/ o.out = Nil \/ o.out = state

StepState(o, state) ==
    IF o.op = "Get" THEN state
    ELSE IF o.op = "Put" THEN o.Value ELSE state \o o.Value

(* the value after the first i calls of an order *)
StateAfter(order) ==
    LET state[i \in 0..Len(order)] ==
            IF i = 0 THEN <<>> ELSE StepState(ops[order[i]], state[i - 1])
    IN  state

LinearizesTo(order) ==
    /\ \A i, j \in DOMAIN order : order[i] \in ops[order[j]].before => i < j
    /\ LET state == StateAfter(order)
       IN  \A i \in DOMAIN order : StepOK(ops[order[i]], state[i - 1])

(* KvModel.Partition: the keys are judged one by one; a call that has not  *)
(* returned may have taken effect or not                                   *)
LinearizableKey(k) ==
    LET mine == {i \in DOMAIN ops : ops[i].Key = k}
        complete == {i \in mine : ops[i].out # Nil}
    IN  \E pending \in SUBSET (mine \ complete) :
            \E order \in SetToSeqs(complete \cup pending) : LinearizesTo(order)

(***************************************************************************)
(* What the tests demand of kvsrv over the unreliable network: "history is *)
(* not linearizable" must never be reported.                               *)
(***************************************************************************)
Linearizable == \A k \in Keys : LinearizableKey(k)

(***************************************************************************)
(* The duplicate table makes every observed history linearizable as long   *)
(* as no Put of a client without an entry is run twice: lost replies and   *)
(* retries of Get and Append are never visible.                            *)
(***************************************************************************)
LinearizableButRepeatedPut == again \/ Linearizable
=============================================================================
