------------------------------ MODULE AtomicKV ------------------------------
(***************************************************************************)
(* What the key/value service promises its clients: every call takes      *)
(* effect once, atomically, at some moment between its invocation and its  *)
(* return.  It is the sequential machine of models.KvModel (one value per  *)
(* key, "" at first; Get returns it, Put replaces it, Append extends it    *)
(* and returns the old value) with one outstanding call per client.  A Get *)
(* may look more than once before it returns: only the last look counts.   *)
(*                                                                         *)
(* A value is the sequence of the strings it was concatenated from.        *)
(***************************************************************************)
EXTENDS Sequences

CONSTANTS Clients, Keys, Strings, NoCall

VARIABLES store,   \* [Keys -> Seq(Strings)]
          call     \* [Clients -> the client's last call: pc, op, key, arg, out]

vars == <<store, call>>

Ops == {"Get", "Put", "Append"}

Args(op) == IF op = "Get" THEN {<<>>} ELSE {<<s>> : s \in Strings}

(* models.KvModel.Step: the value after the operation and what it returns *)
NewValue(op, value, arg) ==
    IF op = "Get" THEN value ELSE IF op = "Put" THEN arg ELSE value \o arg

Output(op, value) == IF op = "Put" THEN <<>> ELSE value

Init ==
    /\ store = [k \in Keys |-> <<>>]
    /\ call = [c \in Clients |-> NoCall]

Invoke(c) ==
    /\ call[c].pc = "idle"
    /\ \E op \in Ops, k \in Keys : \E arg \in Args(op) :
         call' = [call EXCEPT ![c] = [pc |-> "called", op |-> op, key |-> k,
                                      arg |-> arg, out |-> <<>>]]
    /\ UNCHANGED store

Perform(c) ==
    LET k == call[c].key
    IN  /\ \/ call[c].pc = "called"
           \/ call[c].pc = "done" /\ call[c].op = "Get"
        /\ store' = [store EXCEPT ![k] = NewValue(call[c].op, @, call[c].arg)]
        /\ call' = [call EXCEPT ![c].pc = "done",
                                ![c].out = Output(call[c].op, store[k])]

Return(c) ==
    /\ call[c].pc = "done"
    /\ call' = [call EXCEPT ![c].pc = "idle"]
    /\ UNCHANGED store

Next == \E c \in Clients : Invoke(c) \/ Perform(c) \/ Return(c)

Spec == Init /\ [][Next]_vars
=============================================================================
