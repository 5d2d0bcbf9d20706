---------------------------- MODULE MCPorcupine ----------------------------
(***************************************************************************)
(* Small histories for Porcupine.  The operations of a partition are       *)
(* listed in the order of their calls; times are small enough for calls    *)
(* and returns to coincide.                                                *)
(***************************************************************************)
EXTENDS Porcupine

CONSTANTS a

Kinds ==
    {[op |-> "Get", Value |-> <<>>, out |-> <<>>], [op |-> "Get", Value |-> <<>>, out |-> <<a>>],
     [op |-> "Put", Value |-> <<a>>, out |-> <<>>], [op |-> "Append", Value |-> <<a>>, out |-> <<>>],
     [op |-> "AppendReturning", Value |-> <<a>>, out |-> <<a>>]}

Timed(kinds, keys, maxTime) ==
    {o \in Operations(keys, {<<>>, <<a>>}, {<<>>, <<a>>}, maxTime) :
        [op |-> o.op, Value |-> o.Value, out |-> o.out] \in kinds}

Histories(n, kinds, keys, maxTime) ==
    {ops \in [1..n -> Timed(kinds, keys, maxTime)] :
        \A i \in 1..(n - 1) : ops[i].Call <= ops[i + 1].Call}

(* every history of three operations on one key, Append aside *)
OneKey == Histories(3, {k \in Kinds : k.op # "Append"}, {1}, 3)

(* no operation at all, or two on one key, Append for Put, and a Get of    *)
(* another                                                                 *)
TwoKeys ==
    {<<>>} \cup
    {ops \in Histories(3, {k \in Kinds : k.op \in {"Get", "Append"}}, {1, 2}, 2) :
        \E i \in 1..3 : /\ ops[i].Key = 2 /\ ops[i].op = "Get"
                       /\ \A j \in (1..3) \ {i} : ops[j].Key = 1}

(* the first operation is in two longest prefixes: with the two Gets, and  *)
(* with the second, which must come before it                              *)
FourOps ==
    LET o(op, v, out, call, return) ==
            [op |-> op, Key |-> 1, Value |-> v, out |-> out, Call |-> call, Return |-> return]
    IN  <<o("Append", <<a>>, <<>>, 1, 1), o("AppendReturning", <<a>>, <<>>, 1, 3),
          o("Get", <<>>, <<a>>, 2, 3), o("Get", <<>>, <<a>>, 2, 3)>>

(* no event at all, or a Get that overlaps a Put, with ids in no order *)
Call(id, op, v) == [Kind |-> "call", Id |-> id, Value |-> [op |-> op, Key |-> 1, Value |-> v]]

Return(id, v) == [Kind |-> "return", Id |-> id, Value |-> v]

Events ==
    {<<>>} \cup
    {<<Call(7, "Put", <<a>>), Call(5, "Get", <<>>), Return(i, v), Return(12 - i, w)>> :
        i \in {5, 7}, v, w \in {<<>>, <<a>>}} \cup
    {<<Call(7, "Put", <<a>>), Return(7, <<>>), Call(5, "Get", <<>>), Return(5, v)>> :
        v \in {<<>>, <<a>>}}

Verbose == {[computeInfo |-> TRUE, timeout |-> FALSE]}

AllModes == [computeInfo : BOOLEAN, timeout : BOOLEAN]

(* the search in full on one key, the goroutines in every mode on two *)
MCChecks ==
    [kind : {"operations"}, history : OneKey, mode : Verbose] \cup
    [kind : {"operations"}, history : TwoKeys \cup {FourOps}, mode : AllModes] \cup
    [kind : {"events"}, history : Events, mode : Verbose]
=============================================================================
