----------------------------- MODULE Porcupine -----------------------------
(***************************************************************************)
(* The linearizability checker the tests judge histories with              *)
(* (porcupine/checker.go), run on models.KvModel: checkOperations and      *)
(* checkEvents, checkParallel with one goroutine checkSingle per           *)
(* partition, the kill flag, the results channel and the timeout, and what *)
(* computeVisualizationData (visualization.go) makes of the result.        *)
(*                                                                         *)
(* One step is one round of checkSingle's loop or one of checkParallel's   *)
(* select.  A node of the linked list is its position in the sequence of   *)
(* entries, 0 is headEntry.  Operations are numbered from 1, in the code   *)
(* from 0.                                                                 *)
(***************************************************************************)
EXTENDS Bitset, Integers, SequencesExt

(* the calls of the checker: [kind, history, mode], where history is a     *)
(* sequence of Operations or of Events, as kind says, and mode is          *)
(* [computeInfo, timeout : BOOLEAN]                                        *)
CONSTANT Checks

(* an Operation: Input is op, Key and Value, Output is out, Call and       *)
(* Return are times                                                        *)
Operations(keys, values, outs, maxTime) ==
    {o \in [op : {"Get", "Put", "Append", "AppendReturning"}, Key : keys, Value : values,
            out : outs, Call : 1..maxTime, Return : 1..maxTime] : o.Call <= o.Return}

ASSUME ChecksAssumption ==
    \A check \in Checks : check.kind = "operations" =>
        \A i \in DOMAIN check.history : check.history[i].Call <= check.history[i].Return

VARIABLES
    history,     \* the operations
    mode,        \* computeInfo, and whether there is a timeout
    parts,       \* the operations, by partition
    entries,     \* of every partition, in the order sort.Sort left them
    single,      \* the goroutines checkSingle
    main,        \* checkParallel
    kill

input == <<history, mode, parts, entries>>
vars == <<input, single, main, kill>>

Partitions == DOMAIN parts

-----------------------------------------------------------------------------
(* models.KvModel.Step: its verdict and the new state *)
StepOK(o, state) == o.op \in {"Get", "AppendReturning"} => o.out = state

StepState(o, state) ==
    IF o.op = "Get" THEN state
    ELSE IF o.op = "Put" THEN o.Value ELSE state \o o.Value

(* KvModel.Partition: the operations of each key, in the order of the keys *)
Partition(ops) ==
    LET keys == SetToSortSeq({ops[i].Key : i \in DOMAIN ops}, <)
    IN  [p \in DOMAIN keys |-> SelectSeq(ops, LAMBDA o : o.Key = keys[p])]

(* byTime.Less *)
Time(ops, e) == IF e.kind = "call" THEN ops[e.id].Call ELSE ops[e.id].Return

Less(ops, e, f) ==
    \/ Time(ops, e) < Time(ops, f)
    \/ Time(ops, e) = Time(ops, f) /\ e.kind = "call" /\ f.kind = "return"

(* makeEntries: every outcome of sort.Sort, which is not stable: a least   *)
(* entry, and the others sorted                                            *)
makeEntries(ops) ==
    LET all == [kind : {"call", "return"}, id : DOMAIN ops]
        sorted[S \in SUBSET all] ==
            IF S = {} THEN {<<>>}
            ELSE UNION {{<<e>> \o s : s \in sorted[S \ {e}]} :
                        e \in {e \in S : \A f \in S : ~Less(ops, f, e)}}
    IN  sorted[all]

(* renumber: ids in the order of their first events *)
renumber(events) ==
    LET first(i) == Min({j \in DOMAIN events : events[j].Id = events[i].Id})
    IN  [i \in DOMAIN events |->
            [events[i] EXCEPT !.Id = Cardinality({events[j].Id : j \in 1..first(i)})]]

(* convertEntries, which uses the index as the time *)
convertEntries(events) ==
    [i \in DOMAIN events |-> [kind |-> events[i].Kind, id |-> events[i].Id]]

(* the operations that events are the calls and returns of, as called *)
EventOps(events) ==
    LET calls == SetToSortSeq({i \in DOMAIN events : events[i].Kind = "call"}, <)
        return(i) == CHOOSE j \in DOMAIN events :
                       events[j].Id = events[i].Id /\ events[j].Kind = "return"
    IN  [id \in DOMAIN calls |->
            LET i == calls[id]
            IN  events[i].Value @@ [out |-> events[return(i)].Value, Call |-> i,
                                    Return |-> return(i)]]

-----------------------------------------------------------------------------
(* checkSingle *)

nil == -1

(* the return entry that matches call entry i *)
Match(es, i) == CHOOSE j \in DOMAIN es : es[j].kind = "return" /\ es[j].id = es[i].id

CallOf(es, id) == CHOOSE i \in DOMAIN es : es[i].kind = "call" /\ es[i].id = id

(* makeLinkedEntries, headEntry in front of it, and the locals of          *)
(* checkSingle; longest[id] is <<>> for nil                                *)
Single(es) ==
    [pc |-> "run",
     next |-> [i \in 0..Len(es) |-> IF i = Len(es) THEN nil ELSE i + 1],
     prev |-> [i \in 0..Len(es) |-> i - 1],
     entry |-> IF es = <<>> THEN nil ELSE 1,
     linearized |-> newBitset(Len(es) \div 2), calls |-> <<>>,
     cache |-> {}, state |-> <<>>, ok |-> FALSE,
     longest |-> [i \in 1..(Len(es) \div 2) |-> <<>>]]

(* entry i and its match leave the list and still point into it *)
lift(s, es, i) ==
    LET match == Match(es, i)
        next == [s.next EXCEPT ![s.prev[i]] = s.next[i]]
        prev == [s.prev EXCEPT ![s.next[i]] = s.prev[i]]
    IN  [s EXCEPT !.next = [next EXCEPT ![prev[match]] = next[match]],
                  !.prev = IF next[match] = nil THEN prev
                           ELSE [prev EXCEPT ![next[match]] = prev[match]]]

(* Mutant: the entry after the match does not learn of it. *)
unliftOneWay(s, es, i) ==
    LET match == Match(es, i)
        next == [s.next EXCEPT ![s.prev[match]] = match]
    IN  [s EXCEPT !.next = [next EXCEPT ![s.prev[i]] = i],
                  !.prev = [s.prev EXCEPT ![next[i]] = i]]

(* they are put back where they still point to, in the opposite order *)
unlift(s, es, i) ==
    LET match == Match(es, i)
        next == [s.next EXCEPT ![s.prev[match]] = match]
        prev == IF s.next[match] = nil THEN s.prev
                ELSE [s.prev EXCEPT ![s.next[match]] = match]
    IN  [s EXCEPT !.next = [next EXCEPT ![prev[i]] = i],
                  !.prev = [prev EXCEPT ![next[i]] = i]]

Ids(calls) == [i \in DOMAIN calls |-> calls[i].id]

(* Mutant: two entries in a bucket with the same state are the same. *)
CacheTrustsHash(cache, linearized, state) ==
    \E elem \in cache : elem.hash = hash(linearized) /\ elem.state = state

(* cache is the set of all its entries, each with the hash of its bucket;  *)
(* KvModel.Equal is the default, ShallowEqual                              *)
cacheContains(cache, linearized, state) ==
    \E elem \in cache :
        /\ elem.hash = hash(linearized)
        /\ equals(linearized, elem.linearized) /\ state = elem.state

(* Mutant: the search goes on from the lifted entry, not from the head. *)
TryCallGoesOn(s, es, o, id) ==
    LET linearized == set(s.linearized, id - 1)
        state == StepState(o, s.state)
        lifted == lift(s, es, s.entry)
    IN  IF StepOK(o, s.state) /\ ~cacheContains(s.cache, linearized, state)
        THEN [lifted EXCEPT
                !.cache = @ \cup {[hash |-> hash(linearized), linearized |-> linearized,
                                  state |-> state]},
                !.calls = Append(@, [id |-> id, state |-> s.state]),
                !.state = state,
                !.linearized = linearized,
                !.entry = lifted.next[@]]
        ELSE [s EXCEPT !.entry = s.next[@]]

(* an entry whose match is not nil: linearize the operation if the model   *)
(* allows it and that is new                                               *)
TryCall(s, es, o, id) ==
    LET linearized == set(s.linearized, id - 1)
        state == StepState(o, s.state)
        lifted == lift(s, es, s.entry)
    IN  IF StepOK(o, s.state) /\ ~cacheContains(s.cache, linearized, state)
        THEN [lifted EXCEPT
                !.cache = @ \cup {[hash |-> hash(linearized), linearized |-> linearized,
                                  state |-> state]},
                !.calls = Append(@, [id |-> id, state |-> s.state]),
                !.state = state,
                !.linearized = linearized,
                !.entry = lifted.next[0]]
        ELSE [s EXCEPT !.entry = s.next[@]]

(* Mutant: the first prefix found is kept, the longer ones are not. *)
RecordFirst(s, computeInfo) ==
    IF computeInfo
    THEN [i \in DOMAIN s.longest |->
            IF i \in Range(Ids(s.calls)) /\ s.longest[i] = <<>>
            THEN Ids(s.calls) ELSE s.longest[i]]
    ELSE s.longest

(* computePartial *)
Record(s, computeInfo) ==
    IF computeInfo
    THEN [i \in DOMAIN s.longest |->
            IF i \in Range(Ids(s.calls)) /\ Len(s.calls) > Len(s.longest[i])
            THEN Ids(s.calls) ELSE s.longest[i]]
    ELSE s.longest

(* a return entry: its operation cannot wait, undo the last one linearized *)
Backtrack(s, es, computeInfo) ==
    LET top == s.calls[Len(s.calls)]
        call == CallOf(es, top.id)
        unlifted == unlift(s, es, call)
    IN  [unlifted EXCEPT !.longest = Record(s, computeInfo),
                         !.calls = SubSeq(@, 1, Len(@) - 1),
                         !.state = top.state,
                         !.linearized = clear(@, top.id - 1),
                         !.entry = unlifted.next[call]]

(* the goroutine's result enters the buffered channel *)
Ends(s, ok) == [s EXCEPT !.pc = "sent", !.ok = ok]

(* one round of the loop; the one that finds the list empty returns true *)
Round(s, es, ops, computeInfo) ==
    IF s.next[0] = nil
    THEN [Ends(s, TRUE) EXCEPT !.longest = [i \in DOMAIN @ |-> Ids(s.calls)]]
    ELSE IF kill THEN Ends(s, FALSE)
    ELSE IF es[s.entry].kind = "call"
    THEN TryCall(s, es, ops[es[s.entry].id], es[s.entry].id)
    ELSE IF s.calls = <<>> THEN Ends(s, FALSE)
    ELSE Backtrack(s, es, computeInfo)

checkSingle(p) ==
    /\ single[p].pc = "run"
    /\ single' = [single EXCEPT ![p] =
                    Round(@, entries[p], parts[p], mode.computeInfo)]
    /\ UNCHANGED <<input, main, kill>>

-----------------------------------------------------------------------------
(* checkOperations, checkEvents and checkParallel *)

(* a check of operations: partitioned by key, each partition sorted *)
checkOperations(ops) ==
    /\ history = ops
    /\ parts = Partition(history)
    /\ LET sorted == [p \in Partitions |-> makeEntries(parts[p])]
       IN  entries \in {es \in [Partitions -> UNION Range(sorted)] :
                          \A p \in Partitions : es[p] \in sorted[p]}

(* a check of events: KvModel has no PartitionEvent, so fillDefault makes  *)
(* it NoPartitionEvent                                                     *)
checkEvents(events) ==
    /\ history = EventOps(events)
    /\ parts = <<history>>
    /\ entries = <<convertEntries(renumber(events))>>

Init ==
    /\ \E check \in Checks :
         /\ mode = check.mode
         /\ \/ check.kind = "operations" /\ checkOperations(check.history)
            \/ check.kind = "events" /\ checkEvents(check.history)
    /\ single = [p \in Partitions |-> Single(entries[p])]
    /\ main = [pc |-> "loop", ok |-> TRUE, count |-> 0, timedOut |-> FALSE]
    /\ kill = FALSE

(* where the loop goes when it breaks: the goroutines are waited for only  *)
(* when their longest[] is read                                            *)
Broken == IF mode.computeInfo THEN "drain" ELSE "done"

(* Mutant: the loop waits for one result too many. *)
ReceiveResultOneMore(p) ==
    LET ok == main.ok /\ single[p].ok
        stops == ~ok /\ ~mode.computeInfo
    IN  /\ main.pc = "loop" /\ single[p].pc = "sent"
        /\ single' = [single EXCEPT ![p].pc = "received"]
        /\ main' = [main EXCEPT !.ok = ok, !.count = @ + 1,
                      !.pc = IF stops \/ main.count >= Len(parts)
                             THEN Broken ELSE "loop"]
        /\ kill' = (kill \/ stops)
        /\ UNCHANGED input

(* case result := <-results *)
ReceiveResult(p) ==
    LET ok == main.ok /\ single[p].ok
        stops == ~ok /\ ~mode.computeInfo
    IN  /\ main.pc = "loop" /\ single[p].pc = "sent"
        /\ single' = [single EXCEPT ![p].pc = "received"]
        /\ main' = [main EXCEPT !.ok = ok, !.count = @ + 1,
                      !.pc = IF stops \/ main.count + 1 >= Len(parts)
                             THEN Broken ELSE "loop"]
        /\ kill' = (kill \/ stops)
        /\ UNCHANGED input

(* case <-timeoutChan *)
Timeout ==
    /\ main.pc = "loop" /\ mode.timeout
    /\ main' = [main EXCEPT !.timedOut = TRUE, !.pc = Broken]
    /\ kill' = TRUE
    /\ UNCHANGED <<input, single>>

(* Mutant: longest[] is read at once. *)
DrainNothing ==
    /\ main.pc = "drain"
    /\ main' = [main EXCEPT !.pc = "done"]
    /\ UNCHANGED <<input, single, kill>>

(* for count < len(history): wait for the rest, ignoring their results *)
Drain ==
    /\ main.pc = "drain"
    /\ \/ /\ main.count >= Len(parts)
          /\ main' = [main EXCEPT !.pc = "done"]
          /\ UNCHANGED single
       \/ \E p \in Partitions :
            /\ main.count < Len(parts) /\ single[p].pc = "sent"
            /\ single' = [single EXCEPT ![p].pc = "received"]
            /\ main' = [main EXCEPT !.count = @ + 1]
    /\ UNCHANGED <<input, kill>>

(* the CheckResult *)
Verdict == IF ~main.ok THEN "Illegal" ELSE IF main.timedOut THEN "Unknown" ELSE "Ok"

Next ==
    \/ \E p \in Partitions : checkSingle(p) \/ ReceiveResult(p)
    \/ Timeout
    \/ Drain

Spec == Init /\ [][Next]_vars

(* The goroutines and the caller are scheduled, and the timer fires if the *)
(* loop still waits then; it may fire at any moment.                       *)
FairSpec ==
    /\ Spec
    /\ WF_vars(\E p \in Partitions : checkSingle(p))
    /\ WF_vars(\E p \in Partitions : ReceiveResult(p))
    /\ WF_vars(Drain)
    /\ WF_vars(Timeout)

-----------------------------------------------------------------------------
(* computeVisualizationData *)

(* the distinct prefixes checkParallel returns of a partition *)
partialLinearizations(p) == Range(single[p].longest) \ {<<>>}

(* sort.Slice, which is not stable: the longer first *)
SortedPartials(p) ==
    {partials \in SetToSeqs(partialLinearizations(p)) :
        \A i, j \in DOMAIN partials : i < j => Len(partials[i]) >= Len(partials[j])}

(* the state after each step of a prefix, and whether a step is not ok:    *)
(* then it panics                                                          *)
Replay(ops, partial) ==
    LET state[j \in 0..Len(partial)] ==
            IF j = 0 THEN <<>> ELSE StepState(ops[partial[j]], state[j - 1])
    IN  state

Panics(ops, partial) ==
    \E j \in DOMAIN partial : ~StepOK(ops[partial[j]], Replay(ops, partial)[j - 1])

(* Mutant: the last prefix with an operation is taken for its largest. *)
LargerLast(partials, i, largest) ==
    [id \in DOMAIN largest |->
        IF id \in Range(partials[i])
        THEN [size |-> Len(partials[i]), index |-> i] ELSE largest[id]]

(* largestSize and largestIndex after prefix i *)
Larger(partials, i, largest) ==
    [id \in DOMAIN largest |->
        IF id \in Range(partials[i]) /\ largest[id].size < Len(partials[i])
        THEN [size |-> Len(partials[i]), index |-> i] ELSE largest[id]]

(* an id without an index in Largest has index 0 here *)
Largest(ops, partials) ==
    LET largest[i \in 0..Len(partials)] ==
            IF i = 0 THEN [id \in DOMAIN ops |-> [size |-> 0, index |-> 0]]
            ELSE Larger(partials, i, largest[i - 1])
    IN  largest[Len(partials)]

-----------------------------------------------------------------------------
(* Linearizability of operations on a map, defined without partitions and  *)
(* without the search                                                      *)

(* the states an order of operations runs through *)
StatesOf(ops, order) ==
    LET keys == {ops[i].Key : i \in DOMAIN ops}
        state[i \in 0..Len(order)] ==
            IF i = 0 THEN [k \in keys |-> <<>>]
            ELSE LET o == ops[order[i]]
                 IN  [state[i - 1] EXCEPT ![o.Key] = StepState(o, @)]
    IN  state

(* an order in which some operations can have taken effect: each one when  *)
(* every operation that returned before its call has                       *)
PartialLinearization(ops, order) ==
    /\ \A j \in DOMAIN order, i \in DOMAIN ops :
         ops[i].Return < ops[order[j]].Call => \E k \in 1..(j - 1) : order[k] = i
    /\ LET state == StatesOf(ops, order)
       IN  \A i \in DOMAIN order :
              LET o == ops[order[i]] IN StepOK(o, state[i - 1][o.Key])

Linearizable(ops) == \E order \in SetToSeqs(DOMAIN ops) : PartialLinearization(ops, order)

(* the lengths of the partial linearizations with operation i, and 0 *)
LengthsWith(ops, i) ==
    {0} \cup {Cardinality(S) : S \in {S \in SUBSET DOMAIN ops :
        i \in S /\ \E order \in SetToSeqs(S) : PartialLinearization(ops, order)}}

-----------------------------------------------------------------------------
(* The checker's state keeps its types; while operations are left the     *)
(* entry under the cursor is in the list (entry is never nil in the loop). *)
TypeOK ==
    /\ main.pc \in {"loop", "drain", "done"} /\ main.count \in 0..Len(parts)
    /\ \A p \in Partitions :
         LET s == single[p]
         IN  /\ s.pc \in {"run", "sent", "received"}
             /\ Len(s.linearized) = Len(newBitset(Len(parts[p])))
             /\ \A i \in DOMAIN s.linearized : s.linearized[i] \subseteq Bits
             /\ s.next[0] # nil =>
                  /\ s.entry \in DOMAIN entries[p]
                  /\ entries[p][s.entry].id \notin Range(Ids(s.calls))

(* lift and unlift undo each other although a lifted entry keeps pointers  *)
(* into a list that changes: read forwards and backwards, the list is the  *)
(* entries of the operations that are not on the stack, in their order,    *)
(* and the bitset holds just the operations on the stack, across the       *)
(* boundary of a chunk too (checker.go:159, bitset.go:29).                 *)
ListAndBitsAgree ==
    \A p \in Partitions :
        LET s == single[p]
            es == entries[p]
            stacked == Range(Ids(s.calls))
            listed == {i \in DOMAIN es : es[i].id \notin stacked}
        IN  /\ {id \in DOMAIN parts[p] : get(s.linearized, id - 1)} = stacked
            /\ popcnt(s.linearized) = Len(s.calls)
            /\ \A i \in {0} \cup listed :
                 LET later == {j \in listed : j > i}
                 IN  IF later = {} THEN s.next[i] = nil
                     ELSE s.next[i] = Min(later) /\ s.prev[Min(later)] = i

(* The search decides: Ok only if the whole history is linearizable as     *)
(* operations on a map, Illegal only if it is not, though it is searched   *)
(* key by key ("a history is linearizable if and only if each partition is *)
(* linearizable", model.go:28), whatever prefix is pruned by the cache,    *)
(* with two bitsets in one bucket too, whichever goroutine ends first and  *)
(* is killed, and whenever the timeout fires; Unknown only after a timeout *)
(* (checkSingle and checkParallel).                                        *)
VerdictRight ==
    main.pc = "done" =>
        /\ Verdict = "Ok" => Linearizable(history)
        /\ Verdict = "Illegal" => ~Linearizable(history)
        /\ Verdict = "Unknown" => mode.timeout

(* "longest linearizable prefix that includes the given entry"             *)
(* (checker.go:185): when the search ran to its end, what checkSingle      *)
(* reports for an operation is a partial linearization with it, and none   *)
(* is longer, in spite of the prefixes the cache cuts off.                 *)
LongestRight ==
    main.pc = "done" /\ mode.computeInfo /\ ~main.timedOut =>
        \A p \in Partitions : \A i \in DOMAIN parts[p] :
            LET order == single[p].longest[i]
            IN  /\ order # <<>> => i \in Range(order) /\ PartialLinearization(parts[p], order)
                /\ Len(order) = Max(LengthsWith(parts[p], i))

(* "valid partial linearization returned non-ok result from model step"    *)
(* (visualization.go:69) is never reached, after a timeout in the middle   *)
(* of the search either, and the prefix drawn for an operation (Largest)   *)
(* is one of the longest that have it, in every order the sort may leave.  *)
VisualizationRight ==
    main.pc = "done" /\ mode.computeInfo =>
        \A p \in Partitions :
            /\ \A partial \in partialLinearizations(p) : ~Panics(parts[p], partial)
            /\ \A partials \in SortedPartials(p), id \in DOMAIN parts[p] :
                 LET with == {i \in DOMAIN partials : id \in Range(partials[i])}
                     index == Largest(parts[p], partials)[id].index
                 IN  IF with = {} THEN index = 0
                     ELSE index \in with /\ \A i \in with :
                            Len(partials[i]) <= Len(partials[index])

(* "make sure we've waited for all goroutines to finish, otherwise we      *)
(* might race on access to longest[]" (checker.go:313): a verbose check    *)
(* never returns while a goroutine can still write.                        *)
NoRaceOnLongest ==
    main.pc = "done" /\ mode.computeInfo => \A p \in Partitions : single[p].pc # "run"

(* A check ends, after an early Illegal and after a timeout too, unless it *)
(* has no partition and no timeout: then checkParallel waits for a result  *)
(* nobody sends (checker.go:294).                                          *)
VerdictGiven ==
    <>(main.pc = "done") \/ [](parts = <<>> /\ ~mode.timeout)
=============================================================================
