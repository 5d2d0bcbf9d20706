------------------------------- MODULE LabRPC -------------------------------
(***************************************************************************)
(* The simulated network (labrpc/labrpc.go): ClientEnd.Call, the goroutine *)
(* processReq that carries one request through the network, the handler it *)
(* starts on the server, and what the tester does meanwhile: MakeEnd,      *)
(* DeleteEnd, Enable, Connect, AddServer, DeleteServer, Reliable,          *)
(* LongReordering and Cleanup.                                             *)
(*                                                                         *)
(* One step is one critical section of rn.mu, one communication on a       *)
(* channel, or one random choice.  Delays are steps that are not taken     *)
(* yet.  A *Server is its number: a restarted server is a new one under    *)
(* the old name.                                                           *)
(***************************************************************************)
EXTENDS Naturals, FiniteSets

CONSTANTS
    Calls,      \* the Call()s clients make, each at most once
    End,        \* End[c] is the ClientEnd of call c
    Names,      \* server names
    NoName,     \* a ClientEnd that is not connected
    MaxServers, \* servers ever added
    MaxToggles  \* calls of MakeEnd, DeleteEnd, Connect, Enable, Reliable, LongReordering

Ends == {End[c] : c \in Calls}

ASSUME NetAssumption ==
    /\ DOMAIN End = Calls /\ NoName \notin Names
    /\ MaxServers \in Nat /\ MaxToggles \in Nat

VARIABLES
    ends, enabled, connections,   \* the ClientEnds, whether enabled, and their server's name
    servers,                \* name -> *Server, 0 is nil
    reliable, longReordering, done,
    call,                   \* the Call()s, each with the goroutine processReq serving it
    handler,                \* the handler goroutine of every call
    added, toggles          \* bounded counters

(* History variable: it records and never guards. *)
VARIABLE expired            \* calls whose handler ended on a server already deleted

netVars == <<ends, enabled, connections, servers, reliable, longReordering, done,
             added, toggles>>
allNetVars == <<netVars, call, handler, expired>>

(* pc of a call: where Call, or processReq on its behalf, stands.  server, *)
(* reliable and longReordering are what readEndnameInfo found, ok is the   *)
(* replyMsg on its way.                                                    *)
Call0 == [pc |-> "idle", name |-> NoName, server |-> 0, reliable |-> TRUE,
          longReordering |-> FALSE, ok |-> FALSE]

(* MakeNetwork *)
NetInit ==
    /\ ends = {}
    /\ enabled = [e \in Ends |-> FALSE]
    /\ connections = [e \in Ends |-> NoName]
    /\ servers = [n \in Names |-> 0]
    /\ reliable = TRUE /\ longReordering = FALSE /\ done = FALSE
    /\ call = [c \in Calls |-> Call0]
    /\ handler = [c \in Calls |-> "none"]
    /\ added = 0 /\ toggles = 0
    /\ expired = {}

-----------------------------------------------------------------------------
(* Call and the network's goroutines *)

Goes(c, pc) == call' = [call EXCEPT ![c].pc = pc]

Answers(c, ok) == call' = [call EXCEPT ![c].pc = "answer", ![c].ok = ok]

(* Call encodes its arguments and waits to send them *)
Calling(c) ==
    /\ call[c].pc = "idle" /\ End[c] \in ends
    /\ Goes(c, "send")
    /\ UNCHANGED <<netVars, handler, expired>>

(* the network's goroutine takes the request from endCh and starts         *)
(* processReq.  That goroutine ends some time after done, so then the step *)
(* may never come.                                                         *)
Accept(c) ==
    /\ call[c].pc = "send"
    /\ Goes(c, "accepted")
    /\ UNCHANGED <<netVars, handler, expired>>

(* case <-e.done: Call gives up *)
Destroyed(c) ==
    /\ call[c].pc = "send" /\ done
    /\ call' = [call EXCEPT ![c].pc = "returned", ![c].ok = FALSE]
    /\ UNCHANGED <<netVars, handler, expired>>

(* the server a name stands for, nil for no name *)
ServerOf(name) == IF name \in Names THEN servers[name] ELSE 0

(* processReq: readEndnameInfo, and the branch for an unreachable server *)
readEndnameInfo(c) ==
    LET name == connections[End[c]]
    IN  /\ call[c].pc = "accepted"
        /\ IF enabled[End[c]] /\ name # NoName /\ ServerOf(name) # 0
           THEN call' = [call EXCEPT ![c] =
                    [pc |-> "deliver", name |-> name, server |-> ServerOf(name),
                     reliable |-> reliable, longReordering |-> longReordering,
                     ok |-> FALSE]]
           ELSE Answers(c, FALSE)
        /\ UNCHANGED <<netVars, handler, expired>>

(* the request is dropped *)
DropRequest(c) ==
    /\ call[c].pc = "deliver" /\ ~call[c].reliable
    /\ Answers(c, FALSE)
    /\ UNCHANGED <<netVars, handler, expired>>

(* server.dispatch in a goroutine of its own *)
Dispatch(c) ==
    /\ call[c].pc = "deliver"
    /\ Goes(c, "wait")
    /\ handler' = [handler EXCEPT ![c] = "running"]
    /\ UNCHANGED <<netVars, expired>>

(* the handler returns; its reply waits in ech *)
HandlerReturns(c) ==
    /\ handler[c] = "running"
    /\ handler' = [handler EXCEPT ![c] = "replied"]
    /\ expired' = IF ServerOf(call[c].name) # call[c].server
                  THEN expired \cup {c} ELSE expired
    /\ UNCHANGED <<netVars, call>>

(* Mutant: a server is dead when there is none under its name. *)
IsNameDead(c) == ~enabled[End[c]] \/ servers[call[c].name] = 0

isServerDead(c) == ~enabled[End[c]] \/ servers[call[c].name] # call[c].server

(* case reply = <-ech *)
TakeReply(c) ==
    /\ call[c].pc = "wait" /\ handler[c] = "replied"
    /\ handler' = [handler EXCEPT ![c] = "drained"]
    /\ Goes(c, "recheck")
    /\ UNCHANGED <<netVars, expired>>

(* Mutant: the waiting loop never looks at the server. *)
PollNothing(c) ==
    /\ call[c].pc = "wait" /\ FALSE
    /\ Answers(c, FALSE)
    /\ UNCHANGED <<netVars, handler, expired>>

(* case <-time.After: the server is dead, nobody waits for the handler any *)
(* more.  (A poll that finds it alive changes nothing.)                    *)
Poll(c) ==
    /\ call[c].pc = "wait" /\ isServerDead(c)
    /\ Answers(c, FALSE)
    /\ UNCHANGED <<netVars, handler, expired>>

(* the second isServerDead, then the reply is lost or on its way, perhaps  *)
(* for long                                                                *)
Recheck(c) ==
    /\ call[c].pc = "recheck"
    /\ IF isServerDead(c)
       THEN Answers(c, FALSE)
       ELSE \/ ~call[c].reliable /\ Answers(c, FALSE)
            \/ call[c].longReordering /\ Goes(c, "delayed")
            \/ Answers(c, TRUE)
    /\ UNCHANGED <<netVars, handler, expired>>

(* time.AfterFunc of a delayed reply *)
Delayed(c) ==
    /\ call[c].pc = "delayed"
    /\ Answers(c, TRUE)
    /\ UNCHANGED <<netVars, handler, expired>>

(* replyCh: Call returns *)
Returns(c) ==
    /\ call[c].pc = "answer"
    /\ Goes(c, "returned")
    /\ UNCHANGED <<netVars, handler, expired>>

-----------------------------------------------------------------------------
(* The tester *)

Toggled ==
    /\ toggles < MaxToggles /\ toggles' = toggles + 1
    /\ UNCHANGED <<servers, done, added, call, handler, expired>>

MakeEnd(e) ==
    /\ e \notin ends
    /\ Toggled
    /\ ends' = ends \cup {e}
    /\ enabled' = [enabled EXCEPT ![e] = FALSE]
    /\ connections' = [connections EXCEPT ![e] = NoName]
    /\ UNCHANGED <<reliable, longReordering>>

DeleteEnd(e) ==
    /\ e \in ends
    /\ Toggled
    /\ ends' = ends \ {e}
    /\ enabled' = [enabled EXCEPT ![e] = FALSE]
    /\ connections' = [connections EXCEPT ![e] = NoName]
    /\ UNCHANGED <<reliable, longReordering>>

Connect(e, name) ==
    /\ Toggled
    /\ connections' = [connections EXCEPT ![e] = name]
    /\ UNCHANGED <<ends, enabled, reliable, longReordering>>

Enable(e, yes) ==
    /\ Toggled
    /\ enabled' = [enabled EXCEPT ![e] = yes]
    /\ UNCHANGED <<ends, connections, reliable, longReordering>>

Reliable(yes) ==
    /\ Toggled
    /\ reliable' = yes
    /\ UNCHANGED <<ends, enabled, connections, longReordering>>

LongReordering(yes) ==
    /\ Toggled
    /\ longReordering' = yes
    /\ UNCHANGED <<ends, enabled, connections, reliable>>

(* a new *Server under the name, replacing the one there if any *)
AddServer(name) ==
    /\ added < MaxServers
    /\ added' = added + 1
    /\ servers' = [servers EXCEPT ![name] = added + 1]
    /\ UNCHANGED <<ends, enabled, connections, reliable, longReordering, done, toggles,
                   call, handler, expired>>

DeleteServer(name) ==
    /\ servers' = [servers EXCEPT ![name] = 0]
    /\ UNCHANGED <<ends, enabled, connections, reliable, longReordering, done, added,
                   toggles, call, handler, expired>>

Cleanup ==
    /\ ~done
    /\ done' = TRUE
    /\ UNCHANGED <<ends, enabled, connections, servers, reliable, longReordering, added,
                   toggles, call, handler, expired>>

-----------------------------------------------------------------------------
(* what the network and Call do by themselves, once started *)
Progress(c) ==
    \/ Accept(c) \/ Destroyed(c) \/ readEndnameInfo(c)
    \/ DropRequest(c) \/ Dispatch(c)
    \/ TakeReply(c) \/ Poll(c) \/ Recheck(c) \/ Delayed(c) \/ Returns(c)

Tester ==
    \/ \E e \in Ends : MakeEnd(e) \/ DeleteEnd(e)
    \/ \E e \in Ends, name \in Names : Connect(e, name)
    \/ \E e \in Ends, yes \in BOOLEAN : Enable(e, yes)
    \/ \E yes \in BOOLEAN : Reliable(yes) \/ LongReordering(yes)
    \/ \E name \in Names : AddServer(name) \/ DeleteServer(name)
    \/ Cleanup

NetNext ==
    \/ \E c \in Calls : Calling(c) \/ Progress(c) \/ HandlerReturns(c)
    \/ Tester

NetSpec == NetInit /\ [][NetNext]_allNetVars

(* Goroutines that can run do run, timers fire and mutexes are handed on.  *)
(* Nothing is assumed of handlers, which may never return, nor of the      *)
(* tester.                                                                 *)
NetFairSpec == NetSpec /\ \A c \in Calls : WF_allNetVars(Progress(c))

-----------------------------------------------------------------------------
(* The network's tables and the calls keep their types: a call past        *)
(* readEndnameInfo names a server that was added.                          *)
NetTypeOK ==
    /\ ends \subseteq Ends
    /\ enabled \in [Ends -> BOOLEAN]
    /\ connections \in [Ends -> Names \cup {NoName}]
    /\ added \in 0..MaxServers /\ toggles \in 0..MaxToggles
    /\ servers \in [Names -> 0..added]
    /\ {reliable, longReordering, done} \subseteq BOOLEAN
    /\ call \in [Calls ->
          [pc : {"idle", "send", "accepted", "deliver", "wait", "recheck", "delayed",
                 "answer", "returned"},
           name : Names \cup {NoName}, server : 0..added, reliable : BOOLEAN,
           longReordering : BOOLEAN, ok : BOOLEAN]]
    /\ \A c \in Calls : call[c].pc \in {"deliver", "wait", "recheck", "delayed"} =>
          call[c].name \in Names /\ call[c].server # 0
    /\ handler \in [Calls -> {"none", "running", "replied", "drained"}]
    /\ expired \subseteq Calls

(* "Call() returns true to indicate that the server executed the request   *)
(* and the reply is valid" (labrpc.go:29), and no positive reply comes     *)
(* from a server that had been deleted when its handler ended, be it       *)
(* replaced under the same name since (labrpc.go:264): such a handler has  *)
(* written to a superseded Persister.                                      *)
OkMeansExecuted ==
    \A c \in Calls : call[c].pc = "returned" /\ call[c].ok =>
        handler[c] = "drained" /\ c \notin expired

(* "Call() is guaranteed to return ... except if the handler function on   *)
(* the server side does not return" (labrpc.go:37), whatever the tester    *)
(* does to ends, servers and the network meanwhile; and a Call whose       *)
(* handler hangs returns too once its server is deleted or its end         *)
(* disabled for good.                                                      *)
EveryNetCallReturns ==
    \A c \in Calls :
        \/ call[c].pc = "send" ~> call[c].pc = "returned"
        \/ <>[](handler[c] = "running" /\ ~isServerDead(c))
=============================================================================
