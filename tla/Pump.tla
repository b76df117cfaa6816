-------------------------------- MODULE Pump --------------------------------
(***************************************************************************)
(* The loop that drives an Indexer: acquire the consumer lock, resume from *)
(* the stored position, watch, hand each event to the handler, heartbeat,  *)
(* release, retry.  Several pumps share the lock service and the stream.   *)
(* What a handler does is left to the module that extends this one; it     *)
(* takes over at pc "handle" and ends with Handled or HandlerFails.        *)
(*                                                                         *)
(* A pump passes its holder name as the consumer name as well, so whoever  *)
(* asks for a lock already is its holder: WaitForLock never has to wait    *)
(* for another pump.                                                       *)
(***************************************************************************)
EXTENDS Integers, Sequences

CONSTANTS
  Pump,        \* pump instances; each is run once
  Name,        \* consumer names
  HolderOf,    \* the holder name each pump was given
  Payload,     \* what an event can be to the handler
  MaxEvents    \* bound on the stream's length

ASSUME PumpAssump ==
  /\ HolderOf \in [Pump -> Name]
  /\ MaxEvents \in Nat \ {0}

VARIABLES
  remote,      \* the transport: gRPC, or in memory
  reported,    \* somebody follows what the pumps report (the states are left out otherwise)
  log,         \* payloads of the stored events
  pos,         \* stored position of each consumer; 0 when there is none
  pc,          \* where each loop stands
  state,       \* the PumpState it reports
  position,    \* the loop's own position
  cursor,      \* id of the last event its watch delivered
  event,       \* the event at its handler
  stream,      \* its KeepAlive stream; "broken": its watch is broken as well
  outcome,     \* error of the cycle: one to retry, or a permanent one
  cancelled,   \* its context is done
  monitor,     \* the goroutine that waits for that
  emits        \* setState calls between Swap and the end of Emit

serviceVars == <<remote, reported, log, pos>>
loopVars    == <<pc, position, cursor, event, stream, outcome>>
pumpVars    == <<serviceVars, loopVars, state, cancelled, monitor, emits>>

PumpState ==
  {"WaitingForLock", "Acquiring", "Watching", "LockLost", "Failed", "Closed"}

FirstId == IF remote THEN 1 ELSE 0
LastId  == FirstId + Len(log) - 1
Ids     == 0..MaxEvents

PumpTypeOK ==
  /\ remote \in BOOLEAN
  /\ reported \in BOOLEAN
  /\ log \in Seq(Payload) /\ Len(log) <= MaxEvents
  /\ pos \in [Name -> Ids]
  /\ pc \in [Pump -> {"idle", "loop", "begin", "acquire", "open", "tick", "handle", "beat",
                      "release", "after", "settle", "returned"}]
  /\ state \in [Pump -> PumpState]
  /\ position \in [Pump -> Ids]
  /\ cursor \in [Pump -> -1..MaxEvents]
  /\ event \in [Pump -> Ids]
  /\ stream \in [Pump -> {"none", "bound", "lost", "ended", "broken"}]
  /\ outcome \in [Pump -> {"none", "retry", "fail"}]
  /\ cancelled \in [Pump -> BOOLEAN]
  /\ monitor \in [Pump -> BOOLEAN]
  /\ emits \subseteq [pump : Pump, by : {"loop", "monitor"}, st : PumpState]

PumpInit ==
  /\ remote \in BOOLEAN
  /\ reported \in BOOLEAN
  /\ log = <<>>
  /\ pos = [n \in Name |-> 0]
  /\ pc = [p \in Pump |-> "idle"]
  /\ state = [p \in Pump |-> "WaitingForLock"]
  /\ position = [p \in Pump |-> 0]
  /\ cursor = [p \in Pump |-> -1]
  /\ event = [p \in Pump |-> 0]
  /\ stream = [p \in Pump |-> "none"]
  /\ outcome = [p \in Pump |-> "none"]
  /\ cancelled = [p \in Pump |-> FALSE]
  /\ monitor = [p \in Pump |-> FALSE]
  /\ emits = {}
-----------------------------------------------------------------------------
(* The reported state *)

KeepState == UNCHANGED <<state, emits>>

\* setState swaps the value and then emits, before its caller goes on.
SetState(p, by, s) ==
  IF ~reported THEN KeepState
  ELSE /\ state' = [state EXCEPT ![p] = s]
       /\ emits' = emits \cup {[pump |-> p, by |-> by, st |-> s]}

At(p, l) ==
  /\ pc[p] = l
  /\ \A e \in emits : e.pump = p => e.by # "loop"
Goto(p, l) == pc' = [pc EXCEPT ![p] = l]

\* The cycle ends with an error; the deferred Release, if there is a lock, is next.
Give(p, o, l) ==
  /\ outcome' = [outcome EXCEPT ![p] = o]
  /\ Goto(p, l)
  /\ KeepState
  /\ UNCHANGED <<position, cursor, event, cancelled, monitor>>
-----------------------------------------------------------------------------
(* RunWithDomainStream *)

Start(p) ==
  /\ pc[p] = "idle"
  /\ SetState(p, "loop", "WaitingForLock")
  /\ monitor' = [monitor EXCEPT ![p] = reported]
  /\ Goto(p, "loop")
  /\ UNCHANGED <<serviceVars, position, cursor, event, stream, outcome,
                 cancelled>>

Return(p) ==
  /\ outcome' = [outcome EXCEPT ![p] = "none"]
  /\ Goto(p, "returned")
  /\ UNCHANGED <<serviceVars, position, cursor, event, stream, cancelled, monitor>>

\* The context is looked at before a cycle and after a failed one; it may end
\* between the look and the setState that follows, which only matters to those
\* who follow the states.
CheckContext(p, here, next) ==
  /\ At(p, here)
  /\ KeepState
  /\ \/ cancelled[p] /\ Return(p)
     \/ /\ ~cancelled[p]
        /\ Goto(p, next)
        /\ UNCHANGED <<serviceVars, position, cursor, event, stream, outcome,
                       cancelled, monitor>>

BeginCycle(p) ==
  /\ At(p, "begin")
  /\ SetState(p, "loop", "Acquiring")
  /\ Goto(p, "acquire")
  /\ UNCHANGED <<serviceVars, position, cursor, event, stream, outcome,
                 cancelled, monitor>>

EndCycle(p) ==
  /\ At(p, "settle")
  /\ outcome' = [outcome EXCEPT ![p] = "none"]
  /\ \/ /\ outcome[p] = "retry"
        /\ SetState(p, "loop", "LockLost")
        /\ Goto(p, "loop")
     \/ /\ outcome[p] = "fail"
        /\ SetState(p, "loop", "Failed")
        /\ Goto(p, "returned")
  /\ UNCHANGED <<serviceVars, position, cursor, event, stream, cancelled, monitor>>

\* Close, or the end of the caller's context.
Cancel(p) ==
  /\ pc[p] \notin {"idle", "returned"} /\ ~cancelled[p]
  /\ cancelled' = [cancelled EXCEPT ![p] = TRUE]
  /\ KeepState
  /\ UNCHANGED <<serviceVars, loopVars, monitor>>

\* The client's goroutine cancels the context when the run has returned.
ClientEnds(p) ==
  /\ At(p, "returned") /\ ~cancelled[p] /\ reported
  /\ cancelled' = [cancelled EXCEPT ![p] = TRUE]
  /\ KeepState
  /\ UNCHANGED <<serviceVars, loopVars, monitor>>

MonitorCancellation(p) ==
  /\ monitor[p] /\ cancelled[p]
  /\ SetState(p, "monitor", "Closed")
  /\ monitor' = [monitor EXCEPT ![p] = FALSE]
  /\ UNCHANGED <<serviceVars, loopVars, cancelled>>
-----------------------------------------------------------------------------
(* runPumpTick: acquire and watch *)

\* The lock is the caller's own or nobody's.  Over gRPC a KeepAlive stream is
\* bound to it before the call returns.
Grant(p) ==
  /\ At(p, "acquire") /\ ~cancelled[p]
  /\ position' = [position EXCEPT ![p] = pos[HolderOf[p]]]
  /\ stream' = [stream EXCEPT ![p] = "bound"]
  /\ Goto(p, "open")
  /\ KeepState
  /\ UNCHANGED <<serviceVars, cursor, event, outcome, cancelled, monitor>>

\* The call failed, or the lock was granted and the KeepAlive stream could not be
\* bound to it.
AcquireFails(p) ==
  /\ At(p, "acquire")
  /\ Give(p, "retry", "after")
  /\ UNCHANGED <<serviceVars, stream>>

\* (mutant: After is taken as the first id wanted)
ResumePast(p) == IF position[p] > 0 THEN position[p] + 1 ELSE FirstId - 1
ResumeAfter(p) == IF position[p] > 0 THEN position[p] ELSE FirstId - 1

OpenWatch(p) ==
  /\ At(p, "open")
  /\ cursor' = [cursor EXCEPT ![p] = ResumeAfter(p)]
  /\ SetState(p, "loop", "Watching")
  /\ Goto(p, "tick")
  /\ UNCHANGED <<serviceVars, position, event, stream, outcome, cancelled, monitor>>

OpenFails(p) ==
  /\ At(p, "open")
  /\ Give(p, "retry", "release")
  /\ UNCHANGED <<serviceVars, stream>>
-----------------------------------------------------------------------------
(* runWatchLoop *)

NextEvent(p) ==
  /\ At(p, "tick") /\ stream[p] # "broken"
  /\ cursor[p] < LastId
  /\ event' = [event EXCEPT ![p] = cursor[p] + 1]
  /\ cursor' = [cursor EXCEPT ![p] = @ + 1]
  /\ Goto(p, "handle")
  /\ KeepState
  /\ UNCHANGED <<serviceVars, position, stream, outcome, cancelled, monitor>>

\* An error of the watch is permanent for the pump, whatever caused it.
TickFails(p) ==
  /\ At(p, "tick")
  /\ Give(p, "fail", "release")
  /\ UNCHANGED <<serviceVars, stream>>

\* Only the in-memory Tick ends with its own timeout; over gRPC it waits for the
\* stream alone.
ProactiveHeartbeat(p) ==
  /\ ~remote
  /\ At(p, "tick") /\ cursor[p] = LastId
  /\ Goto(p, "beat")
  /\ KeepState
  /\ UNCHANGED <<serviceVars, position, cursor, event, stream, outcome, cancelled,
                 monitor>>

\* TickWithID returns after the handler; only then does the dedup guard look at
\* the id.
Handled(p) ==
  /\ At(p, "handle")
  /\ position' = [position EXCEPT ![p] = IF event[p] <= @ THEN @ ELSE event[p]]
  /\ Goto(p, IF event[p] <= position[p] THEN "tick" ELSE "beat")
  /\ KeepState
  /\ UNCHANGED <<serviceVars, cursor, event, stream, outcome, cancelled, monitor>>

\* An error is permanent unless the handler marked it as recoverable.
HandlerFails(p, o) ==
  /\ At(p, "handle")
  /\ Give(p, o, "release")
  /\ UNCHANGED <<serviceVars, stream>>
-----------------------------------------------------------------------------
(* applyHeartbeat and Release *)

\* The server renews the lock and stores the position in one transaction.
\* (mutant: what is stored is the next event to read)
RenewedNext(p) ==
  /\ position[p] >= pos[HolderOf[p]]
  /\ pos' = [pos EXCEPT ![HolderOf[p]] = position[p] + 1]
  /\ UNCHANGED position
Renewed(p) ==
  /\ position[p] >= pos[HolderOf[p]]
  /\ pos' = [pos EXCEPT ![HolderOf[p]] = position[p]]
  /\ UNCHANGED position

Conflict(p) ==
  /\ position[p] < pos[HolderOf[p]]
  /\ position' = [position EXCEPT ![p] = pos[HolderOf[p]]]
  /\ UNCHANGED pos

Heartbeat(p) ==
  /\ At(p, "beat") /\ ~cancelled[p]
  /\ stream[p] = "bound"
  /\ Renewed(p) \/ Conflict(p)
  /\ Goto(p, "tick")
  /\ KeepState
  /\ UNCHANGED <<remote, reported, log, cursor, event, stream, outcome,
                 cancelled, monitor>>

\* The client reads the LockLost the server pushed as the answer to its
\* heartbeat, which the server did not process, and takes it for a renewal.
HeartbeatMisread(p) ==
  /\ At(p, "beat") /\ ~cancelled[p]
  /\ stream[p] = "lost"
  /\ stream' = [stream EXCEPT ![p] = "ended"]
  /\ Goto(p, "tick")
  /\ KeepState
  /\ UNCHANGED <<serviceVars, position, cursor, event, outcome, cancelled, monitor>>

\* Expired or stolen, the stream or the context ended, or the call failed.
HeartbeatFails(p) ==
  /\ At(p, "beat")
  /\ Give(p, "retry", "release")
  /\ UNCHANGED <<serviceVars, stream>>

\* The deferred Release ends the cycle, whatever comes of it.  The streams, the
\* watch and the position belong to the cycle.
Release(p) ==
  /\ At(p, "release")
  /\ stream' = [stream EXCEPT ![p] = "none"]
  /\ position' = [position EXCEPT ![p] = 0]
  /\ cursor' = [cursor EXCEPT ![p] = -1]
  /\ event' = [event EXCEPT ![p] = 0]
  /\ Goto(p, "after")
  /\ KeepState
  /\ UNCHANGED <<serviceVars, outcome, cancelled, monitor>>
-----------------------------------------------------------------------------
(* The service around the pumps *)

StoreEvent(x) ==
  /\ Len(log) < MaxEvents
  /\ log' = Append(log, x)
  /\ KeepState
  /\ UNCHANGED <<remote, reported, pos, loopVars, cancelled, monitor>>

\* The lock expired and was cleaned up, or was released under the same name; the
\* server says so on the KeepAlive stream, and ends it.
LockLostSent(p) ==
  /\ remote
  /\ stream[p] = "bound"
  /\ stream' = [stream EXCEPT ![p] = "lost"]
  /\ KeepState
  /\ UNCHANGED <<serviceVars, pc, position, cursor, event, outcome, cancelled, monitor>>

\* The service restarts: streams break.
RestartService ==
  /\ remote
  /\ \E p \in Pump : stream[p] \notin {"none", "broken"}
  /\ stream' = [p \in Pump |-> IF stream[p] = "none" THEN "none" ELSE "broken"]
  /\ KeepState
  /\ UNCHANGED <<serviceVars, pc, position, cursor, event, outcome, cancelled, monitor>>

\* What a pump's goroutines and its streams do between Start and the grants.
LoopStep(p) ==
  \/ CheckContext(p, "loop", "begin") \/ BeginCycle(p)
  \/ CheckContext(p, "after", "settle") \/ EndCycle(p)
  \/ Cancel(p) \/ ClientEnds(p) \/ MonitorCancellation(p)
  \/ AcquireFails(p) \/ OpenWatch(p) \/ OpenFails(p)
  \/ NextEvent(p) \/ TickFails(p) \/ ProactiveHeartbeat(p)
  \/ Heartbeat(p) \/ HeartbeatMisread(p) \/ HeartbeatFails(p)
  \/ Release(p) \/ LockLostSent(p)
=============================================================================
