--------------------------- MODULE AgentOperations ---------------------------
(***************************************************************************)
(* The hardware operations of the local agent (apps/local-agent/src):      *)
(* enrolments and identifications asked for over a local WebSocket, one at *)
(* a time.  Four pieces of state, each behind a lock of its own or none,   *)
(* have to agree: the active connection (ConnectionRegistry), the slot of  *)
(* the current operation (SessionManager), the flag behind the public      *)
(* state Busy (AgentStateMachine) and the tasks that run the operations    *)
(* (OperationCoordinator).                                                 *)
(*                                                                         *)
(* A step is what one thread does between two points where another may     *)
(* interleave.  The other signals the public state is derived from         *)
(* (paired, approved, not disabled, backend and reader online) are changed *)
(* by the heartbeat and the device watcher at any time, so where the code  *)
(* reads them the model leaves the answer open.  Operation ids are unique. *)
(***************************************************************************)
EXTENDS Naturals, FiniteSets

CONSTANTS
    Ops,            \* operations a client asks for
    Conns,          \* WebSocket connections
    None            \* no operation, no connection

ASSUME AgentOperationsAssumption == None \notin Ops /\ None \notin Conns

VARIABLES
    registry,       \* ConnectionRegistry: the active connection
    link,           \* the handler of each connection
    target,         \* the handle a handler is about to cancel
    slot,           \* SessionManager: the operation in the slot
    stateBusy,      \* AgentStateMachine: the flag of the operation
    phase,          \* OperationCoordinator: the task of each operation
    thread,         \* the read loop that still runs it, up to its first await
    cancelled,      \* operations whose CancellationTokenSource is cancelled
    disposed,       \* ... and is disposed
    reason,         \* OperationCoordinator: _cancelReasons
    answer          \* the kind of the message that ended the operation

connVars == <<registry, link, target>>
source == <<cancelled, disposed>>
vars == <<connVars, slot, stateBusy, phase, thread, source, reason, answer>>

-----------------------------------------------------------------------------
\* The life of a connection: Replace, CancelCurrent if there was a previous
\* one, the read loop, and at its end Remove, then CancelCurrent.  "cancelling"
\* is the read loop between reading Current and cancelling the handle it got; a
\* connection that is gone is not followed, and its name may be used again.
Links == {"gone", "replacing", "open", "cancelling", "closed"}

\* The life of an operation: "queued" in BeginAsync, "waiting" there for the
\* teardown of another, "begun" with the slot, "started" with the flag,
\* "running" in the try block, "ending" in its finally, "ended" once the flag
\* is back, "done"; "dead" if an exception is thrown outside the try block,
\* where no message is sent.
Phases ==
    {"idle", "queued", "waiting", "begun", "started", "running", "ending", "ended", "done", "dead"}

Reasons == {"none", "cancel", "stop"}

Answers == {"none", "busy", "outcome", "cancelled"}

\* The operation may still use its handle.
Live(o) == phase[o] \notin {"idle", "done", "dead"}

\* The coordinator is between OperationStarted and OperationEnded.
Active(o) == phase[o] \in {"started", "running", "ending"}

Move(o, to) == phase' = [phase EXCEPT ![o] = to]

Detach(o) == thread' = [thread EXCEPT ![o] = None]

-----------------------------------------------------------------------------
Init ==
    /\ registry = None
    /\ link = [c \in Conns |-> "gone"]
    /\ target = [c \in Conns |-> None]
    /\ slot = None
    /\ stateBusy = FALSE
    /\ phase = [o \in Ops |-> "idle"]
    /\ thread = [o \in Ops |-> None]
    /\ cancelled = {}
    /\ disposed = {}
    /\ reason = [o \in Ops |-> "none"]
    /\ answer = [o \in Ops |-> "none"]

Turn(c, to) ==
    /\ link' = [link EXCEPT ![c] = to]
    /\ target' = [target EXCEPT ![c] = None]

\* SessionManager.CancelCurrent: cancels and disposes whatever is in the slot,
\* and frees it without waiting for its task.
CancelCurrent ==
    /\ slot' = None
    /\ cancelled' = cancelled \cup ({slot} \ {None})
    /\ disposed' = disposed \cup ({slot} \ {None})
    /\ UNCHANGED <<stateBusy, phase, reason, answer>>

\* Cancel() may run the continuation of the cancelled await on the caller's
\* stack, through End (the lock is reentrant): CancelCurrent then dereferences
\* a slot that is empty, and throws.
CancelCurrentThrows ==
    /\ slot # None
    /\ phase[slot] = "running"
    /\ slot \notin cancelled
    /\ slot' = None
    /\ stateBusy' = FALSE
    /\ Move(slot, "done")
    /\ cancelled' = cancelled \cup {slot}
    /\ disposed' = disposed \cup {slot}
    /\ reason' = [reason EXCEPT ![slot] = "none"]
    /\ answer' = [answer EXCEPT ![slot] = IF reason[slot] = "cancel" THEN "cancelled" ELSE @]

\* The thread of the read loop is in the first, synchronous part of a start.
Blocked(c) == \E o \in Ops : thread[o] = c

\* HandleAsync: the new connection becomes the active one at once.
Accept(c) ==
    /\ link[c] = "gone"
    /\ registry # c
    /\ registry' = c
    /\ Turn(c, IF registry = None THEN "open" ELSE "replacing")
    /\ UNCHANGED <<slot, stateBusy, phase, thread, source, reason, answer>>

\* The exception leaves HandleAsync before its try block: nobody removes the
\* connection from the registry.
CancelPrevious(c) ==
    /\ link[c] = "replacing"
    /\ \/ CancelCurrent /\ Turn(c, "open")
       \/ CancelCurrentThrows /\ Turn(c, "gone")
    /\ UNCHANGED <<registry, thread>>

\* The read loop ends and the connection leaves the registry.
Close(c) ==
    /\ Turn(c, "closed")
    /\ registry' = IF registry = c THEN None ELSE registry

\* The socket is closed by the client, by the watchdog, or because it was
\* replaced.
Disconnect(c) ==
    /\ link[c] = "open" /\ ~Blocked(c)
    /\ Close(c)
    /\ UNCHANGED <<slot, stateBusy, phase, thread, source, reason, answer>>

CancelOwn(c) ==
    /\ link[c] = "closed"
    /\ CancelCurrent \/ CancelCurrentThrows
    /\ Turn(c, "gone")
    /\ UNCHANGED <<registry, thread>>

-----------------------------------------------------------------------------
(* Messages of the client.                                                 *)

\* enroll.start and identify.start, past GateOperationStart (which changes
\* nothing when it refuses).
StartOperation(c, o) ==
    /\ link[c] = "open" /\ ~Blocked(c)
    /\ phase[o] = "idle"
    /\ Move(o, "queued")
    /\ thread' = [thread EXCEPT ![o] = c]
    /\ UNCHANGED <<connVars, slot, stateBusy, source, reason, answer>>

\* operation.cancel and identify.stop: the reason is noted whatever the slot
\* holds; the handle is taken only if it is the operation's.  The note left
\* for an operation that is over is never read.
AskToEnd(c, o, why) ==
    /\ link[c] = "open" /\ ~Blocked(c)
    /\ Live(o) \/ slot = o
    /\ reason' = [reason EXCEPT ![o] = why]
    /\ IF slot = o
       THEN /\ link' = [link EXCEPT ![c] = "cancelling"]
            /\ target' = [target EXCEPT ![c] = o]
       ELSE UNCHANGED <<link, target>>
    /\ UNCHANGED <<registry, slot, stateBusy, phase, thread, source, answer>>

\* Cancel() of a disposed source throws, and the exception ends the handler.
CancelHandle(c) ==
    /\ link[c] = "cancelling"
    /\ IF target[c] \in disposed \ cancelled
       THEN Close(c) /\ UNCHANGED cancelled
       ELSE /\ Turn(c, "open")
            /\ cancelled' = cancelled \cup {target[c]}
            /\ UNCHANGED registry
    /\ UNCHANGED <<slot, stateBusy, phase, thread, disposed, reason, answer>>

-----------------------------------------------------------------------------
(* RunEnrollAsync and RunIdentifyAsync.                                    *)

\* BeginAsync gets the slot.
TakeSlot(o) ==
    /\ phase[o] \in {"queued", "waiting"}
    /\ slot = None
    /\ slot' = o
    /\ Move(o, "begun")
    /\ UNCHANGED <<connVars, stateBusy, thread, source, reason, answer>>

\* It waits, off the thread of the read loop, for an operation that was
\* cancelled...
AwaitTeardown(o) ==
    /\ phase[o] = "queued"
    /\ slot \in cancelled
    /\ Move(o, "waiting")
    /\ Detach(o)
    /\ UNCHANGED <<connVars, slot, stateBusy, source, reason, answer>>

\* ... and throws AgentBusyException for one that was not, or after the grace.
RefuseBusy(o) ==
    /\ slot # None
    /\ \/ phase[o] = "waiting"
       \/ phase[o] = "queued" /\ slot \notin cancelled
    /\ Move(o, "done")
    /\ Detach(o)
    /\ answer' = [answer EXCEPT ![o] = "busy"]
    /\ UNCHANGED <<connVars, slot, stateBusy, source, reason>>

\* Mutant: the state machine trusts the slot.
OperationStartedUnchecked(o) ==
    /\ phase[o] = "begun"
    /\ stateBusy' = TRUE
    /\ Move(o, "started")
    /\ UNCHANGED <<connVars, slot, thread, source, reason, answer>>

\* OperationStarted throws unless the state is Ready: not Busy, and none of the
\* other signals went away since GateOperationStart.
OperationStarted(o) ==
    /\ phase[o] = "begun"
    /\ \/ /\ ~stateBusy
          /\ stateBusy' = TRUE
          /\ Move(o, "started")
          /\ UNCHANGED thread
       \/ Move(o, "dead") /\ Detach(o) /\ UNCHANGED stateBusy
    /\ UNCHANGED <<connVars, slot, source, reason, answer>>

\* The token of a disposed source throws, before the try block.
LinkTokens(o) ==
    /\ phase[o] = "started"
    /\ Move(o, IF o \in disposed THEN "dead" ELSE "running")
    /\ Detach(o)
    /\ UNCHANGED <<connVars, slot, stateBusy, source, reason, answer>>

\* The body ends by itself, with success or with an error, the timeout of a
\* reader that hangs included.
Finish(o) ==
    /\ phase[o] = "running"
    /\ Move(o, "ending")
    /\ answer' = [answer EXCEPT ![o] = "outcome"]
    /\ UNCHANGED <<connVars, slot, stateBusy, thread, source, reason>>

\* Mutant: nothing in the body looks at the token of the handle.
ObserveStop(o) ==
    /\ phase[o] = "running"
    /\ reason[o] = "stop"
    /\ Move(o, "ending")
    /\ UNCHANGED <<connVars, slot, stateBusy, thread, source, reason, answer>>

\* Mutant: the state machine is told as soon as the body is cancelled.
ObserveCancellationReady(o) ==
    /\ phase[o] = "running"
    /\ o \in cancelled
    /\ Move(o, "ending")
    /\ stateBusy' = FALSE
    /\ UNCHANGED <<connVars, slot, thread, source, reason, answer>>

\* The body sees its cancellation; operation.cancelled is sent only if a
\* reason was noted by operation.cancel.
ObserveCancellation(o) ==
    /\ phase[o] = "running"
    /\ o \in cancelled
    /\ Move(o, "ending")
    /\ answer' = [answer EXCEPT ![o] = IF reason[o] = "cancel" THEN "cancelled" ELSE @]
    /\ UNCHANGED <<connVars, slot, stateBusy, thread, source, reason>>

\* The finally block: forget the reason, give the flag back...
OperationEnded(o) ==
    /\ phase[o] = "ending"
    /\ stateBusy' = FALSE
    /\ Move(o, "ended")
    /\ reason' = [reason EXCEPT ![o] = "none"]
    /\ UNCHANGED <<connVars, slot, thread, source, answer>>

\* Mutant: End does not compare the ids.
EndAny(o) ==
    /\ phase[o] = "ended"
    /\ slot' = None
    /\ disposed' = disposed \cup {o}
    /\ Move(o, "done")
    /\ UNCHANGED <<connVars, stateBusy, thread, cancelled, reason, answer>>

\* ... and release the slot, if it is still this operation's.
End(o) ==
    /\ phase[o] = "ended"
    /\ IF slot = o
       THEN slot' = None /\ disposed' = disposed \cup {o}
       ELSE UNCHANGED <<slot, disposed>>
    /\ Move(o, "done")
    /\ UNCHANGED <<connVars, stateBusy, thread, cancelled, reason, answer>>

-----------------------------------------------------------------------------
TaskStep(o) ==
    \/ TakeSlot(o) \/ AwaitTeardown(o) \/ RefuseBusy(o)
    \/ OperationStarted(o) \/ LinkTokens(o)
    \/ ObserveCancellation(o)
    \/ OperationEnded(o) \/ End(o)

ConnStep(c) == CancelPrevious(c) \/ CancelHandle(c) \/ CancelOwn(c)

Next ==
    \/ \E c \in Conns :
          \/ Accept(c) \/ Disconnect(c) \/ ConnStep(c)
          \/ \E o \in Ops : StartOperation(c, o) \/ AskToEnd(c, o, "cancel") \/ AskToEnd(c, o, "stop")
    \/ \E o \in Ops : TaskStep(o) \/ Finish(o)

Spec == Init /\ [][Next]_vars

\* Threads keep going, a wait in BeginAsync has its grace, and every await of
\* the body is given the token; a body that is not cancelled may go on for
\* ever (a continuous identification).
FairSpec ==
    /\ Spec
    /\ \A o \in Ops : WF_vars(TaskStep(o))
    /\ \A c \in Conns : WF_vars(ConnStep(c))

-----------------------------------------------------------------------------
(* Properties.                                                             *)

\* The state keeps its types, and a read loop holds a handle exactly while it
\* is cancelling it.
TypeOK ==
    /\ registry \in Conns \cup {None}
    /\ link \in [Conns -> Links]
    /\ target \in [Conns -> Ops \cup {None}]
    /\ \A c \in Conns : target[c] # None <=> link[c] = "cancelling"
    /\ slot \in Ops \cup {None}
    /\ stateBusy \in BOOLEAN
    /\ phase \in [Ops -> Phases]
    /\ thread \in [Ops -> Conns \cup {None}]
    /\ cancelled \subseteq Ops
    /\ disposed \subseteq Ops
    /\ reason \in [Ops -> Reasons]
    /\ answer \in [Ops -> Answers]

\* SessionManager, "una sola operacion de hardware en curso": two operations
\* never use the reader at once, although the slot may be freed and taken
\* again while the operation that had it is still being torn down.
OneOperationAtATime == \A o, p \in Ops : Active(o) /\ Active(p) => o = p

\* While an operation uses the reader the agent does not show itself Ready, so
\* no other can start.
BusyWhileActive == \A o \in Ops : Active(o) => stateBusy

\* SessionManager.End, "no-op ... si es de otro opId": an operation that was
\* neither cancelled nor is over holds the slot, whatever stale tasks and
\* connections of others end meanwhile.
UncancelledHoldsSlot == \A o \in Ops : Active(o) /\ o \notin cancelled => slot = o

\* The reader has one user, the flag shows it, and nobody else can free it.
ReaderIsHeld == OneOperationAtATime /\ BusyWhileActive /\ UncancelledHoldsSlot

\* An end that is on its way to the operation: a handler holds its handle, or is
\* about to cancel whatever has the slot, and the operation has it.
Reached(o) ==
    \E c \in Conns : target[c] = o \/ (slot = o /\ link[c] \in {"replacing", "closed"})

\* An operation that has the slot when the client asks for its end, or when the
\* connection is replaced or lost, is over in the end, wherever its task stands
\* between taking the slot and its last await, although nothing else is
\* guaranteed to end it.  One asked to end while it still waits for the slot is
\* not reached, and may go on for ever once it has it.
CancelledOperationEnds == \A o \in Ops : Reached(o) ~> phase[o] \in {"done", "dead"}
=============================================================================
