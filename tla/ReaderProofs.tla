----------------------------- MODULE ReaderProofs -----------------------------
(***************************************************************************)
(* Proofs about who has the fingerprint reader.  In the local agent        *)
(* (AgentOperations), for any operations and connections and any order of  *)
(* their steps: one operation at the reader, Busy while it is there, and   *)
(* the slot in the hands of the operation that was not cancelled.  In the  *)
(* browser (HidSession), for any number of calls, errors and samples: the  *)
(* reader is used under its lock and given back, and no state that waits   *)
(* for something waits for nothing.                                        *)
(***************************************************************************)
EXTENDS AgentOperations, HidSession, TLAPS

-----------------------------------------------------------------------------
(* The operations of the agent.                                            *)

\* Every step, named by the handler that takes it.
Step ==
    \/ \E c \in Conns :
          \/ Accept(c) \/ Disconnect(c) \/ CancelPrevious(c) \/ CancelHandle(c) \/ CancelOwn(c)
          \/ \E o \in Ops : StartOperation(c, o)
          \/ \E o \in Ops, why \in {"cancel", "stop"} : AskToEnd(c, o, why)
    \/ \E o \in Ops :
          \/ TakeSlot(o) \/ AwaitTeardown(o) \/ RefuseBusy(o)
          \/ OperationStarted(o) \/ LinkTokens(o) \/ Finish(o)
          \/ ObserveCancellation(o) \/ OperationEnded(o) \/ End(o)

LEMMA NextIsStep == Next => Step
  BY DEF Next, Step, TaskStep, ConnStep

-----------------------------------------------------------------------------
(* Types.                                                                  *)

LEMMA TypeInit == Init => TypeOK
<1> SUFFICES ASSUME Init PROVE TypeOK
  OBVIOUS
<1>1. /\ link \in [Conns -> Links] /\ target \in [Conns -> Ops \cup {None}]
      /\ \A c \in Conns : target[c] # None <=> link[c] = "cancelling"
  BY DEF Init, Links
<1>2. phase \in [Ops -> Phases] /\ thread \in [Ops -> Conns \cup {None}]
  BY DEF Init, Phases
<1>3. reason \in [Ops -> Reasons] /\ answer \in [Ops -> Answers]
  BY DEF Init, Reasons, Answers
<1> QED
  BY <1>1, <1>2, <1>3 DEF Init, TypeOK

\* A connection that turns to another phase holds no handle.
LEMMA TurnType ==
  ASSUME TypeOK, NEW c \in Conns, NEW to \in Links \ {"cancelling"}, Turn(c, to)
  PROVE  /\ link' \in [Conns -> Links]
         /\ target' \in [Conns -> Ops \cup {None}]
         /\ \A d \in Conns : target'[d] # None <=> link'[d] = "cancelling"
  BY AgentOperationsAssumption DEF TypeOK, Turn

LEMMA CancelType ==
  ASSUME TypeOK, CancelCurrent \/ CancelCurrentThrows
  PROVE  /\ slot' \in Ops \cup {None} /\ stateBusy' \in BOOLEAN
         /\ phase' \in [Ops -> Phases]
         /\ cancelled' \subseteq Ops /\ disposed' \subseteq Ops
         /\ reason' \in [Ops -> Reasons] /\ answer' \in [Ops -> Answers]
<1>1. CASE CancelCurrent
  BY <1>1 DEF TypeOK, CancelCurrent
<1>2. CASE CancelCurrentThrows
  BY <1>2 DEF TypeOK, CancelCurrentThrows, Move, Phases, Reasons, Answers
<1> QED
  BY <1>1, <1>2

LEMMA TypeStep == TypeOK /\ [Next]_vars => TypeOK'
<1> SUFFICES ASSUME TypeOK, [Next]_vars PROVE TypeOK'
  OBVIOUS
<1> USE AgentOperationsAssumption
<1>1. CASE UNCHANGED vars
  BY <1>1 DEF vars, connVars, source, TypeOK
<1>2. ASSUME NEW c \in Conns, Accept(c) PROVE TypeOK'
  <2>1. /\ link' \in [Conns -> Links]
        /\ target' \in [Conns -> Ops \cup {None}]
        /\ \A d \in Conns : target'[d] # None <=> link'[d] = "cancelling"
    <3>1. (IF registry = None THEN "open" ELSE "replacing") \in Links \ {"cancelling"}
      BY DEF Links
    <3> QED
      BY <1>2, <3>1, TurnType DEF Accept
  <2> QED
    BY <1>2, <2>1 DEF Accept, source, TypeOK
<1>3. ASSUME NEW c \in Conns, Close(c)
      PROVE  /\ registry' \in Conns \cup {None}
             /\ link' \in [Conns -> Links]
             /\ target' \in [Conns -> Ops \cup {None}]
             /\ \A d \in Conns : target'[d] # None <=> link'[d] = "cancelling"
  <2>1. "closed" \in Links \ {"cancelling"}
    BY DEF Links
  <2> QED
    BY <1>3, <2>1, TurnType DEF Close, TypeOK
<1>4. ASSUME NEW c \in Conns, Disconnect(c) PROVE TypeOK'
  BY <1>4, <1>3 DEF Disconnect, source, TypeOK
<1>5. ASSUME NEW c \in Conns, CancelPrevious(c) PROVE TypeOK'
  <2>1. "open" \in Links \ {"cancelling"} /\ "gone" \in Links \ {"cancelling"}
    BY DEF Links
  <2>2. /\ link' \in [Conns -> Links]
        /\ target' \in [Conns -> Ops \cup {None}]
        /\ \A d \in Conns : target'[d] # None <=> link'[d] = "cancelling"
    BY <1>5, <2>1, TurnType DEF CancelPrevious
  <2>3. CancelCurrent \/ CancelCurrentThrows
    BY <1>5 DEF CancelPrevious
  <2> QED
    BY <1>5, <2>2, <2>3, CancelType DEF CancelPrevious, TypeOK
<1>6. ASSUME NEW c \in Conns, CancelHandle(c) PROVE TypeOK'
  <2>1. target[c] \in Ops
    BY <1>6 DEF CancelHandle, TypeOK
  <2>2. "open" \in Links \ {"cancelling"}
    BY DEF Links
  <2>3. CASE Close(c) /\ UNCHANGED cancelled
    BY <1>6, <2>3, <1>3 DEF CancelHandle, TypeOK
  <2>4. CASE Turn(c, "open") /\ cancelled' = cancelled \cup {target[c]} /\ UNCHANGED registry
    <3>1. /\ link' \in [Conns -> Links]
          /\ target' \in [Conns -> Ops \cup {None}]
          /\ \A d \in Conns : target'[d] # None <=> link'[d] = "cancelling"
      BY <2>2, <2>4, TurnType
    <3> QED
      BY <1>6, <2>1, <2>4, <3>1 DEF CancelHandle, TypeOK
  <2> QED
    BY <1>6, <2>3, <2>4 DEF CancelHandle
<1>7. ASSUME NEW c \in Conns, CancelOwn(c) PROVE TypeOK'
  <2>1. "gone" \in Links \ {"cancelling"}
    BY DEF Links
  <2>2. /\ link' \in [Conns -> Links]
        /\ target' \in [Conns -> Ops \cup {None}]
        /\ \A d \in Conns : target'[d] # None <=> link'[d] = "cancelling"
    BY <1>7, <2>1, TurnType DEF CancelOwn
  <2>3. CancelCurrent \/ CancelCurrentThrows
    BY <1>7 DEF CancelOwn
  <2> QED
    BY <1>7, <2>2, <2>3, CancelType DEF CancelOwn, TypeOK
<1>8. ASSUME NEW c \in Conns, NEW o \in Ops, StartOperation(c, o) PROVE TypeOK'
  BY <1>8 DEF StartOperation, Move, connVars, source, TypeOK, Phases
<1>9. ASSUME NEW c \in Conns, NEW o \in Ops, NEW why \in {"cancel", "stop"}, AskToEnd(c, o, why)
      PROVE  TypeOK'
  <2>1. reason' \in [Ops -> Reasons]
    BY <1>9 DEF AskToEnd, TypeOK, Reasons
  <2>2. /\ link' \in [Conns -> Links]
        /\ target' \in [Conns -> Ops \cup {None}]
        /\ \A d \in Conns : target'[d] # None <=> link'[d] = "cancelling"
    BY <1>9 DEF AskToEnd, TypeOK, Links
  <2> QED
    BY <1>9, <2>1, <2>2 DEF AskToEnd, source, TypeOK
<1>10. ASSUME NEW o \in Ops, TakeSlot(o) PROVE TypeOK'
  BY <1>10 DEF TakeSlot, Move, connVars, source, TypeOK, Phases
<1>11. ASSUME NEW o \in Ops, AwaitTeardown(o) PROVE TypeOK'
  BY <1>11 DEF AwaitTeardown, Move, Detach, connVars, source, TypeOK, Phases
<1>12. ASSUME NEW o \in Ops, RefuseBusy(o) PROVE TypeOK'
  BY <1>12 DEF RefuseBusy, Move, Detach, connVars, source, TypeOK, Phases, Answers
<1>13. ASSUME NEW o \in Ops, OperationStarted(o) PROVE TypeOK'
  BY <1>13 DEF OperationStarted, Move, Detach, connVars, source, TypeOK, Phases
<1>14. ASSUME NEW o \in Ops, LinkTokens(o) PROVE TypeOK'
  BY <1>14 DEF LinkTokens, Move, Detach, connVars, source, TypeOK, Phases
<1>15. ASSUME NEW o \in Ops, Finish(o) PROVE TypeOK'
  BY <1>15 DEF Finish, Move, connVars, source, TypeOK, Phases, Answers
<1>16. ASSUME NEW o \in Ops, ObserveCancellation(o) PROVE TypeOK'
  BY <1>16 DEF ObserveCancellation, Move, connVars, source, TypeOK, Phases, Answers
<1>17. ASSUME NEW o \in Ops, OperationEnded(o) PROVE TypeOK'
  BY <1>17 DEF OperationEnded, Move, connVars, source, TypeOK, Phases, Reasons
<1>18. ASSUME NEW o \in Ops, End(o) PROVE TypeOK'
  BY <1>18 DEF End, Move, connVars, source, TypeOK, Phases
<1> QED
  BY NextIsStep, <1>1, <1>2, <1>4, <1>5, <1>6, <1>7, <1>8, <1>9, <1>10, <1>11, <1>12,
     <1>13, <1>14, <1>15, <1>16, <1>17, <1>18 DEF Step

\* Connections, slot, flag and tasks keep their types, and a read loop holds a
\* handle exactly while it is cancelling it.
THEOREM TypeCorrect == Spec => []TypeOK
  BY TypeInit, TypeStep, PTL DEF Spec

-----------------------------------------------------------------------------
(* The reader.                                                             *)

\* An operation that has the slot, or had it, and has not given it back.
HasBegun(o) == phase[o] \in {"begun", "started", "running", "ending"}

\* The invariant UncancelledHoldsSlot from the moment the slot is taken, so
\* that OperationStarted keeps it.
BegunHoldsSlot == \A o \in Ops : HasBegun(o) /\ o \notin cancelled => slot = o

Reader == OneOperationAtATime /\ BusyWhileActive /\ BegunHoldsSlot

\* The inductive invariant.
IInv == TypeOK /\ Reader

\* A step that makes no operation active, no operation begin, gives no flag or
\* slot back and forgets no cancellation.
LEMMA Quiet ==
  ASSUME Reader,
         \A o \in Ops : (Active(o)' => Active(o)) /\ (HasBegun(o)' => HasBegun(o)),
         stateBusy' = stateBusy, slot' = slot, cancelled \subseteq cancelled'
  PROVE  Reader'
  BY DEF Reader, OneOperationAtATime, BusyWhileActive, BegunHoldsSlot

\* What moving one task does to the others.
LEMMA MoveFacts ==
  ASSUME TypeOK, NEW o \in Ops, NEW to \in Phases, Move(o, to)
  PROVE  /\ phase'[o] = to
         /\ \A p \in Ops : p # o => phase'[p] = phase[p]
  BY DEF TypeOK, Move

LEMMA ReaderStep ==
  ASSUME IInv, [Next]_vars
  PROVE  Reader'
<1> USE AgentOperationsAssumption
<1>0. TypeOK /\ Reader
  BY DEF IInv
<1>1. CASE UNCHANGED vars
  BY <1>1, <1>0 DEF vars, connVars, source, Reader, OneOperationAtATime, BusyWhileActive,
     BegunHoldsSlot, Active, HasBegun
<1>2. ASSUME NEW c \in Conns, Accept(c) \/ Disconnect(c) PROVE Reader'
  BY <1>0, <1>2, Quiet DEF Accept, Disconnect, source, Active, HasBegun
<1>3. ASSUME CancelCurrent PROVE Reader'
  BY <1>0, <1>3 DEF CancelCurrent, TypeOK, Reader, OneOperationAtATime, BusyWhileActive,
     BegunHoldsSlot, Active, HasBegun
<1>4. ASSUME CancelCurrentThrows PROVE Reader'
  <2>1. slot \in Ops /\ Active(slot)
    BY <1>0, <1>4 DEF CancelCurrentThrows, TypeOK, Active
  <2>2. phase'[slot] = "done" /\ \A p \in Ops : p # slot => phase'[p] = phase[p]
    BY <1>0, <1>4, <2>1, MoveFacts DEF CancelCurrentThrows, Phases
  <2>3. \A p \in Ops : ~Active(p)'
    BY <1>0, <2>1, <2>2 DEF Reader, OneOperationAtATime, Active
  <2>4. \A p \in Ops : HasBegun(p)' => p \in cancelled'
    BY <1>0, <1>4, <2>1, <2>2 DEF CancelCurrentThrows, Reader, BegunHoldsSlot, HasBegun
  <2> QED
    BY <2>3, <2>4 DEF Reader, OneOperationAtATime, BusyWhileActive, BegunHoldsSlot
<1>5. ASSUME NEW c \in Conns, CancelPrevious(c) \/ CancelOwn(c) PROVE Reader'
  BY <1>3, <1>4, <1>5 DEF CancelPrevious, CancelOwn
<1>6. ASSUME NEW c \in Conns, CancelHandle(c) PROVE Reader'
  BY <1>0, <1>6, Quiet DEF CancelHandle, Active, HasBegun
<1>7. ASSUME NEW c \in Conns, NEW o \in Ops, StartOperation(c, o) PROVE Reader'
  <2>1. phase'[o] = "queued" /\ \A p \in Ops : p # o => phase'[p] = phase[p]
    BY <1>0, <1>7, MoveFacts DEF StartOperation, Phases
  <2> QED
    BY <1>0, <1>7, <2>1, Quiet DEF StartOperation, source, Active, HasBegun
<1>8. ASSUME NEW c \in Conns, NEW o \in Ops, NEW why \in {"cancel", "stop"}, AskToEnd(c, o, why)
      PROVE  Reader'
  BY <1>0, <1>8, Quiet DEF AskToEnd, source, Active, HasBegun
<1>9. ASSUME NEW o \in Ops, TakeSlot(o) PROVE Reader'
  <2>1. phase'[o] = "begun" /\ \A p \in Ops : p # o => phase'[p] = phase[p]
    BY <1>0, <1>9, MoveFacts DEF TakeSlot, Phases
  <2>2. \A p \in Ops : HasBegun(p) => p \in cancelled
    BY <1>0, <1>9 DEF TakeSlot, Reader, BegunHoldsSlot
  <2>3. BegunHoldsSlot'
    BY <1>9, <2>1, <2>2 DEF TakeSlot, source, BegunHoldsSlot, HasBegun
  <2>4. \A p \in Ops : Active(p)' => Active(p)
    BY <2>1 DEF Active
  <2> QED
    BY <1>0, <1>9, <2>3, <2>4 DEF TakeSlot, Reader, OneOperationAtATime, BusyWhileActive
<1>10. ASSUME NEW o \in Ops, AwaitTeardown(o) \/ RefuseBusy(o) PROVE Reader'
  <2>1. phase'[o] \in {"waiting", "done"} /\ \A p \in Ops : p # o => phase'[p] = phase[p]
    BY <1>0, <1>10, MoveFacts DEF AwaitTeardown, RefuseBusy, Phases
  <2> QED
    BY <1>0, <1>10, <2>1, Quiet DEF AwaitTeardown, RefuseBusy, source, Active, HasBegun
<1>11. ASSUME NEW o \in Ops, OperationStarted(o) PROVE Reader'
  <2>1. CASE ~stateBusy /\ stateBusy' = TRUE /\ Move(o, "started")
    <3>1. phase'[o] = "started" /\ \A p \in Ops : p # o => phase'[p] = phase[p]
      BY <1>0, <2>1, MoveFacts DEF Phases
    <3>2. \A p \in Ops : ~Active(p)
      BY <1>0, <2>1 DEF Reader, BusyWhileActive
    <3>3. \A p \in Ops : Active(p)' => p = o
      BY <3>1, <3>2 DEF Active
    <3>4. \A p \in Ops : HasBegun(p)' => HasBegun(p)
      BY <1>11, <3>1 DEF OperationStarted, HasBegun
    <3> QED
      BY <1>0, <1>11, <2>1, <3>3, <3>4
      DEF OperationStarted, source, Reader, OneOperationAtATime, BusyWhileActive, BegunHoldsSlot
  <2>2. CASE Move(o, "dead") /\ UNCHANGED stateBusy
    <3>1. phase'[o] = "dead" /\ \A p \in Ops : p # o => phase'[p] = phase[p]
      BY <1>0, <2>2, MoveFacts DEF Phases
    <3> QED
      BY <1>0, <1>11, <2>2, <3>1, Quiet DEF OperationStarted, source, Active, HasBegun
  <2> QED
    BY <1>11, <2>1, <2>2 DEF OperationStarted
<1>12. ASSUME NEW o \in Ops, LinkTokens(o) PROVE Reader'
  <2>1. phase'[o] \in {"dead", "running"} /\ \A p \in Ops : p # o => phase'[p] = phase[p]
    BY <1>0, <1>12, MoveFacts DEF LinkTokens, Phases
  <2> QED
    BY <1>0, <1>12, <2>1, Quiet DEF LinkTokens, source, Active, HasBegun
<1>13. ASSUME NEW o \in Ops, Finish(o) \/ ObserveCancellation(o) PROVE Reader'
  <2>1. phase'[o] = "ending" /\ \A p \in Ops : p # o => phase'[p] = phase[p]
    BY <1>0, <1>13, MoveFacts DEF Finish, ObserveCancellation, Phases
  <2> QED
    BY <1>0, <1>13, <2>1, Quiet DEF Finish, ObserveCancellation, source, Active, HasBegun
<1>14. ASSUME NEW o \in Ops, OperationEnded(o) PROVE Reader'
  <2>1. phase'[o] = "ended" /\ \A p \in Ops : p # o => phase'[p] = phase[p]
    BY <1>0, <1>14, MoveFacts DEF OperationEnded, Phases
  <2>2. \A p \in Ops : ~Active(p)'
    BY <1>0, <1>14, <2>1 DEF OperationEnded, Reader, OneOperationAtATime, Active
  <2>3. \A p \in Ops : HasBegun(p)' => HasBegun(p)
    BY <2>1 DEF HasBegun
  <2> QED
    BY <1>0, <1>14, <2>2, <2>3
    DEF OperationEnded, source, Reader, OneOperationAtATime, BusyWhileActive, BegunHoldsSlot
<1>15. ASSUME NEW o \in Ops, End(o) PROVE Reader'
  <2>1. phase'[o] = "done" /\ \A p \in Ops : p # o => phase'[p] = phase[p]
    BY <1>0, <1>15, MoveFacts DEF End, Phases
  <2>2. \A p \in Ops : (Active(p)' => Active(p)) /\ (HasBegun(p)' => HasBegun(p) /\ p # o)
    BY <2>1 DEF Active, HasBegun
  <2>3. slot' = slot \/ slot = o
    BY <1>15 DEF End
  <2> QED
    BY <1>0, <1>15, <2>2, <2>3
    DEF End, Reader, OneOperationAtATime, BusyWhileActive, BegunHoldsSlot
<1> QED
  BY NextIsStep, <1>1, <1>2, <1>5, <1>6, <1>7, <1>8, <1>9, <1>10, <1>11, <1>12, <1>13,
     <1>14, <1>15 DEF Step

\* The invariant that makes one slot, one flag and many tasks agree, preserved
\* by every step of connections and tasks.
THEOREM Inductive == Spec => []IInv
<1>1. Init => IInv
  <2> SUFFICES ASSUME Init PROVE IInv
    OBVIOUS
  <2>1. \A o \in Ops : ~Active(o) /\ ~HasBegun(o)
    BY DEF Init, Active, HasBegun
  <2> QED
    BY <2>1, TypeInit DEF IInv, Reader, OneOperationAtATime, BusyWhileActive, BegunHoldsSlot
<1>2. IInv /\ [Next]_vars => IInv'
  BY TypeStep, ReaderStep DEF IInv
<1> QED
  BY <1>1, <1>2, PTL DEF Spec

\* However many operations and connections interleave, one operation at most is
\* at the reader, the agent is not Ready meanwhile, and no stale task or
\* connection takes the slot from an operation that was not cancelled.
THEOREM ReaderIsHeldHolds == Spec => []ReaderIsHeld
<1>1. IInv => OneOperationAtATime /\ BusyWhileActive
  BY DEF IInv, Reader
<1>2. IInv => UncancelledHoldsSlot
  BY DEF IInv, Reader, BegunHoldsSlot, UncancelledHoldsSlot, Active, HasBegun
<1>3. IInv => ReaderIsHeld
  BY <1>1, <1>2 DEF ReaderIsHeld
<1> QED
  BY <1>3, Inductive, PTL

-----------------------------------------------------------------------------
(* The capture session of a tab.                                           *)

\* The lock is held by whoever will give it back; handlers are attached and an
\* arming is current only then, unless a late stop() took the lock away.
LockHeld ==
    /\ release => lock = "ours"
    /\ lock = "ours" => release \/ "lock" \in overtaken
    /\ ownership = "owner" => release
    /\ attached => release
    /\ current => active /\ arming # "none" /\ (attached \/ "stop" \in overtaken)

\* A stopped session is at rest once its stop() calls have ended.
StoppedRests ==
    /\ release /\ ~active => stopping > 0
    /\ ~active /\ stopping = 0 => state \in {"DISCONNECTED", "PAUSED"}

\* A sample is processed under the lock, and one at a time.
SamplesUnderLock ==
    /\ fresh > 0 /\ active /\ overtaken \cap {"stop", "sample"} = {} => release
    /\ overtaken \cap {"busy", "stop", "sample"} = {} =>
           /\ fresh <= 1
           /\ fresh > 0 => busy \/ (~active /\ ~attached)

\* One call awaits the lock, and none once it is there.
OneAsksForLock ==
    "lock" \notin overtaken =>
        /\ trying + waiting <= 1
        /\ release /\ active /\ stopping = 0 => trying + waiting = 0

Undisturbed == overtaken \cap {"arm", "stop", "lock"} = {}
Interrupted == stopping > 0 \/ pausing \/ probing

\* An undisturbed session that is armed or to be armed owns the reader.
ArmedOwns ==
    Undisturbed /\ active /\ stopping = 0 =>
        /\ attached => ownership = "owner"
        /\ state \in {"CONNECTING", "READY", "RECOVERING", "IDENTIFYING"} => ownership = "owner"
        /\ state = "RESULT" /\ ~pausing => hold = "fresh" \/ ownership = "owner"

\* What will replace a transient state is under way and not outdated.
SuccessorUnderWay ==
    Undisturbed /\ ~Interrupted =>
        /\ state \in {"CONNECTING", "READY"} => current
        /\ state = "RECOVERING" => retry \/ current
        /\ state = "IDENTIFYING" => fresh > 0 \/ current
        /\ state = "RESULT" => hold = "fresh" \/ current

HidInv ==
    /\ HidTypeOK
    /\ LockHeld
    /\ StoppedRests
    /\ SamplesUnderLock
    /\ OneAsksForLock
    /\ ArmedOwns
    /\ SuccessorUnderWay
    /\ CapturingHoldsReader
    /\ BusyMeansProcessing

-----------------------------------------------------------------------------
(* The steps of the session.                                               *)

\* What a call of arm() comes to: it joins the arming in flight, does nothing,
\* begins one, or finds no SDK.
ArmedOrNot(own, timer) ==
    \/ /\ \/ arming # "none" /\ overtaken' = (IF current THEN overtaken ELSE overtaken \cup {"arm"})
          \/ arming = "none" /\ ~(active /\ own = "owner") /\ overtaken' = overtaken
       /\ retry' = timer
       /\ UNCHANGED <<state, arming, current, attached, fresh, stale, hold>>
    \/ /\ active /\ own = "owner"
       /\ fresh' = 0 /\ stale' = stale + fresh
       /\ hold' = IF hold # "none" THEN "stale" ELSE "none"
       /\ overtaken' = overtaken
       /\ \/ arming' # "none" /\ current' /\ attached' /\ state' = "CONNECTING"
          \/ /\ UNCHANGED <<arming, current, attached>>
             /\ state' = "ERROR" \/ (state' = "RECOVERING" /\ retry')

LEMMA Arms ==
    \A own, n, timer : TryToArm(own, n, timer) => ArmedOrNot(own, timer)
BY DEF TryToArm, ArmedOrNot, Arm, JoinArming, ArmNothing, BeginArming, ArmWithoutSdk, Outdate,
       Overtake

\* Who calls it.
LEMMA ArmingActs ==
    /\ active /\ (LockTaken \/ LockGranted) => ArmedOrNot("owner", retry)
    /\ RetryFires \/ Plug => ArmedOrNot(ownership, FALSE)
    /\ Resume \/ Retry \/ (active /\ EndProbe) => ArmedOrNot(ownership, retry)
BY Arms DEF LockTaken, LockGranted, RetryFires, Plug, Resume, Retry, EndProbe


\* Errors are counted up to the maximum.
LEMMA Counted == \A n \in 0..MaxConsecutiveErrors : OneMore(n) \in 0..MaxConsecutiveErrors
BY HidSessionAssumption DEF OneMore

LEMMA RecoverTypes ==
    ASSUME HidTypeOK
    PROVE  \A n \in {0, errors}, usb \in BOOLEAN : Recover(n, usb) =>
               /\ state' \in States /\ retry' \in BOOLEAN /\ unplugged' \in BOOLEAN
               /\ errors' \in 0..MaxConsecutiveErrors
<1>1. \A n \in {0, errors} : OneMore(n) \in 0..MaxConsecutiveErrors
  BY Counted, HidSessionAssumption DEF HidTypeOK
<1> QED
  BY <1>1 DEF Recover, States, HidTypeOK

LEMMA ArmTypes ==
    ASSUME HidTypeOK, NEW own, NEW n \in 0..MaxConsecutiveErrors, NEW timer \in BOOLEAN,
           TryToArm(own, n, timer)
    PROVE  /\ state' \in States /\ arming' \in ArmStages \cup {"none"}
           /\ hold' \in {"none", "fresh", "stale"}
           /\ current' \in BOOLEAN /\ retry' \in BOOLEAN /\ unplugged' \in BOOLEAN
           /\ attached' \in BOOLEAN
           /\ fresh' \in Nat /\ stale' \in Nat /\ errors' \in 0..MaxConsecutiveErrors
           /\ overtaken' \subseteq {"lock", "arm", "stop", "sample", "hold", "busy"}
<1> USE DEF HidTypeOK
<1>1. errors' \in {n, OneMore(n)}
  BY DEF TryToArm, Arm, ArmWithoutSdk
<1>2. errors' \in 0..MaxConsecutiveErrors
  BY <1>1, Counted
<1>3. retry' \in {TRUE, FALSE, timer} /\ unplugged' \in {unplugged, FALSE}
      /\ attached' \in {TRUE, attached} /\ current' \in {TRUE, current}
  BY DEF TryToArm, Arm, ArmWithoutSdk, JoinArming, ArmNothing, BeginArming
<1>4. /\ state' \in States /\ arming' \in ArmStages \cup {"none"}
  BY DEF TryToArm, Arm, ArmWithoutSdk, JoinArming, ArmNothing, BeginArming, States, ArmStages
<1>5. /\ hold' \in {"none", "fresh", "stale"}
      /\ fresh' \in Nat /\ stale' \in Nat
  BY DEF TryToArm, Arm, ArmWithoutSdk, JoinArming, ArmNothing, BeginArming, Outdate
<1>6. overtaken' \subseteq {"lock", "arm", "stop", "sample", "hold", "busy"}
  BY DEF TryToArm, Arm, ArmWithoutSdk, JoinArming, ArmNothing, BeginArming, Overtake
<1> QED
  BY <1>2, <1>3, <1>4, <1>5, <1>6

\* The callers of arm() and what they leave alone.
LEMMA ArmingTypes ==
    ASSUME HidTypeOK,
           LockTaken \/ LockGranted \/ RetryFires \/ Resume \/ Retry \/ EndProbe \/ Plug
    PROVE  /\ state' \in States /\ arming' \in ArmStages \cup {"none"}
           /\ hold' \in {"none", "fresh", "stale"}
           /\ current' \in BOOLEAN /\ retry' \in BOOLEAN /\ unplugged' \in BOOLEAN
           /\ attached' \in BOOLEAN
           /\ fresh' \in Nat /\ stale' \in Nat /\ errors' \in 0..MaxConsecutiveErrors
           /\ overtaken' \subseteq {"lock", "arm", "stop", "sample", "hold", "busy"}
<1>1. CASE \E own \in {"owner", ownership}, n \in {0, errors}, timer \in {FALSE, retry} :
              TryToArm(own, n, timer)
  <2>1. PICK own \in {"owner", ownership}, n \in {0, errors}, timer \in {FALSE, retry} :
              TryToArm(own, n, timer)
    BY <1>1
  <2>2. n \in 0..MaxConsecutiveErrors
    <3>1. errors \in 0..MaxConsecutiveErrors /\ 0 \in 0..MaxConsecutiveErrors
      BY HidSessionAssumption DEF HidTypeOK
    <3> QED
      BY <3>1
  <2>3. timer \in BOOLEAN
    BY DEF HidTypeOK
  <2> QED
    BY <2>1, <2>2, <2>3, ArmTypes
<1>2. CASE /\ UNCHANGED <<state, armVars, fresh, stale, hold>>
          /\ overtaken' \in {overtaken, overtaken \cup {"lock"}}
  BY <1>2 DEF armVars, HidTypeOK
<1>3. CASE LockTaken
  BY <1>1, <1>2, <1>3 DEF LockTaken, Overtake
<1>4. CASE LockGranted
  BY <1>1, <1>2, <1>4 DEF LockGranted
<1>5. CASE RetryFires \/ Resume \/ Retry \/ Plug
  BY <1>1, <1>5 DEF RetryFires, Resume, Retry, Plug
<1>6. CASE EndProbe
  BY <1>1, <1>2, <1>6 DEF EndProbe
<1> QED
  BY <1>3, <1>4, <1>5, <1>6

\* The types, by what they are of.
FlagTypes ==
    /\ active \in BOOLEAN /\ release \in BOOLEAN
    /\ pausing \in BOOLEAN /\ probing \in BOOLEAN
    /\ current \in BOOLEAN /\ retry \in BOOLEAN /\ unplugged \in BOOLEAN
    /\ attached \in BOOLEAN /\ busy \in BOOLEAN /\ waiter \in BOOLEAN

StageTypes ==
    /\ mode \in {"none", "continuous", "manual"}
    /\ state \in States
    /\ ownership \in {"none", "waiting", "owner"}
    /\ lock \in {"free", "ours", "other"}
    /\ arming \in ArmStages \cup {"none"}
    /\ hold \in {"none", "fresh", "stale"}

CountTypes ==
    /\ trying \in Nat /\ waiting \in Nat /\ stopping \in Nat
    /\ fresh \in Nat /\ stale \in Nat

OvertakenType == overtaken \subseteq {"lock", "arm", "stop", "sample", "hold", "busy"}

ErrorsType == errors \in 0..MaxConsecutiveErrors

\* The flags.
LEMMA FlagTypeStep ==
    ASSUME HidTypeOK, [HidNext]_hidVars
    PROVE  FlagTypes'
<1> USE DEF FlagTypes, ownerVars, armVars, sampleVars, callVars
<1>0. FlagTypes
  BY DEF HidTypeOK
<1>1. ASSUME NEW m \in {"continuous", "manual"}, Start(m)
      PROVE  FlagTypes'
  BY <1>0, <1>1 DEF Start
<1>2. CASE LockTaken \/ LockGranted \/ RetryFires
  BY <1>0, <1>2, ArmingTypes DEF LockTaken, LockGranted, RetryFires
<1>13. CASE Resume \/ Retry
  BY <1>0, <1>13, ArmingTypes DEF Resume, Retry
<1>14. CASE EndProbe \/ Plug
  BY <1>0, <1>14, ArmingTypes DEF EndProbe, Plug
<1>3. CASE ContinueArming
  BY <1>0, <1>3, RecoverTypes DEF ContinueArming, EndOutdated, AdvanceArming,
       FailArming
<1>4. CASE LockRefused \/ OtherTab
  BY <1>0, <1>4 DEF LockRefused, OtherTab
<1>5. CASE Pause \/ Stop
  BY <1>0, <1>5 DEF Pause, Stop, Interrupt, Outdate, Overtake
<1>15. CASE Probe
  BY <1>0, <1>15 DEF Probe, Interrupt, Outdate, Overtake
<1>6. CASE EndPause \/ EndStop
  BY <1>0, <1>6 DEF EndPause, EndStop, GiveBackLock, Overtake
<1>7. CASE NextSample \/ WaiterTimesOut
  BY <1>0, <1>7 DEF NextSample, WaiterTimesOut
<1>8. CASE SampleArrives
  BY <1>0, <1>8 DEF SampleArrives, Dropped
<1>9. CASE Outcome
  BY <1>0, <1>9 DEF Outcome
<1>10. CASE LateOutcome \/ HoldFires
  BY <1>0, <1>10 DEF LateOutcome, HoldFires, Overtake
<1>11. CASE Unplug \/ Trouble
  BY <1>0, <1>11, RecoverTypes DEF Unplug, Trouble, Outdate
<1>12. CASE UNCHANGED hidVars
  BY <1>0, <1>12 DEF hidVars
<1> QED
  BY <1>1, <1>2, <1>3, <1>4, <1>5, <1>6, <1>7, <1>8, <1>9, <1>10, <1>11, <1>12,
     <1>13, <1>14, <1>15 DEF HidNext

\* States, stages and owners.
LEMMA StageTypeStep ==
    ASSUME HidTypeOK, [HidNext]_hidVars
    PROVE  StageTypes'
<1> USE DEF StageTypes, ownerVars, armVars, sampleVars, callVars
<1>0. StageTypes
  BY DEF HidTypeOK
<1>1. ASSUME NEW m \in {"continuous", "manual"}, Start(m)
      PROVE  StageTypes'
  BY <1>0, <1>1 DEF Start
<1>2. CASE LockTaken \/ LockGranted \/ RetryFires \/ Resume
  BY <1>0, <1>2, ArmingTypes DEF LockTaken, LockGranted, RetryFires, Resume
<1>11. CASE Retry \/ EndProbe \/ Plug
  BY <1>0, <1>11, ArmingTypes DEF Retry, EndProbe, Plug
<1>3. CASE ContinueArming
  BY <1>0, <1>3, RecoverTypes DEF ContinueArming, EndOutdated, AdvanceArming,
       FailArming, States, ArmStages
<1>4. CASE Unplug \/ Trouble
  BY <1>0, <1>4, RecoverTypes DEF Unplug, Trouble, Outdate, States, ArmStages
<1>5. CASE SampleArrives \/ Outcome \/ LateOutcome \/ HoldFires
  BY <1>0, <1>5 DEF SampleArrives, Outcome, LateOutcome, HoldFires, Dropped, Overtake,
       States, ArmStages
<1>6. CASE LockRefused \/ OtherTab
  BY <1>0, <1>6 DEF LockRefused, OtherTab, States, ArmStages
<1>7. CASE Pause \/ Stop \/ Probe
  BY <1>0, <1>7 DEF Pause, Stop, Probe, Interrupt, Outdate, Overtake, States,
       ArmStages
<1>8. CASE EndPause \/ EndStop
  BY <1>0, <1>8 DEF EndPause, EndStop, GiveBackLock, Overtake, States, ArmStages
<1>9. CASE NextSample \/ WaiterTimesOut
  BY <1>0, <1>9 DEF NextSample, WaiterTimesOut, States, ArmStages
<1>10. CASE UNCHANGED hidVars
  BY <1>0, <1>10 DEF hidVars
<1> QED
  BY <1>1, <1>2, <1>3, <1>4, <1>5, <1>6, <1>7, <1>8, <1>9, <1>10, <1>11 DEF
       HidNext

\* What is counted stays a number: calls and deliveries end once.
LEMMA CountTypeStep ==
    ASSUME HidTypeOK, [HidNext]_hidVars
    PROVE  CountTypes'
<1> USE DEF CountTypes, ownerVars, armVars, sampleVars, callVars
<1>0. CountTypes
  BY DEF HidTypeOK
<1>1. ASSUME NEW m \in {"continuous", "manual"}, Start(m)
      PROVE  CountTypes'
  BY <1>0, <1>1 DEF Start
<1>2. CASE LockTaken \/ LockGranted \/ RetryFires \/ Resume \/ Retry \/ EndProbe \/ Plug
  <2>1. fresh' \in Nat /\ stale' \in Nat
    BY <1>2, ArmingTypes
  <2>2. stopping' = stopping /\ trying' \in Nat /\ waiting' \in Nat
    <3>1. CASE LockTaken
      BY <1>0, <3>1 DEF LockTaken
    <3>2. CASE LockGranted
      BY <1>0, <3>2 DEF LockGranted
    <3>3. CASE RetryFires \/ Resume \/ Retry \/ EndProbe \/ Plug
      BY <1>0, <3>3 DEF RetryFires, Resume, Retry, EndProbe, Plug
    <3> QED
      BY <1>2, <3>1, <3>2, <3>3
  <2> QED
    BY <1>0, <2>1, <2>2
<1>3. CASE LockRefused
  BY <1>0, <1>3 DEF LockRefused
<1>4. CASE Pause \/ Stop \/ Probe
  BY <1>0, <1>4 DEF Pause, Stop, Probe, Interrupt, Outdate, Overtake
<1>5. CASE EndStop
  BY <1>0, <1>5 DEF EndStop, GiveBackLock, Overtake
<1>6. CASE SampleArrives \/ Outcome \/ LateOutcome
  BY <1>0, <1>6 DEF SampleArrives, Outcome, LateOutcome, Dropped, Overtake
<1>7. CASE Unplug \/ Trouble
  <2>1. UNCHANGED <<trying, waiting, stopping>> /\ fresh' = 0 /\ stale' = stale + fresh
    BY <1>7 DEF Unplug, Trouble, Outdate
  <2> QED
    BY <1>0, <2>1
<1>8. CASE OtherTab \/ ContinueArming \/ EndPause \/ NextSample \/ WaiterTimesOut \/
        HoldFires
  BY <1>0, <1>8 DEF OtherTab, ContinueArming, EndPause, NextSample,
       WaiterTimesOut, HoldFires, EndOutdated, AdvanceArming, FailArming, Overtake
<1>9. CASE UNCHANGED hidVars
  BY <1>0, <1>9 DEF hidVars
<1> QED
  BY <1>1, <1>2, <1>3, <1>4, <1>5, <1>6, <1>7, <1>8, <1>9 DEF HidNext

\* What may be overtaken.
LEMMA OvertakenTypeStep ==
    ASSUME HidTypeOK, [HidNext]_hidVars
    PROVE  OvertakenType'
<1> USE DEF OvertakenType, ownerVars, armVars, sampleVars, callVars
<1>0. OvertakenType
  BY DEF HidTypeOK
<1>1. ASSUME NEW m \in {"continuous", "manual"}, Start(m)
      PROVE  OvertakenType'
  BY <1>0, <1>1 DEF Start
<1>2. CASE LockTaken \/ LockGranted \/ RetryFires \/ Resume \/ Retry \/ EndProbe \/ Plug
  BY <1>0, <1>2, ArmingTypes
<1>3. CASE Pause \/ EndStop \/ LateOutcome \/ HoldFires
  BY <1>0, <1>3 DEF Pause, EndStop, LateOutcome, HoldFires, Interrupt, Outdate,
       Overtake, GiveBackLock
<1>4. CASE LockRefused \/ OtherTab \/ ContinueArming \/ EndPause \/ Stop \/ Probe \/
        NextSample \/ WaiterTimesOut \/ SampleArrives \/ Outcome \/ Unplug \/ Trouble
  BY <1>0, <1>4 DEF LockRefused, OtherTab, ContinueArming, EndPause,
       Stop, Probe, NextSample, WaiterTimesOut, SampleArrives, Outcome, Unplug,
       Trouble, EndOutdated, AdvanceArming, FailArming, Interrupt, Outdate, Overtake,
       Dropped
<1>5. CASE UNCHANGED hidVars
  BY <1>0, <1>5 DEF hidVars
<1> QED
  BY <1>1, <1>2, <1>3, <1>4, <1>5 DEF HidNext

\* Errors are counted up to the maximum, whoever counts them.
LEMMA ErrorsTypeStep ==
    ASSUME HidTypeOK, [HidNext]_hidVars
    PROVE  ErrorsType'
<1> USE DEF ErrorsType, ownerVars, armVars, sampleVars, callVars
<1>0. ErrorsType
  BY DEF HidTypeOK
<1>1. ASSUME NEW m \in {"continuous", "manual"}, Start(m)
      PROVE  ErrorsType'
  BY <1>1, HidSessionAssumption DEF Start
<1>2. CASE LockTaken \/ LockGranted \/ RetryFires \/ Resume \/ Retry \/ EndProbe \/ Plug
  BY <1>0, <1>2, ArmingTypes
<1>3. CASE ContinueArming
  <2>1. errors' \in {0, errors} \/ Recover(errors, FALSE)
    BY <1>3 DEF ContinueArming, EndOutdated, AdvanceArming, FailArming
  <2>2. 0 \in 0..MaxConsecutiveErrors
    BY HidSessionAssumption
  <2> QED
    BY <1>0, <2>1, <2>2, RecoverTypes
<1>4. CASE Unplug \/ Trouble
  BY <1>0, <1>4, RecoverTypes DEF Unplug, Trouble, Outdate
<1>5. CASE LockRefused \/ OtherTab \/ Pause \/ EndPause \/ Stop \/ EndStop \/ Probe \/
        NextSample \/ WaiterTimesOut \/ SampleArrives \/ Outcome \/ LateOutcome \/
        HoldFires
  BY <1>0, <1>5 DEF LockRefused, OtherTab, Pause, EndPause, Stop, EndStop, Probe,
       NextSample, WaiterTimesOut, SampleArrives, Outcome, LateOutcome, HoldFires,
       Interrupt, Outdate, Overtake, GiveBackLock, Dropped
<1>6. CASE UNCHANGED hidVars
  BY <1>0, <1>6 DEF hidVars
<1> QED
  BY <1>1, <1>2, <1>3, <1>4, <1>5, <1>6 DEF HidNext

LEMMA HidTypeStep ==
    ASSUME HidTypeOK, [HidNext]_hidVars
    PROVE  HidTypeOK'
BY FlagTypeStep, StageTypeStep, CountTypeStep, OvertakenTypeStep, ErrorsTypeStep
   DEF FlagTypes, StageTypes, CountTypes, OvertakenType, ErrorsType, HidTypeOK

\* The lock is taken and given back with release, handlers and armings.
LEMMA LockHeldStep ==
    ASSUME HidInv, [HidNext]_hidVars
    PROVE  LockHeld'
<1> USE DEF HidInv, HidTypeOK, LockHeld
<1>1. ASSUME NEW m \in {"continuous", "manual"}, Start(m)
      PROVE  LockHeld'
  BY <1>1 DEF Start, ownerVars, armVars, sampleVars, callVars
<1>2. CASE LockTaken
  <2>1. active => ArmedOrNot("owner", retry)
    BY <1>2, ArmingActs
  <2> QED
    BY <1>2, <2>1 DEF LockTaken, ArmedOrNot, Overtake, ownerVars, armVars,
         sampleVars, callVars
<1>3. CASE LockRefused
  BY <1>3 DEF LockRefused, ownerVars, armVars, sampleVars, callVars
<1>4. CASE LockGranted
  <2>1. active => ArmedOrNot("owner", retry)
    BY <1>4, ArmingActs
  <2> QED
    BY <1>4, <2>1 DEF LockGranted, ArmedOrNot, ownerVars, armVars, sampleVars,
         callVars
<1>5. CASE OtherTab
  BY <1>5 DEF OtherTab, ownerVars, armVars, sampleVars, callVars
<1>6. CASE ContinueArming
  BY <1>6 DEF ContinueArming, EndOutdated, AdvanceArming, FailArming, Recover,
       ownerVars, armVars, sampleVars, callVars
<1>7. CASE RetryFires
  <2>1. ArmedOrNot(ownership, FALSE)
    BY <1>7, ArmingActs
  <2> QED
    BY <1>7, <2>1 DEF RetryFires, ArmedOrNot, ownerVars, armVars, sampleVars,
         callVars
<1>8. CASE Resume
  <2>1. ArmedOrNot(ownership, retry)
    BY <1>8, ArmingActs
  <2> QED
    BY <1>8, <2>1 DEF Resume, ArmedOrNot, ownerVars, armVars, sampleVars, callVars
<1>9. CASE Retry
  <2>1. ArmedOrNot(ownership, retry)
    BY <1>9, ArmingActs
  <2> QED
    BY <1>9, <2>1 DEF Retry, ArmedOrNot, ownerVars, armVars, sampleVars, callVars
<1>10. CASE Stop
  BY <1>10 DEF Stop, Interrupt, Outdate, Overtake, ownerVars, armVars, sampleVars,
       callVars
<1>11. CASE EndStop
  BY <1>11 DEF EndStop, GiveBackLock, Overtake, ownerVars, armVars, sampleVars,
       callVars
<1>12. CASE EndProbe
  <2>1. active => ArmedOrNot(ownership, retry)
    BY <1>12, ArmingActs
  <2> QED
    BY <1>12, <2>1 DEF EndProbe, ArmedOrNot, ownerVars, armVars, sampleVars,
         callVars
<1>13. CASE Plug
  <2>1. ArmedOrNot(ownership, FALSE)
    BY <1>13, ArmingActs
  <2>2. UNCHANGED <<active, mode, ownerVars, busy, waiter, callVars>>
    BY <1>13 DEF Plug
  <2> QED
    BY <2>1, <2>2 DEF ArmedOrNot, ownerVars, armVars, sampleVars, callVars
<1>14. CASE Pause \/ EndPause \/ Probe \/ NextSample \/ WaiterTimesOut \/ SampleArrives
        \/ Outcome \/ LateOutcome \/ HoldFires \/ Unplug \/ Trouble
  BY <1>14 DEF Pause, EndPause, Probe, NextSample, WaiterTimesOut, SampleArrives,
       Outcome, LateOutcome, HoldFires, Unplug, Trouble, Interrupt, Outdate, Overtake,
       Dropped, Recover, ownerVars, armVars, sampleVars, callVars
<1>15. CASE UNCHANGED hidVars
  BY <1>15 DEF hidVars, ownerVars, armVars, sampleVars, callVars
<1> QED
  BY <1>1, <1>2, <1>3, <1>4, <1>5, <1>6, <1>7, <1>8, <1>9, <1>10, <1>11, <1>12, <1>13,
       <1>14, <1>15 DEF HidNext

\* What goes on after stop() finds nothing attached and nothing current.
LEMMA RestStep ==
    ASSUME HidInv, [HidNext]_hidVars
    PROVE  StoppedRests'
<1> USE DEF HidInv, HidTypeOK, LockHeld, StoppedRests
<1>1. ASSUME NEW m \in {"continuous", "manual"}, Start(m)
      PROVE  StoppedRests'
  BY <1>1 DEF Start, ownerVars, armVars, sampleVars, callVars
<1>2. CASE LockTaken
  <2>1. active => ArmedOrNot("owner", retry)
    BY <1>2, ArmingActs
  <2> QED
    BY <1>2, <2>1 DEF LockTaken, ArmedOrNot, Overtake, ownerVars, armVars,
         sampleVars, callVars
<1>3. CASE LockRefused
  BY <1>3 DEF LockRefused, ownerVars, armVars, sampleVars, callVars
<1>4. CASE LockGranted
  <2>1. active => ArmedOrNot("owner", retry)
    BY <1>4, ArmingActs
  <2> QED
    BY <1>4, <2>1 DEF LockGranted, ArmedOrNot, ownerVars, armVars, sampleVars,
         callVars
<1>5. CASE ContinueArming
  BY <1>5 DEF ContinueArming, EndOutdated, AdvanceArming, FailArming, Recover,
       ownerVars, armVars, sampleVars, callVars
<1>6. CASE RetryFires
  <2>1. ArmedOrNot(ownership, FALSE)
    BY <1>6, ArmingActs
  <2> QED
    BY <1>6, <2>1 DEF RetryFires, ArmedOrNot, ownerVars, armVars, sampleVars,
         callVars
<1>7. CASE Resume
  <2>1. ArmedOrNot(ownership, retry)
    BY <1>7, ArmingActs
  <2> QED
    BY <1>7, <2>1 DEF Resume, ArmedOrNot, ownerVars, armVars, sampleVars, callVars
<1>8. CASE Retry
  <2>1. ArmedOrNot(ownership, retry)
    BY <1>8, ArmingActs
  <2> QED
    BY <1>8, <2>1 DEF Retry, ArmedOrNot, ownerVars, armVars, sampleVars, callVars
<1>9. CASE Stop
  BY <1>9 DEF Stop, Interrupt, Outdate, Overtake, ownerVars, armVars, sampleVars,
       callVars
<1>10. CASE EndStop
  BY <1>10 DEF EndStop, GiveBackLock, Overtake, ownerVars, armVars, sampleVars,
       callVars
<1>11. CASE EndProbe
  <2>1. active => ArmedOrNot(ownership, retry)
    BY <1>11, ArmingActs
  <2> QED
    BY <1>11, <2>1 DEF EndProbe, ArmedOrNot, ownerVars, armVars, sampleVars,
         callVars
<1>12. CASE Plug
  <2>1. ArmedOrNot(ownership, FALSE)
    BY <1>12, ArmingActs
  <2>2. UNCHANGED <<active, mode, ownerVars, busy, waiter, callVars>>
    BY <1>12 DEF Plug
  <2> QED
    BY <2>1, <2>2 DEF ArmedOrNot, ownerVars, armVars, sampleVars, callVars
<1>13. CASE Unplug \/ Trouble
  BY <1>13 DEF Unplug, Trouble, Outdate, Recover, ownerVars, armVars, sampleVars,
       callVars
<1>14. CASE OtherTab \/ Pause \/ EndPause \/ Probe \/ NextSample \/ WaiterTimesOut \/
        SampleArrives \/ Outcome \/ LateOutcome \/ HoldFires
  BY <1>14 DEF OtherTab, Pause, EndPause, Probe, NextSample, WaiterTimesOut,
       SampleArrives, Outcome, LateOutcome, HoldFires, Interrupt, Outdate, Overtake,
       Dropped, ownerVars, armVars, sampleVars, callVars
<1>15. CASE UNCHANGED hidVars
  BY <1>15 DEF hidVars, ownerVars, armVars, sampleVars, callVars
<1> QED
  BY <1>1, <1>2, <1>3, <1>4, <1>5, <1>6, <1>7, <1>8, <1>9, <1>10, <1>11, <1>12, <1>13,
       <1>14, <1>15 DEF HidNext

\* Samples arrive while handlers are attached and busy is not set.
LEMMA SamplesStep ==
    ASSUME HidInv, [HidNext]_hidVars
    PROVE  SamplesUnderLock'
<1> USE DEF HidInv, HidTypeOK, LockHeld, StoppedRests, SamplesUnderLock
<1>1. ASSUME NEW m \in {"continuous", "manual"}, Start(m)
      PROVE  SamplesUnderLock'
  BY <1>1 DEF Start, ownerVars, armVars, sampleVars, callVars
<1>2. CASE LockTaken
  <2>1. active => ArmedOrNot("owner", retry)
    BY <1>2, ArmingActs
  <2> QED
    BY <1>2, <2>1 DEF LockTaken, ArmedOrNot, Overtake, ownerVars, armVars,
         sampleVars, callVars
<1>3. CASE LockRefused
  BY <1>3 DEF LockRefused, ownerVars, armVars, sampleVars, callVars
<1>4. CASE LockGranted
  <2>1. active => ArmedOrNot("owner", retry)
    BY <1>4, ArmingActs
  <2> QED
    BY <1>4, <2>1 DEF LockGranted, ArmedOrNot, ownerVars, armVars, sampleVars,
         callVars
<1>5. CASE RetryFires
  <2>1. ArmedOrNot(ownership, FALSE)
    BY <1>5, ArmingActs
  <2> QED
    BY <1>5, <2>1 DEF RetryFires, ArmedOrNot, ownerVars, armVars, sampleVars,
         callVars
<1>6. CASE Resume
  <2>1. ArmedOrNot(ownership, retry)
    BY <1>6, ArmingActs
  <2> QED
    BY <1>6, <2>1 DEF Resume, ArmedOrNot, ownerVars, armVars, sampleVars, callVars
<1>7. CASE Retry
  <2>1. ArmedOrNot(ownership, retry)
    BY <1>7, ArmingActs
  <2> QED
    BY <1>7, <2>1 DEF Retry, ArmedOrNot, ownerVars, armVars, sampleVars, callVars
<1>8. CASE Stop
  BY <1>8 DEF Stop, Interrupt, Outdate, Overtake, ownerVars, armVars, sampleVars,
       callVars
<1>9. CASE EndStop
  BY <1>9 DEF EndStop, GiveBackLock, Overtake, ownerVars, armVars, sampleVars,
       callVars
<1>10. CASE EndProbe
  <2>1. active => ArmedOrNot(ownership, retry)
    BY <1>10, ArmingActs
  <2> QED
    BY <1>10, <2>1 DEF EndProbe, ArmedOrNot, ownerVars, armVars, sampleVars,
         callVars
<1>11. CASE SampleArrives
  BY <1>11 DEF SampleArrives, Dropped, ownerVars, armVars, sampleVars, callVars
<1>12. CASE Outcome
  BY <1>12 DEF Outcome, ownerVars, armVars, sampleVars, callVars
<1>13. CASE LateOutcome
  BY <1>13 DEF LateOutcome, Overtake, ownerVars, armVars, sampleVars, callVars
<1>14. CASE HoldFires
  BY <1>14 DEF HoldFires, Overtake, ownerVars, armVars, sampleVars, callVars
<1>15. CASE Plug
  <2>1. ArmedOrNot(ownership, FALSE)
    BY <1>15, ArmingActs
  <2>2. UNCHANGED <<active, mode, ownerVars, busy, waiter, callVars>>
    BY <1>15 DEF Plug
  <2> QED
    BY <2>1, <2>2 DEF ArmedOrNot, ownerVars, armVars, sampleVars, callVars
<1>16. CASE Unplug \/ Trouble
  BY <1>16 DEF Unplug, Trouble, Outdate, Recover, ownerVars, armVars, sampleVars,
       callVars
<1>17. CASE OtherTab \/ ContinueArming \/ Pause \/ EndPause \/ Probe \/ NextSample \/
        WaiterTimesOut
  BY <1>17 DEF OtherTab, ContinueArming, Pause, EndPause, Probe, NextSample,
       WaiterTimesOut, EndOutdated, AdvanceArming, FailArming, Recover, Interrupt,
       Outdate, Overtake, ownerVars, armVars, sampleVars, callVars
<1>18. CASE UNCHANGED hidVars
  BY <1>18 DEF hidVars, ownerVars, armVars, sampleVars, callVars
<1> QED
  BY <1>1, <1>2, <1>3, <1>4, <1>5, <1>6, <1>7, <1>8, <1>9, <1>10, <1>11, <1>12, <1>13,
       <1>14, <1>15, <1>16, <1>17, <1>18 DEF HidNext

\* A call that asks for the lock ends it, waits on, or has it.
LEMMA AskStep ==
    ASSUME HidInv, [HidNext]_hidVars
    PROVE  OneAsksForLock'
<1> USE DEF HidInv, HidTypeOK, LockHeld, StoppedRests, OneAsksForLock
<1>1. ASSUME NEW m \in {"continuous", "manual"}, Start(m)
      PROVE  OneAsksForLock'
  BY <1>1 DEF Start, ownerVars, armVars, sampleVars, callVars
<1>2. CASE LockTaken
  <2>1. active => ArmedOrNot("owner", retry)
    BY <1>2, ArmingActs
  <2> QED
    BY <1>2, <2>1 DEF LockTaken, ArmedOrNot, Overtake, ownerVars, armVars,
         sampleVars, callVars
<1>3. CASE LockRefused
  BY <1>3 DEF LockRefused, ownerVars, armVars, sampleVars, callVars
<1>4. CASE LockGranted
  <2>1. active => ArmedOrNot("owner", retry)
    BY <1>4, ArmingActs
  <2> QED
    BY <1>4, <2>1 DEF LockGranted, ArmedOrNot, ownerVars, armVars, sampleVars,
         callVars
<1>5. CASE Stop
  BY <1>5 DEF Stop, Interrupt, Outdate, Overtake, ownerVars, armVars, sampleVars,
       callVars
<1>6. CASE EndStop
  BY <1>6 DEF EndStop, GiveBackLock, Overtake, ownerVars, armVars, sampleVars,
       callVars
<1>7. CASE ContinueArming
  BY <1>7, ArmingActs DEF ContinueArming, EndOutdated, AdvanceArming, FailArming,
       Recover, ArmedOrNot, Overtake, ownerVars, armVars, sampleVars, callVars
<1>9. CASE RetryFires \/ Resume \/ Retry \/ EndProbe \/ Plug
  BY <1>9, ArmingActs DEF RetryFires, Resume, Retry, EndProbe, Plug, ArmedOrNot,
       Overtake, ownerVars, armVars, sampleVars, callVars
<1>10. CASE Pause \/ EndPause \/ Probe \/ Unplug \/ Trouble
  BY <1>10 DEF Pause, EndPause, Probe, Unplug, Trouble, Recover, Interrupt, Outdate,
       Overtake, ownerVars, armVars, sampleVars, callVars
<1>11. CASE OtherTab \/ NextSample \/ WaiterTimesOut \/ SampleArrives \/ Outcome \/
         LateOutcome \/ HoldFires
  BY <1>11 DEF OtherTab, NextSample, WaiterTimesOut, SampleArrives, Outcome,
       LateOutcome, HoldFires, Overtake, Dropped, ownerVars, armVars, sampleVars,
       callVars
<1>8. CASE UNCHANGED hidVars
  BY <1>8 DEF hidVars, ownerVars, armVars, sampleVars, callVars
<1> QED
  BY <1>1, <1>2, <1>3, <1>4, <1>5, <1>6, <1>7, <1>8, <1>9, <1>10,
       <1>11 DEF HidNext

\* Nobody loses the reader but in stop() and where it is refused.
LEMMA ArmedStep ==
    ASSUME HidInv, [HidNext]_hidVars
    PROVE  ArmedOwns'
<1> USE DEF HidInv, HidTypeOK, LockHeld, StoppedRests, OneAsksForLock, ArmedOwns, Undisturbed
<1>1. ASSUME NEW m \in {"continuous", "manual"}, Start(m)
      PROVE  ArmedOwns'
  BY <1>1 DEF Start, ownerVars, armVars, sampleVars, callVars
<1>2. CASE LockTaken
  <2>1. active => ArmedOrNot("owner", retry)
    BY <1>2, ArmingActs
  <2> QED
    BY <1>2, <2>1 DEF LockTaken, ArmedOrNot, Overtake, ownerVars, armVars,
         sampleVars, callVars
<1>3. CASE LockRefused
  BY <1>3 DEF LockRefused, ownerVars, armVars, sampleVars, callVars
<1>4. CASE LockGranted
  <2>1. active => ArmedOrNot("owner", retry)
    BY <1>4, ArmingActs
  <2> QED
    BY <1>4, <2>1 DEF LockGranted, ArmedOrNot, ownerVars, armVars, sampleVars,
         callVars
<1>5. CASE ContinueArming
  BY <1>5 DEF ContinueArming, EndOutdated, AdvanceArming, FailArming, Recover,
       ownerVars, armVars, sampleVars, callVars
<1>6. CASE RetryFires
  <2>1. ArmedOrNot(ownership, FALSE)
    BY <1>6, ArmingActs
  <2> QED
    BY <1>6, <2>1 DEF RetryFires, ArmedOrNot, ownerVars, armVars, sampleVars,
         callVars
<1>7. CASE Pause
  BY <1>7 DEF Pause, Interrupt, Outdate, Overtake, ownerVars, armVars, sampleVars,
       callVars
<1>8. CASE EndPause
  BY <1>8 DEF EndPause, ownerVars, armVars, sampleVars, callVars
<1>9. CASE Resume
  <2>1. ArmedOrNot(ownership, retry)
    BY <1>9, ArmingActs
  <2> QED
    BY <1>9, <2>1 DEF Resume, ArmedOrNot, ownerVars, armVars, sampleVars, callVars
<1>10. CASE Retry
  <2>1. ArmedOrNot(ownership, retry)
    BY <1>10, ArmingActs
  <2> QED
    BY <1>10, <2>1 DEF Retry, ArmedOrNot, ownerVars, armVars, sampleVars, callVars
<1>11. CASE Stop
  BY <1>11 DEF Stop, Interrupt, Outdate, Overtake, ownerVars, armVars, sampleVars,
       callVars
<1>12. CASE EndStop
  BY <1>12 DEF EndStop, GiveBackLock, Overtake, ownerVars, armVars, sampleVars,
       callVars
<1>13. CASE Probe
  BY <1>13 DEF Probe, Interrupt, Outdate, Overtake, ownerVars, armVars, sampleVars,
       callVars
<1>14. CASE EndProbe
  <2>1. active => ArmedOrNot(ownership, retry)
    BY <1>14, ArmingActs
  <2> QED
    BY <1>14, <2>1 DEF EndProbe, ArmedOrNot, ownerVars, armVars, sampleVars,
         callVars
<1>15. CASE SampleArrives
  BY <1>15 DEF SampleArrives, Dropped, ownerVars, armVars, sampleVars, callVars
<1>16. CASE Outcome
  BY <1>16 DEF Outcome, ownerVars, armVars, sampleVars, callVars
<1>17. CASE HoldFires
  BY <1>17 DEF HoldFires, Overtake, ownerVars, armVars, sampleVars, callVars
<1>18. CASE Plug
  <2>1. ArmedOrNot(ownership, FALSE)
    BY <1>18, ArmingActs
  <2>2. UNCHANGED <<active, mode, ownerVars, busy, waiter, callVars>>
    BY <1>18 DEF Plug
  <2> QED
    BY <2>1, <2>2 DEF ArmedOrNot, ownerVars, armVars, sampleVars, callVars
<1>19. CASE Unplug \/ Trouble
  BY <1>19 DEF Unplug, Trouble, Outdate, Recover, ownerVars, armVars, sampleVars,
       callVars
<1>20. CASE OtherTab \/ NextSample \/ WaiterTimesOut \/ LateOutcome
  BY <1>20 DEF OtherTab, NextSample, WaiterTimesOut, LateOutcome, Overtake, ownerVars,
       armVars, sampleVars, callVars
<1>21. CASE UNCHANGED hidVars
  BY <1>21 DEF hidVars, ownerVars, armVars, sampleVars, callVars
<1> QED
  BY <1>1, <1>2, <1>3, <1>4, <1>5, <1>6, <1>7, <1>8, <1>9, <1>10, <1>11, <1>12, <1>13,
       <1>14, <1>15, <1>16, <1>17, <1>18, <1>19, <1>20, <1>21 DEF HidNext

\* Who takes the successor of a transient state away sets another, or is
\* itself one of the interruptions.
LEMMA SuccessorStep ==
    ASSUME HidInv, [HidNext]_hidVars
    PROVE  SuccessorUnderWay'
<1> USE DEF HidInv, HidTypeOK, LockHeld, StoppedRests, ArmedOwns, SuccessorUnderWay,
            Undisturbed, Interrupted
<1>1. ASSUME NEW m \in {"continuous", "manual"}, Start(m)
      PROVE  SuccessorUnderWay'
  BY <1>1 DEF Start, ownerVars, armVars, sampleVars, callVars
<1>2. CASE LockTaken
  <2>1. active => ArmedOrNot("owner", retry)
    BY <1>2, ArmingActs
  <2> QED
    BY <1>2, <2>1 DEF LockTaken, ArmedOrNot, Overtake, ownerVars, armVars,
         sampleVars, callVars
<1>3. CASE LockRefused
  BY <1>3 DEF LockRefused, ownerVars, armVars, sampleVars, callVars
<1>4. CASE LockGranted
  <2>1. active => ArmedOrNot("owner", retry)
    BY <1>4, ArmingActs
  <2> QED
    BY <1>4, <2>1 DEF LockGranted, ArmedOrNot, ownerVars, armVars, sampleVars,
         callVars
<1>5. CASE ContinueArming
  BY <1>5 DEF ContinueArming, EndOutdated, AdvanceArming, FailArming, Recover,
       ownerVars, armVars, sampleVars, callVars
<1>6. CASE RetryFires
  <2>1. ArmedOrNot(ownership, FALSE)
    BY <1>6, ArmingActs
  <2> QED
    BY <1>6, <2>1 DEF RetryFires, ArmedOrNot, ownerVars, armVars, sampleVars,
         callVars
<1>7. CASE Pause
  BY <1>7 DEF Pause, Interrupt, Outdate, Overtake, ownerVars, armVars, sampleVars,
       callVars
<1>8. CASE EndPause
  BY <1>8 DEF EndPause, ownerVars, armVars, sampleVars, callVars
<1>9. CASE Resume
  <2>1. ArmedOrNot(ownership, retry)
    BY <1>9, ArmingActs
  <2> QED
    BY <1>9, <2>1 DEF Resume, ArmedOrNot, ownerVars, armVars, sampleVars, callVars
<1>10. CASE Retry
  <2>1. ArmedOrNot(ownership, retry)
    BY <1>10, ArmingActs
  <2> QED
    BY <1>10, <2>1 DEF Retry, ArmedOrNot, ownerVars, armVars, sampleVars, callVars
<1>11. CASE Stop
  BY <1>11 DEF Stop, Interrupt, Outdate, Overtake, ownerVars, armVars, sampleVars,
       callVars
<1>12. CASE EndStop
  BY <1>12 DEF EndStop, GiveBackLock, Overtake, ownerVars, armVars, sampleVars,
       callVars
<1>13. CASE Probe
  BY <1>13 DEF Probe, Interrupt, Outdate, Overtake, ownerVars, armVars, sampleVars,
       callVars
<1>14. CASE EndProbe
  <2>1. active => ArmedOrNot(ownership, retry)
    BY <1>14, ArmingActs
  <2> QED
    BY <1>14, <2>1 DEF EndProbe, ArmedOrNot, ownerVars, armVars, sampleVars,
         callVars
<1>15. CASE SampleArrives
  BY <1>15 DEF SampleArrives, Dropped, ownerVars, armVars, sampleVars, callVars
<1>16. CASE Outcome
  BY <1>16 DEF Outcome, ownerVars, armVars, sampleVars, callVars
<1>17. CASE LateOutcome
  BY <1>17 DEF LateOutcome, Overtake, ownerVars, armVars, sampleVars, callVars
<1>18. CASE HoldFires
  BY <1>18 DEF HoldFires, Overtake, ownerVars, armVars, sampleVars, callVars
<1>19. CASE Plug
  <2>1. ArmedOrNot(ownership, FALSE)
    BY <1>19, ArmingActs
  <2>2. UNCHANGED <<active, mode, ownerVars, busy, waiter, callVars>>
    BY <1>19 DEF Plug
  <2> QED
    BY <2>1, <2>2 DEF ArmedOrNot, ownerVars, armVars, sampleVars, callVars
<1>20. CASE Unplug \/ Trouble
  BY <1>20 DEF Unplug, Trouble, Outdate, Recover, ownerVars, armVars, sampleVars,
       callVars
<1>21. CASE OtherTab \/ NextSample \/ WaiterTimesOut
  BY <1>21 DEF OtherTab, NextSample, WaiterTimesOut, ownerVars, armVars, sampleVars,
       callVars
<1>22. CASE UNCHANGED hidVars
  BY <1>22 DEF hidVars, ownerVars, armVars, sampleVars, callVars
<1> QED
  BY <1>1, <1>2, <1>3, <1>4, <1>5, <1>6, <1>7, <1>8, <1>9, <1>10, <1>11, <1>12, <1>13,
       <1>14, <1>15, <1>16, <1>17, <1>18, <1>19, <1>20, <1>21, <1>22 DEF HidNext

\* Every way into a state that uses the reader has the lock.
LEMMA CapturingStep ==
    ASSUME HidInv, [HidNext]_hidVars
    PROVE  CapturingHoldsReader'
<1> USE DEF HidInv, HidTypeOK, LockHeld, SamplesUnderLock, CapturingHoldsReader
<1>1. ASSUME NEW m \in {"continuous", "manual"}, Start(m)
      PROVE  CapturingHoldsReader'
  BY <1>1 DEF Start, ownerVars, armVars, sampleVars, callVars
<1>2. CASE LockTaken
  <2>1. active => ArmedOrNot("owner", retry)
    BY <1>2, ArmingActs
  <2> QED
    BY <1>2, <2>1 DEF LockTaken, ArmedOrNot, Overtake, ownerVars, armVars,
         sampleVars, callVars
<1>3. CASE LockRefused
  BY <1>3 DEF LockRefused, ownerVars, armVars, sampleVars, callVars
<1>4. CASE LockGranted
  <2>1. active => ArmedOrNot("owner", retry)
    BY <1>4, ArmingActs
  <2> QED
    BY <1>4, <2>1 DEF LockGranted, ArmedOrNot, ownerVars, armVars, sampleVars,
         callVars
<1>5. CASE ContinueArming
  BY <1>5 DEF ContinueArming, EndOutdated, AdvanceArming, FailArming, Recover,
       ownerVars, armVars, sampleVars, callVars
<1>6. CASE RetryFires
  <2>1. ArmedOrNot(ownership, FALSE)
    BY <1>6, ArmingActs
  <2> QED
    BY <1>6, <2>1 DEF RetryFires, ArmedOrNot, ownerVars, armVars, sampleVars,
         callVars
<1>7. CASE Resume
  <2>1. ArmedOrNot(ownership, retry)
    BY <1>7, ArmingActs
  <2> QED
    BY <1>7, <2>1 DEF Resume, ArmedOrNot, ownerVars, armVars, sampleVars, callVars
<1>8. CASE Retry
  <2>1. ArmedOrNot(ownership, retry)
    BY <1>8, ArmingActs
  <2> QED
    BY <1>8, <2>1 DEF Retry, ArmedOrNot, ownerVars, armVars, sampleVars, callVars
<1>9. CASE EndStop
  BY <1>9 DEF EndStop, GiveBackLock, Overtake, ownerVars, armVars, sampleVars,
       callVars
<1>10. CASE EndProbe
  <2>1. active => ArmedOrNot(ownership, retry)
    BY <1>10, ArmingActs
  <2> QED
    BY <1>10, <2>1 DEF EndProbe, ArmedOrNot, ownerVars, armVars, sampleVars,
         callVars
<1>11. CASE SampleArrives
  BY <1>11 DEF SampleArrives, Dropped, ownerVars, armVars, sampleVars, callVars
<1>12. CASE Outcome
  BY <1>12 DEF Outcome, ownerVars, armVars, sampleVars, callVars
<1>13. CASE HoldFires
  BY <1>13 DEF HoldFires, Overtake, ownerVars, armVars, sampleVars, callVars
<1>14. CASE Plug
  <2>1. ArmedOrNot(ownership, FALSE)
    BY <1>14, ArmingActs
  <2>2. UNCHANGED <<active, mode, ownerVars, busy, waiter, callVars>>
    BY <1>14 DEF Plug
  <2> QED
    BY <2>1, <2>2 DEF ArmedOrNot, ownerVars, armVars, sampleVars, callVars
<1>15. CASE Unplug \/ Trouble
  BY <1>15 DEF Unplug, Trouble, Outdate, Recover, ownerVars, armVars, sampleVars,
       callVars
<1>16. CASE OtherTab \/ Pause \/ EndPause \/ Stop \/ Probe \/ NextSample \/
        WaiterTimesOut \/ LateOutcome
  BY <1>16 DEF OtherTab, Pause, EndPause, Stop, Probe, NextSample, WaiterTimesOut,
       LateOutcome, Interrupt, Outdate, Overtake, ownerVars, armVars, sampleVars,
       callVars
<1>17. CASE UNCHANGED hidVars
  BY <1>17 DEF hidVars, ownerVars, armVars, sampleVars, callVars
<1> QED
  BY <1>1, <1>2, <1>3, <1>4, <1>5, <1>6, <1>7, <1>8, <1>9, <1>10, <1>11, <1>12, <1>13,
       <1>14, <1>15, <1>16, <1>17 DEF HidNext

\* busy is set with a sample and cleared when it is over.
LEMMA BusyStep ==
    ASSUME HidInv, [HidNext]_hidVars
    PROVE  BusyMeansProcessing'
<1> USE DEF HidInv, HidTypeOK, LockHeld, SamplesUnderLock, BusyMeansProcessing
<1>1. ASSUME NEW m \in {"continuous", "manual"}, Start(m)
      PROVE  BusyMeansProcessing'
  BY <1>1 DEF Start, ownerVars, armVars, sampleVars, callVars
<1>2. CASE LockTaken
  <2>1. active => ArmedOrNot("owner", retry)
    BY <1>2, ArmingActs
  <2> QED
    BY <1>2, <2>1 DEF LockTaken, ArmedOrNot, Overtake, ownerVars, armVars,
         sampleVars, callVars
<1>3. CASE LockGranted
  <2>1. active => ArmedOrNot("owner", retry)
    BY <1>3, ArmingActs
  <2> QED
    BY <1>3, <2>1 DEF LockGranted, ArmedOrNot, ownerVars, armVars, sampleVars,
         callVars
<1>4. CASE RetryFires
  <2>1. ArmedOrNot(ownership, FALSE)
    BY <1>4, ArmingActs
  <2> QED
    BY <1>4, <2>1 DEF RetryFires, ArmedOrNot, ownerVars, armVars, sampleVars,
         callVars
<1>5. CASE Pause
  BY <1>5 DEF Pause, Interrupt, Outdate, Overtake, ownerVars, armVars, sampleVars,
       callVars
<1>6. CASE Resume
  <2>1. ArmedOrNot(ownership, retry)
    BY <1>6, ArmingActs
  <2> QED
    BY <1>6, <2>1 DEF Resume, ArmedOrNot, ownerVars, armVars, sampleVars, callVars
<1>7. CASE Retry
  <2>1. ArmedOrNot(ownership, retry)
    BY <1>7, ArmingActs
  <2> QED
    BY <1>7, <2>1 DEF Retry, ArmedOrNot, ownerVars, armVars, sampleVars, callVars
<1>8. CASE Stop
  BY <1>8 DEF Stop, Interrupt, Outdate, Overtake, ownerVars, armVars, sampleVars,
       callVars
<1>9. CASE EndStop
  BY <1>9 DEF EndStop, GiveBackLock, Overtake, ownerVars, armVars, sampleVars,
       callVars
<1>10. CASE Probe
  BY <1>10 DEF Probe, Interrupt, Outdate, Overtake, ownerVars, armVars, sampleVars,
       callVars
<1>11. CASE EndProbe
  <2>1. active => ArmedOrNot(ownership, retry)
    BY <1>11, ArmingActs
  <2> QED
    BY <1>11, <2>1 DEF EndProbe, ArmedOrNot, ownerVars, armVars, sampleVars,
         callVars
<1>12. CASE SampleArrives
  BY <1>12 DEF SampleArrives, Dropped, ownerVars, armVars, sampleVars, callVars
<1>13. CASE Outcome
  BY <1>13 DEF Outcome, ownerVars, armVars, sampleVars, callVars
<1>14. CASE LateOutcome
  BY <1>14 DEF LateOutcome, Overtake, ownerVars, armVars, sampleVars, callVars
<1>15. CASE HoldFires
  BY <1>15 DEF HoldFires, Overtake, ownerVars, armVars, sampleVars, callVars
<1>16. CASE Plug
  <2>1. ArmedOrNot(ownership, FALSE)
    BY <1>16, ArmingActs
  <2>2. UNCHANGED <<active, mode, ownerVars, busy, waiter, callVars>>
    BY <1>16 DEF Plug
  <2> QED
    BY <2>1, <2>2 DEF ArmedOrNot, ownerVars, armVars, sampleVars, callVars
<1>17. CASE Unplug \/ Trouble
  BY <1>17 DEF Unplug, Trouble, Outdate, Recover, ownerVars, armVars, sampleVars,
       callVars
<1>18. CASE LockRefused \/ OtherTab \/ ContinueArming \/ EndPause \/ NextSample \/
        WaiterTimesOut
  BY <1>18 DEF LockRefused, OtherTab, ContinueArming, EndPause, NextSample,
       WaiterTimesOut, EndOutdated, AdvanceArming, FailArming, Recover, ownerVars,
       armVars, sampleVars, callVars
<1>19. CASE UNCHANGED hidVars
  BY <1>19 DEF hidVars, ownerVars, armVars, sampleVars, callVars
<1> QED
  BY <1>1, <1>2, <1>3, <1>4, <1>5, <1>6, <1>7, <1>8, <1>9, <1>10, <1>11, <1>12, <1>13,
       <1>14, <1>15, <1>16, <1>17, <1>18, <1>19 DEF HidNext

-----------------------------------------------------------------------------
(* The session of a tab, whatever the order of its calls and events.       *)

LEMMA HidInitInv == HidInit => HidInv
<1> SUFFICES ASSUME HidInit PROVE HidInv
  OBVIOUS
<1>1. HidTypeOK
  <2>1. FlagTypes /\ CountTypes /\ OvertakenType
    BY DEF HidInit, FlagTypes, CountTypes, OvertakenType
  <2>2. StageTypes
    BY DEF HidInit, StageTypes, States, ArmStages
  <2>3. ErrorsType
    BY HidSessionAssumption DEF HidInit, ErrorsType
  <2> QED
    BY <2>1, <2>2, <2>3
       DEF FlagTypes, StageTypes, CountTypes, OvertakenType, ErrorsType, HidTypeOK
<1>2. /\ LockHeld /\ StoppedRests /\ SamplesUnderLock /\ OneAsksForLock
  BY DEF HidInit, LockHeld, StoppedRests, SamplesUnderLock, OneAsksForLock
<1>3. /\ ArmedOwns /\ SuccessorUnderWay
  BY DEF HidInit, ArmedOwns, SuccessorUnderWay
<1>4. CapturingHoldsReader /\ BusyMeansProcessing
  BY DEF HidInit, CapturingHoldsReader, BusyMeansProcessing
<1> QED
  BY <1>1, <1>2, <1>3, <1>4 DEF HidInv

\* The lock, the arming, the samples and what each state waits for agree in
\* every reachable state of the session.
THEOREM HidInductive == HidSpec => []HidInv
<1>1. HidInv /\ [HidNext]_hidVars => HidInv'
  <2> SUFFICES ASSUME HidInv, [HidNext]_hidVars PROVE HidInv'
    OBVIOUS
  <2>1. HidTypeOK'
    BY HidTypeStep DEF HidInv
  <2> QED
    BY <2>1, LockHeldStep, RestStep, SamplesStep, AskStep, ArmedStep, SuccessorStep,
       CapturingStep, BusyStep DEF HidInv
<1> QED
  BY <1>1, HidInitInv, PTL DEF HidSpec

\* The session, its calls and its timers keep their types, for any limits.
THEOREM HidTypeCorrect == HidSpec => []HidTypeOK
<1>1. HidInv => HidTypeOK
  BY DEF HidInv
<1> QED
  BY <1>1, HidInductive, PTL

\* Two tabs never use the reader at once, and a tab that has stopped leaves it
\* to the others, for any number of calls of start and stop and of samples, but
\* where one of the named late continuations ran over them (start, stop).
THEOREM LockFollowsUseHolds == HidSpec => []LockFollowsUse
<1>1. HidInv => LockFollowsUse
  BY DEF HidInv, HidTypeOK, LockHeld, StoppedRests, LockFollowsUse, CapturingHoldsReader,
         StoppedFreesReader
<1> QED
  BY <1>1, HidInductive, PTL

\* No transient state is left without what will end it, and busy is set while a
\* sample is processed or shown, for any limits (arm, scheduleRecovery, deliver).
THEOREM NothingIsStuckHolds == HidSpec => []NothingIsStuck
<1>1. HidInv => TransientStatesEnd
  BY DEF HidInv, HidTypeOK, LockHeld, SuccessorUnderWay, Undisturbed, Interrupted,
         TransientStatesEnd
<1>2. HidInv => NothingIsStuck
  BY <1>1 DEF HidInv, NothingIsStuck
<1> QED
  BY <1>2, HidInductive, PTL
=============================================================================
