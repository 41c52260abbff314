------------------------------ MODULE Messaging ------------------------------
(***************************************************************************)
(* The outbox and the messaging queue of the worker (dispatchOutboxBatch,  *)
(* processMessageJob, and BullMQ between them).                            *)
(*                                                                         *)
(* A dispatcher reads a batch of pending events and, one by one, adds a    *)
(* job to the queue and marks the event; the timer starts a run every two  *)
(* seconds whether or not the last one has ended, and several workers may  *)
(* run.  A sender takes a job, reads its message, and sends it.  Every     *)
(* await may fail, and a worker may die anywhere.  Backoff is over at any  *)
(* time.                                                                   *)
(***************************************************************************)
EXTENDS Integers, FiniteSets

CONSTANTS
    NumEvents,      \* outbox events, by order of creation
    Message,        \* the message of each event; Nothing: an event without a queue
    Nothing,        \* ... and a sender without a job
    Dispatchers,    \* runs of the dispatcher at a time
    Senders,        \* jobs processed at a time
    BatchSize,      \* BATCH_SIZE
    MaxAttempts,    \* MAX_ATTEMPTS: publications of an event
    MaxTries,       \* attempts of a job
    MaxFaults       \* bound: crashes, stalls and lost writes of an instance

Events == 1..NumEvents
Messages == {Message[e] : e \in Events} \ {Nothing}

ASSUME MessagingAssumption ==
    /\ NumEvents \in Nat /\ BatchSize \in Nat \ {0}
    /\ MaxAttempts \in Nat \ {0} /\ MaxTries \in Nat \ {0} /\ MaxFaults \in Nat
    /\ DOMAIN Message = Events
    \* No two events ask for one message.
    /\ \A e, f \in Events : Message[e] = Message[f] /\ Message[e] # Nothing => e = f
    /\ Senders \cap {"none", "waiting", "completed", "failed"} = {}

VARIABLES
    events,         \* their rows
    messages,       \* status of each message
    jobs,           \* the job of each event; the sender that has it, when active
    tries,          \* failed attempts of each job that is to be tried again
    run,            \* where each dispatcher is
    batch,          \* the rows it has read and not dealt with
    send,           \* where each sender is
    job,            \* the event whose job it has
    faults,
    published,      \* history: events whose job was added
    failures,       \* history: failed publications of each event
    accepted,       \* history: messages the provider took, and took again
    disturbed,      \* history: messages whose sending was cut short
    cancelled,      \* history: messages that were cancelled
    overtaken       \* history: ... while a sender had them in hand

outbox == <<events, run, batch>>
sending == <<messages, send, job>>
history == <<published, failures, accepted, disturbed, cancelled, overtaken>>
messagingVars == <<outbox, sending, jobs, tries, faults, history>>

MessagingInit ==
    /\ events = [e \in Events |-> [status |-> "PENDING", attempts |-> 0]]
    /\ messages = [m \in Messages |-> "QUEUED"]
    /\ jobs = [e \in Events |-> "none"]
    /\ tries = [e \in Events |-> 0]
    /\ run = [d \in Dispatchers |-> "idle"]
    /\ batch = [d \in Dispatchers |-> {}]
    /\ send = [s \in Senders |-> "idle"]
    /\ job = [s \in Senders |-> Nothing]
    /\ faults = 0
    /\ published = {}
    /\ failures = [e \in Events |-> 0]
    /\ accepted = [m \in Messages |-> 0]
    /\ disturbed = {}
    /\ cancelled = {}
    /\ overtaken = {}

Fault == faults < MaxFaults /\ faults' = faults + 1

-----------------------------------------------------------------------------
(* The dispatcher.                                                         *)

\* The first events to be dispatched; rows another reader has locked just now
\* are skipped, and those locks end with the reader's own query.
Pending(skipped) ==
    LET all == {e \in Events \ skipped : events[e].status = "PENDING"}
        first == {e \in all : Cardinality({f \in all : f < e}) < BatchSize}
    IN  {[event |-> e, attempts |-> events[e].attempts] : e \in first}

Poll(d) ==
    /\ run[d] = "idle"
    /\ \E skipped \in SUBSET Events :
          /\ Pending(skipped) # {}
          /\ batch' = [batch EXCEPT ![d] = Pending(skipped)]
    /\ run' = [run EXCEPT ![d] = "next"]
    /\ UNCHANGED <<events, sending, jobs, tries, faults, history>>

\* The oldest row of the batch.
CurrentRow(d) == CHOOSE row \in batch[d] : \A other \in batch[d] : row.event <= other.event
Current(d) == CurrentRow(d).event

\* The dispatcher goes on to its next event, if any.
Advance(d) ==
    /\ batch' = [batch EXCEPT ![d] = @ \ {CurrentRow(d)}]
    /\ run' = [run EXCEPT ![d] = IF batch[d] = {CurrentRow(d)} THEN "idle" ELSE "next"]

MarkDispatched(d) ==
    /\ events' = [events EXCEPT ![Current(d)].status = "DISPATCHED"]
    /\ Advance(d)

\* An event without a queue is only marked.
SkipEvent(d) ==
    /\ run[d] = "next"
    /\ Message[Current(d)] = Nothing
    /\ MarkDispatched(d)
    /\ UNCHANGED <<sending, jobs, tries, faults, history>>

\* queue.add: a job of that id is not added again.
AddJob(e) ==
    /\ jobs' = [jobs EXCEPT ![e] = IF @ = "none" THEN "waiting" ELSE @]
    /\ published' = published \cup {e}

Publish(d) ==
    /\ run[d] = "next"
    /\ Message[Current(d)] # Nothing
    /\ AddJob(Current(d))
    /\ run' = [run EXCEPT ![d] = "added"]
    /\ UNCHANGED <<events, batch, sending, tries, faults, failures, accepted, disturbed,
                   cancelled, overtaken>>

Mark(d) ==
    /\ run[d] = "added"
    /\ MarkDispatched(d)
    /\ UNCHANGED <<sending, jobs, tries, faults, history>>

\* The publication fails, at the queue or at the event's row.
FailPublication(d) ==
    /\ run[d] \in {"next", "added"}
    /\ Message[Current(d)] # Nothing
    /\ run' = [run EXCEPT ![d] = "failed"]
    /\ failures' = [failures EXCEPT ![Current(d)] = IF @ < MaxAttempts THEN @ + 1 ELSE @]
    /\ UNCHANGED <<events, batch, sending, jobs, tries, faults, published, accepted, disturbed,
                   cancelled, overtaken>>

\* Mutant: an event is given up one attempt too soon.
RescheduleShort(d) ==
    /\ run[d] = "failed"
    /\ LET attempts == CurrentRow(d).attempts + 1 IN
       events' = [events EXCEPT ![Current(d)] =
           [status |-> IF attempts + 1 >= MaxAttempts THEN "FAILED" ELSE "PENDING",
            attempts |-> attempts]]
    /\ Advance(d)
    /\ UNCHANGED <<sending, jobs, tries, faults, history>>

\* Mutant: the attempts of an event are not counted.
RescheduleUncounted(d) ==
    /\ run[d] = "failed"
    /\ events' = [events EXCEPT ![Current(d)].status = "PENDING"]
    /\ Advance(d)
    /\ UNCHANGED <<sending, jobs, tries, faults, history>>

\* The catch: by the attempts that were read, whatever the row says now.
Reschedule(d) ==
    /\ run[d] = "failed"
    /\ LET attempts == CurrentRow(d).attempts + 1 IN
       events' = [events EXCEPT ![Current(d)] =
           [status |-> IF attempts >= MaxAttempts THEN "FAILED" ELSE "PENDING",
            attempts |-> attempts]]
    /\ Advance(d)
    /\ UNCHANGED <<sending, jobs, tries, faults, history>>

\* The worker dies, or the write of the catch fails, and the run with it.
AbandonRun(d) ==
    /\ run[d] # "idle"
    /\ Fault
    /\ run' = [run EXCEPT ![d] = "idle"]
    /\ batch' = [batch EXCEPT ![d] = {}]
    /\ UNCHANGED <<events, sending, jobs, tries, history>>

-----------------------------------------------------------------------------
(* The sender.                                                             *)

\* Mutant: only a cancelled message is not sent.
ResolvedCancelled(m) == messages[m] = "CANCELLED"

\* Mutant: only a message that was sent is not sent.
ResolvedSent(m) == messages[m] = "SENT"

Resolved(m) == messages[m] \in {"SENT", "CANCELLED"}

\* The job is taken and its message read.
Take(s, e) ==
    /\ send[s] = "idle"
    /\ jobs[e] = "waiting"
    /\ IF Resolved(Message[e])
       THEN /\ jobs' = [jobs EXCEPT ![e] = "completed"]
            /\ tries' = [tries EXCEPT ![e] = 0]
            /\ UNCHANGED <<send, job>>
       ELSE /\ jobs' = [jobs EXCEPT ![e] = s]
            /\ send' = [send EXCEPT ![s] = "read"]
            /\ job' = [job EXCEPT ![s] = e]
            /\ UNCHANGED tries
    /\ UNCHANGED <<outbox, messages, faults, history>>

InHand(s) == Message[job[s]]

SetSending(s) ==
    /\ send[s] = "read"
    /\ messages' = [messages EXCEPT ![InHand(s)] = "SENDING"]
    /\ send' = [send EXCEPT ![s] = "sending"]
    /\ UNCHANGED <<outbox, job, jobs, tries, faults, history>>

\* The provider takes the message; its answer may be lost.
Accept(s) ==
    /\ send[s] = "sending"
    /\ accepted' = [accepted EXCEPT ![InHand(s)] = IF @ < 2 THEN @ + 1 ELSE @]
    /\ \/ /\ send' = [send EXCEPT ![s] = "SENT"]
          /\ UNCHANGED <<faults, disturbed>>
       \/ /\ Fault
          /\ send' = [send EXCEPT ![s] = "QUEUED"]
          /\ disturbed' = disturbed \cup {InHand(s)}
    /\ UNCHANGED <<outbox, messages, job, jobs, tries, published, failures, cancelled, overtaken>>

\* It does not: for good, or for now.
Decline(s) ==
    /\ send[s] = "sending"
    /\ \E outcome \in {"FAILED", "QUEUED"} : send' = [send EXCEPT ![s] = outcome]
    /\ UNCHANGED <<outbox, messages, job, jobs, tries, faults, history>>

Outcomes == {"SENT", "FAILED", "QUEUED"}

\* The sender is free; the job it still has ends, or is tried again.
Release(s, ok) ==
    LET e == job[s]
        retry == ~ok /\ tries[e] + 1 < MaxTries
    IN
    /\ send' = [send EXCEPT ![s] = "idle"]
    /\ job' = [job EXCEPT ![s] = Nothing]
    /\ IF jobs[e] = s
       THEN /\ jobs' = [jobs EXCEPT ![e] =
                  IF ok THEN "completed" ELSE IF retry THEN "waiting" ELSE "failed"]
            /\ tries' = [tries EXCEPT ![e] = IF retry THEN @ + 1 ELSE 0]
       ELSE UNCHANGED <<jobs, tries>>

\* What came of it is written, over whatever the row says now.
Record(s) ==
    /\ send[s] \in Outcomes
    /\ messages' = [messages EXCEPT ![InHand(s)] = send[s]]
    /\ Release(s, send[s] # "QUEUED")
    /\ UNCHANGED <<outbox, faults, history>>

\* A write fails, and the handler with it.
FailSend(s) ==
    /\ send[s] # "idle"
    /\ Fault
    /\ Release(s, FALSE)
    /\ disturbed' = disturbed \cup {InHand(s)}
    /\ UNCHANGED <<outbox, messages, published, failures, accepted, cancelled, overtaken>>

\* The queue gives up on a sender that dies or is too slow: its job waits again,
\* while the sender, if it lives, goes on.
Stall(s) ==
    /\ send[s] # "idle"
    /\ jobs[job[s]] = s
    /\ Fault
    /\ jobs' = [jobs EXCEPT ![job[s]] = "waiting"]
    /\ disturbed' = disturbed \cup {InHand(s)}
    /\ \/ UNCHANGED <<send, job>>
       \/ send' = [send EXCEPT ![s] = "idle"] /\ job' = [job EXCEPT ![s] = Nothing]
    /\ UNCHANGED <<outbox, messages, tries, published, failures, accepted, cancelled, overtaken>>

\* A job that has ended is removed in time.
Remove(e) ==
    /\ jobs[e] \in {"completed", "failed"}
    /\ jobs' = [jobs EXCEPT ![e] = "none"]
    /\ UNCHANGED <<outbox, sending, tries, faults, history>>

\* The message is cancelled while it has not been sent.
Cancel(m) ==
    /\ messages[m] \in {"QUEUED", "FAILED"}
    /\ messages' = [messages EXCEPT ![m] = "CANCELLED"]
    /\ cancelled' = cancelled \cup {m}
    /\ overtaken' = IF \E s \in Senders : send[s] # "idle" /\ InHand(s) = m
                    THEN overtaken \cup {m} ELSE overtaken
    /\ UNCHANGED <<outbox, send, job, jobs, tries, faults, published, failures, accepted, disturbed>>

-----------------------------------------------------------------------------
Dispatch(d) ==
    Poll(d) \/ SkipEvent(d) \/ Publish(d) \/ Mark(d) \/ FailPublication(d) \/ Reschedule(d)

MessagingNext ==
    \/ \E d \in Dispatchers : Dispatch(d) \/ AbandonRun(d)
    \/ \E s \in Senders :
          \/ \E e \in Events : Take(s, e)
          \/ SetSending(s) \/ Accept(s) \/ Decline(s) \/ Record(s) \/ FailSend(s) \/ Stall(s)
    \/ \E e \in Events : Remove(e)
    \/ \E m \in Messages : Cancel(m)

\* The timer goes on polling, and an awaited call is answered.
Fairness == \A d \in Dispatchers : WF_messagingVars(Dispatch(d))

MessagingSpec == MessagingInit /\ [][MessagingNext]_messagingVars /\ Fairness

-----------------------------------------------------------------------------
(* Properties.                                                             *)

Stages == {"idle", "read", "sending"} \cup Outcomes

MessagingTypeOK ==
    /\ events \in [Events -> [status : {"PENDING", "DISPATCHED", "FAILED"}, attempts : Nat]]
    /\ messages \in [Messages -> {"QUEUED", "SENDING", "SENT", "FAILED", "CANCELLED"}]
    /\ jobs \in [Events -> {"none", "waiting", "completed", "failed"} \cup Senders]
    /\ tries \in [Events -> Nat]
    /\ run \in [Dispatchers -> {"idle", "next", "added", "failed"}]
    /\ batch \in [Dispatchers -> SUBSET [event : Events, attempts : Nat]]
    /\ \A d \in Dispatchers : run[d] # "idle" => batch[d] # {}
    /\ send \in [Senders -> Stages]
    /\ job \in [Senders -> Events \cup {Nothing}]
    /\ faults \in 0..MaxFaults
    /\ published \subseteq Events
    /\ failures \in [Events -> Nat]
    /\ accepted \in [Messages -> 0..2]
    /\ disturbed \subseteq Messages /\ cancelled \subseteq Messages
    /\ overtaken \subseteq Messages

\* No event is lost without a word: one marked DISPATCHED has had its job added,
\* and one marked FAILED has failed as often as the dispatcher promises to try,
\* whatever several dispatchers write over each other's rows.
SettledForAReason ==
    \A e \in Events :
        /\ events[e].status = "DISPATCHED" /\ Message[e] # Nothing => e \in published
        /\ events[e].status = "FAILED" => failures[e] >= MaxAttempts

\* The provider takes a message twice only if sending it was cut short: the event
\* may be dispatched again and its job run again, by another sender at once.
SecondSendNeedsFault == \A m \in Messages : accepted[m] > 1 => m \in disturbed

\* A cancellation that finds no sender with the message in hand is final.  (One
\* that does is overwritten, and the message may be sent again and again.)
IdleCancelIsFinal ==
    [][\A m \in cancelled \ overtaken : accepted'[m] = accepted[m]]_messagingVars

\* Every event ends up dispatched or given up, although a late failure puts one
\* that was dispatched back (MAX_ATTEMPTS bounds how often).
EveryEventSettles == \A e \in Events : <>[](events[e].status # "PENDING")
=============================================================================
