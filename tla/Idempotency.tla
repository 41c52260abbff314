---- MODULE Idempotency ----
(***************************************************************************)
(* One idempotency key and the requests that carry it                      *)
(* (idempotency.interceptor.ts).  Every query of the interceptor is a step *)
(* of its own, the transaction of the handler is one step, and the writes  *)
(* that settle the key are not awaited: they happen after the answer, or   *)
(* never.                                                                  *)
(***************************************************************************)
CONSTANTS
    Requests,   \* the requests sent with the key: double clicks, retries
    Bodies,     \* their bodies, as their hashes tell them apart
    Body,       \* the body of each request
    None

ASSUME BodyAssumption == Body \in [Requests -> Bodies]
ASSUME NoneAssumption == None \notin Requests \cup Bodies

\* What a request is told besides a response.
Answers == {"none", "error", "reused", "busy"}

ASSUME AnswersAssumption == Answers \cap Requests = {}

VARIABLES
    status,     \* of the row of the key, NONE before it exists
    hash,       \* requestHash
    response,   \* the request whose response is stored
    stale,      \* lockedAt is older than STALE_LOCK_MINUTES
    step,       \* where each request stands
    seen,       \* the row as each request read it
    claim,      \* how each request came by the key
    committed,  \* requests whose handler committed its effect
    write,      \* the write that each request has left in flight
    answer      \* what each request was told; a request when it is a replay

row == <<status, hash, response, stale>>
vars == <<row, step, seen, claim, committed, write, answer>>

Row == [status : {"NONE", "IN_PROGRESS", "COMPLETED", "FAILED"},
        hash : Bodies \cup {None},
        response : Requests \cup {None},
        stale : BOOLEAN]

ThisRow == [status |-> status, hash |-> hash, response |-> response, stale |-> stale]

Goto(r, from, to) ==
    /\ step[r] = from
    /\ step' = [step EXCEPT ![r] = to]

Answer(r, what) == answer' = [answer EXCEPT ![r] = what]

----
(* claim *)

\* Mutant: no unique index on the key.
InsertRowAgain(r) ==
    /\ status' = "IN_PROGRESS"
    /\ hash' = Body[r]
    /\ stale' = FALSE
    /\ claim' = [claim EXCEPT ![r] = "insert"]
    /\ UNCHANGED response

\* The unique index decides which of several inserts makes the row.
InsertRow(r) ==
    /\ status = "NONE"
    /\ status' = "IN_PROGRESS"
    /\ hash' = Body[r]
    /\ stale' = FALSE
    /\ claim' = [claim EXCEPT ![r] = "insert"]
    /\ UNCHANGED response

ClaimNew(r) ==
    /\ Goto(r, "idle", "run")
    /\ InsertRow(r)
    /\ UNCHANGED <<seen, committed, write, answer>>

\* Any error of the insert is taken for a row that exists.
InsertFails(r) ==
    /\ Goto(r, "idle", "lookup")
    /\ UNCHANGED <<row, seen, claim, committed, write, answer>>

Lookup(r) ==
    /\ Goto(r, "lookup", "decide")
    /\ seen' = [seen EXCEPT ![r] = ThisRow]
    /\ UNCHANGED <<row, claim, committed, write, answer>>

ClaimAfterAll(r) ==
    /\ seen[r].status = "NONE"
    /\ Goto(r, "decide", "run")
    /\ InsertRow(r)
    /\ UNCHANGED <<seen, committed, write, answer>>

\* The second insert fails: the error goes to the client.
SecondInsertFails(r) ==
    /\ seen[r].status = "NONE"
    /\ Goto(r, "decide", "done")
    /\ Answer(r, "error")
    /\ UNCHANGED <<row, seen, claim, committed, write>>

RefuseOtherBody(r) ==
    /\ seen[r].status # "NONE"
    /\ seen[r].hash # Body[r]
    /\ Goto(r, "decide", "done")
    /\ Answer(r, "reused")
    /\ UNCHANGED <<row, seen, claim, committed, write>>

Replay(r) ==
    /\ seen[r].status = "COMPLETED"
    /\ seen[r].hash = Body[r]
    /\ Goto(r, "decide", "done")
    /\ Answer(r, seen[r].response)
    /\ UNCHANGED <<row, seen, claim, committed, write>>

\* Mutant: the body is not compared.
TakeBackAnyBody(r, how) ==
    /\ Goto(r, "decide", "run")
    /\ claim' = [claim EXCEPT ![r] = how]
    /\ stale' = FALSE
    /\ UNCHANGED <<hash, response, seen, committed, write, answer>>

\* The update names the row by its id: it is not conditional on what was read.
TakeBack(r, how) ==
    /\ seen[r].hash = Body[r]
    /\ Goto(r, "decide", "run")
    /\ claim' = [claim EXCEPT ![r] = how]
    /\ stale' = FALSE
    /\ UNCHANGED <<hash, response, seen, committed, write, answer>>

ClaimFailed(r) ==
    /\ seen[r].status = "FAILED"
    /\ TakeBack(r, "failed")
    /\ status' = "IN_PROGRESS"

ClaimStale(r) ==
    /\ seen[r].status = "IN_PROGRESS"
    /\ seen[r].stale
    /\ TakeBack(r, "stale")
    /\ UNCHANGED status

RefuseBusy(r) ==
    /\ seen[r].status = "IN_PROGRESS"
    /\ seen[r].hash = Body[r]
    /\ ~seen[r].stale
    /\ Goto(r, "decide", "done")
    /\ Answer(r, "busy")
    /\ UNCHANGED <<row, seen, claim, committed, write>>

----
(* The handler, and the writes that settle the key *)

Commit(r) ==
    /\ Goto(r, "run", "respond")
    /\ committed' = committed \cup {r}
    /\ UNCHANGED <<row, seen, claim, write, answer>>

\* The database commits and the connection drops before it says so.
CommitUnacknowledged(r) ==
    /\ Goto(r, "run", "done")
    /\ committed' = committed \cup {r}
    /\ Answer(r, "error")
    /\ write' = [write EXCEPT ![r] = "fail"]
    /\ UNCHANGED <<row, seen, claim>>

Respond(r) ==
    /\ Goto(r, "respond", "done")
    /\ Answer(r, r)
    /\ write' = [write EXCEPT ![r] = "complete"]
    /\ UNCHANGED <<row, seen, claim, committed>>

\* Mutant: an error settles the key like a success.
HandlerFailsCompleting(r) ==
    /\ Goto(r, "run", "done")
    /\ Answer(r, "error")
    /\ write' = [write EXCEPT ![r] = "complete"]
    /\ UNCHANGED <<row, seen, claim, committed>>

HandlerFails(r) ==
    /\ Goto(r, "run", "done")
    /\ Answer(r, "error")
    /\ write' = [write EXCEPT ![r] = "fail"]
    /\ UNCHANGED <<row, seen, claim, committed>>

Complete(r) ==
    /\ write[r] = "complete"
    /\ write' = [write EXCEPT ![r] = "none"]
    /\ status' = "COMPLETED"
    /\ response' = r
    /\ UNCHANGED <<hash, stale, step, seen, claim, committed, answer>>

Fail(r) ==
    /\ write[r] = "fail"
    /\ write' = [write EXCEPT ![r] = "none"]
    /\ status' = "FAILED"
    /\ UNCHANGED <<hash, response, stale, step, seen, claim, committed, answer>>

----
(* What may happen meanwhile *)

\* The process dies, or the write that was not awaited is refused.
Lose(r) ==
    /\ step[r] \notin {"idle", "done"} \/ write[r] # "none"
    /\ step' = [step EXCEPT ![r] = "done"]
    /\ write' = [write EXCEPT ![r] = "none"]
    /\ UNCHANGED <<row, seen, claim, committed, answer>>

MinutesPass ==
    /\ status # "NONE"
    /\ ~stale
    /\ stale' = TRUE
    /\ UNCHANGED <<status, hash, response, step, seen, claim, committed, write, answer>>

Init ==
    /\ status = "NONE"
    /\ hash = None
    /\ response = None
    /\ stale = FALSE
    /\ step = [r \in Requests |-> "idle"]
    /\ seen = [r \in Requests |-> ThisRow]
    /\ claim = [r \in Requests |-> "none"]
    /\ committed = {}
    /\ write = [r \in Requests |-> "none"]
    /\ answer = [r \in Requests |-> "none"]

Serve(r) ==
    \/ ClaimNew(r) \/ InsertFails(r) \/ Lookup(r) \/ ClaimAfterAll(r) \/ SecondInsertFails(r)
    \/ RefuseOtherBody(r) \/ Replay(r) \/ ClaimFailed(r) \/ ClaimStale(r) \/ RefuseBusy(r)
    \/ Commit(r) \/ CommitUnacknowledged(r) \/ Respond(r) \/ HandlerFails(r)
    \/ Complete(r) \/ Fail(r)

Next == (\E r \in Requests : Serve(r) \/ Lose(r)) \/ MinutesPass

Spec == Init /\ [][Next]_vars

----
(* Properties *)

\* Types; a row has a body, and who runs has claimed the key.
TypeOK ==
    /\ ThisRow \in Row
    /\ step \in [Requests -> {"idle", "lookup", "decide", "run", "respond", "done"}]
    /\ seen \in [Requests -> Row]
    /\ claim \in [Requests -> {"none", "insert", "failed", "stale"}]
    /\ committed \subseteq Requests
    /\ write \in [Requests -> {"none", "complete", "fail"}]
    /\ answer \in [Requests -> Answers \cup Requests]
    /\ (status = "NONE") <=> (hash = None)
    /\ \A r \in Requests : step[r] \in {"run", "respond"} => claim[r] # "none"

\* What a client is told was done, by its own request or by the one it is
\* answered for, was committed, once, for the very same body; and all requests
\* that ever run under one key carry the same body.
ReplayIsFaithful ==
    /\ \A r \in Requests : answer[r] \in Requests =>
          /\ answer[r] \in committed
          /\ Body[answer[r]] = Body[r]
    /\ \A r \in Requests : claim[r] # "none" => Body[r] = hash

\* An operation that failed for its client and was committed nevertheless.
Unacknowledged(r) == r \in committed /\ answer[r] = "error"

\* A second effect takes a race: a lock that was taken over as stale, two
\* requests that both found the key failed, or a commit nobody heard of.
\* Double clicks, lost answers and retries after an error do not suffice.
SecondEffectNeedsRace ==
    (\E r, q \in committed : r # q) =>
        \/ \E r \in Requests : claim[r] = "stale" \/ Unacknowledged(r)
        \/ \E r, q \in Requests : r # q /\ claim[r] = "failed" /\ claim[q] = "failed"
====
