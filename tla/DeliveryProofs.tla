---------------------------- MODULE DeliveryProofs ----------------------------
(***************************************************************************)
(* Proofs about what is delivered once, and again only for a reason: the   *)
(* requests of one idempotency key (Idempotency, for any number of them    *)
(* and any bodies), and the messages of the outbox (Messaging, for any     *)
(* events, dispatchers, senders and limits).                               *)
(***************************************************************************)
EXTENDS Idempotency, Messaging, WellFoundedInduction, TLAPS

----
(* The inductive invariant *)

\* A row, once it exists, keeps its hash: whoever ran had that body, and
\* whoever read the row read that hash.
BodyFixed ==
    /\ \A r \in Requests : claim[r] # "none" => status # "NONE" /\ Body[r] = hash
    /\ \A r \in Requests : seen[r].status # "NONE" => status # "NONE" /\ seen[r].hash = hash

\* A response that is stored, read, about to be stored or given stands for an
\* effect.
ResponsesAreEffects ==
    /\ response # None => response \in committed
    /\ status = "COMPLETED" => response # None
    /\ \A r \in Requests : seen[r].status = "COMPLETED" => seen[r].response \in committed
    /\ \A r \in Requests : write[r] = "complete" => r \in committed
    /\ \A r \in Requests : step[r] = "respond" => r \in committed
    /\ \A r \in Requests : answer[r] \in Requests =>
           answer[r] \in committed /\ Body[answer[r]] = Body[r]

\* Ran, failed for its client and is over.
Failed(r) ==
    /\ claim[r] # "none"
    /\ step[r] = "done"
    /\ r \notin committed \/ Unacknowledged(r)

\* One request makes the row; a key that is, was read or was taken as failed
\* was failed by a request that is over.
FailuresHaveAuthors ==
    /\ \A r, q \in Requests : claim[r] = "insert" /\ claim[q] = "insert" => r = q
    /\ \A r \in committed : claim[r] # "none" /\ step[r] \in {"respond", "done"}
    /\ \A r \in Requests : write[r] = "fail" => Failed(r)
    /\ status = "FAILED" => \E x \in Requests : Failed(x)
    /\ \A r \in Requests : seen[r].status = "FAILED" => \E x \in Requests : Failed(x)
    /\ \A r \in Requests : claim[r] = "failed" => \E x \in Requests : x # r /\ Failed(x)

IInv == TypeOK /\ BodyFixed /\ ResponsesAreEffects /\ FailuresHaveAuthors

----
(* Its steps *)

\* Types are kept; only a request that claimed the key settles it.
LEMMA TypeStep ==
    ASSUME IInv, [Next]_vars
    PROVE  TypeOK'
<1>1. ASSUME NEW r \in Requests, ClaimNew(r) PROVE TypeOK'
  <2>1. Body[r] \in Bodies /\ Body[r] # None
    BY <1>1, BodyAssumption, NoneAssumption
  <2>2. ThisRow' \in Row /\ hash' # None /\ status' # "NONE"
    BY <1>1, <2>1 DEF ClaimNew, InsertRow, IInv, TypeOK, Row, ThisRow
  <2> QED
    BY <1>1, <2>2 DEF ClaimNew, InsertRow, Goto, IInv, TypeOK
<1>2. ASSUME NEW r \in Requests, InsertFails(r) PROVE TypeOK'
  BY <1>2, BodyAssumption, NoneAssumption DEF InsertFails, Goto, row, IInv, TypeOK, Row, ThisRow
<1>3. ASSUME NEW r \in Requests, Lookup(r) PROVE TypeOK'
  BY <1>3, BodyAssumption, NoneAssumption DEF Lookup, Goto, ThisRow, row, IInv, TypeOK, Row
<1>4. ASSUME NEW r \in Requests, ClaimAfterAll(r) PROVE TypeOK'
  <2>1. Body[r] \in Bodies /\ Body[r] # None
    BY <1>4, BodyAssumption, NoneAssumption
  <2>2. ThisRow' \in Row /\ hash' # None /\ status' # "NONE"
    BY <1>4, <2>1 DEF ClaimAfterAll, InsertRow, IInv, TypeOK, Row, ThisRow
  <2> QED
    BY <1>4, <2>2 DEF ClaimAfterAll, InsertRow, Goto, IInv, TypeOK
<1>5. ASSUME NEW r \in Requests, SecondInsertFails(r) PROVE TypeOK'
  BY <1>5, BodyAssumption, NoneAssumption DEF SecondInsertFails, Goto, Answer, row, IInv, TypeOK, Row, ThisRow, Answers
<1>6. ASSUME NEW r \in Requests, RefuseOtherBody(r) PROVE TypeOK'
  BY <1>6, BodyAssumption, NoneAssumption DEF RefuseOtherBody, Goto, Answer, row, IInv, TypeOK, Row, ThisRow, Answers
<1>7. ASSUME NEW r \in Requests, Replay(r) PROVE TypeOK'
  <2>1. seen[r].response \in Requests
    BY <1>7 DEF Replay, IInv, TypeOK, ResponsesAreEffects
  <2> QED
    BY <1>7, <2>1 DEF Replay, Goto, Answer, row, IInv, TypeOK, ThisRow
<1>8. ASSUME NEW r \in Requests, ClaimFailed(r) PROVE TypeOK'
  <2>1. status # "NONE"
    BY <1>8 DEF ClaimFailed, IInv, BodyFixed
  <2>2. ThisRow' \in Row /\ status' # "NONE" /\ hash' = hash
    BY <1>8, <2>1 DEF ClaimFailed, TakeBack, IInv, TypeOK, Row, ThisRow
  <2> QED
    BY <1>8, <2>1, <2>2 DEF ClaimFailed, TakeBack, Goto, IInv, TypeOK
<1>9. ASSUME NEW r \in Requests, ClaimStale(r) PROVE TypeOK'
  <2>1. status # "NONE"
    BY <1>9 DEF ClaimStale, IInv, BodyFixed
  <2>2. ThisRow' \in Row /\ status' # "NONE" /\ hash' = hash
    BY <1>9, <2>1 DEF ClaimStale, TakeBack, IInv, TypeOK, Row, ThisRow
  <2> QED
    BY <1>9, <2>1, <2>2 DEF ClaimStale, TakeBack, Goto, IInv, TypeOK
<1>10. ASSUME NEW r \in Requests, RefuseBusy(r) PROVE TypeOK'
  BY <1>10, BodyAssumption, NoneAssumption DEF RefuseBusy, Goto, Answer, row, IInv, TypeOK, Row, ThisRow, Answers
<1>11. ASSUME NEW r \in Requests, Commit(r) PROVE TypeOK'
  BY <1>11, BodyAssumption, NoneAssumption DEF Commit, Goto, row, IInv, TypeOK, Row, ThisRow
<1>12. ASSUME NEW r \in Requests, CommitUnacknowledged(r) PROVE TypeOK'
  BY <1>12, BodyAssumption, NoneAssumption DEF CommitUnacknowledged, Goto, Answer, row, IInv, TypeOK, Row, ThisRow, Answers
<1>13. ASSUME NEW r \in Requests, Respond(r) PROVE TypeOK'
  BY <1>13, BodyAssumption, NoneAssumption DEF Respond, Goto, Answer, row, IInv, TypeOK, Row, ThisRow, Answers
<1>14. ASSUME NEW r \in Requests, HandlerFails(r) PROVE TypeOK'
  BY <1>14, BodyAssumption, NoneAssumption DEF HandlerFails, Goto, Answer, row, IInv, TypeOK, Row, ThisRow, Answers
<1>15. ASSUME NEW r \in Requests, Complete(r) PROVE TypeOK'
  BY <1>15, BodyAssumption, NoneAssumption DEF Complete, IInv, TypeOK, Row, ThisRow, BodyFixed, ResponsesAreEffects, FailuresHaveAuthors, Failed, Answers
<1>16. ASSUME NEW r \in Requests, Fail(r) PROVE TypeOK'
  BY <1>16, BodyAssumption, NoneAssumption DEF Fail, IInv, TypeOK, Row, ThisRow, BodyFixed, ResponsesAreEffects, FailuresHaveAuthors, Failed, Answers
<1>17. ASSUME NEW r \in Requests, Lose(r) PROVE TypeOK'
  BY <1>17, BodyAssumption, NoneAssumption DEF Lose, row, IInv, TypeOK, Row, ThisRow
<1>18. CASE MinutesPass
  BY <1>18, BodyAssumption, NoneAssumption DEF MinutesPass, IInv, TypeOK, Row, ThisRow
<1>19. CASE UNCHANGED vars
  BY <1>19, BodyAssumption, NoneAssumption DEF vars, row, IInv, TypeOK, Row, ThisRow
<1> QED
  BY <1>1, <1>2, <1>3, <1>4, <1>5, <1>6, <1>7, <1>8, <1>9, <1>10, <1>11, <1>12, <1>13, <1>14, <1>15, <1>16, <1>17, <1>18, <1>19 DEF Next, Serve

\* The hash of a row never changes.
LEMMA BodyStep ==
    ASSUME TypeOK, BodyFixed, ResponsesAreEffects, FailuresHaveAuthors, [Next]_vars
    PROVE  BodyFixed'
<1>1. ASSUME NEW r \in Requests, ClaimNew(r) PROVE BodyFixed'
  BY <1>1, BodyAssumption, NoneAssumption DEF ClaimNew, InsertRow, Goto, TypeOK, Row, ThisRow, BodyFixed, ResponsesAreEffects, FailuresHaveAuthors, Failed
<1>2. ASSUME NEW r \in Requests, InsertFails(r) PROVE BodyFixed'
  BY <1>2, BodyAssumption, NoneAssumption DEF InsertFails, Goto, row, TypeOK, Row, ThisRow, BodyFixed, ResponsesAreEffects, FailuresHaveAuthors, Failed
<1>3. ASSUME NEW r \in Requests, Lookup(r) PROVE BodyFixed'
  BY <1>3, BodyAssumption, NoneAssumption DEF Lookup, Goto, ThisRow, row, TypeOK, Row, BodyFixed, ResponsesAreEffects, FailuresHaveAuthors, Failed
<1>4. ASSUME NEW r \in Requests, ClaimAfterAll(r) PROVE BodyFixed'
  BY <1>4, BodyAssumption, NoneAssumption DEF ClaimAfterAll, InsertRow, Goto, TypeOK, Row, ThisRow, BodyFixed, ResponsesAreEffects, FailuresHaveAuthors, Failed
<1>5. ASSUME NEW r \in Requests, SecondInsertFails(r) PROVE BodyFixed'
  BY <1>5, BodyAssumption, NoneAssumption DEF SecondInsertFails, Goto, Answer, row, TypeOK, Row, ThisRow, BodyFixed, ResponsesAreEffects, FailuresHaveAuthors, Failed
<1>6. ASSUME NEW r \in Requests, RefuseOtherBody(r) PROVE BodyFixed'
  BY <1>6, BodyAssumption, NoneAssumption DEF RefuseOtherBody, Goto, Answer, row, TypeOK, Row, ThisRow, BodyFixed, ResponsesAreEffects, FailuresHaveAuthors, Failed
<1>7. ASSUME NEW r \in Requests, Replay(r) PROVE BodyFixed'
  BY <1>7, BodyAssumption, NoneAssumption DEF Replay, Goto, Answer, row, TypeOK, Row, ThisRow, BodyFixed, ResponsesAreEffects, FailuresHaveAuthors, Failed
<1>8. ASSUME NEW r \in Requests, ClaimFailed(r) PROVE BodyFixed'
  BY <1>8, BodyAssumption, NoneAssumption DEF ClaimFailed, TakeBack, Goto, TypeOK, Row, ThisRow, BodyFixed, ResponsesAreEffects, FailuresHaveAuthors, Failed
<1>9. ASSUME NEW r \in Requests, ClaimStale(r) PROVE BodyFixed'
  BY <1>9, BodyAssumption, NoneAssumption DEF ClaimStale, TakeBack, Goto, TypeOK, Row, ThisRow, BodyFixed, ResponsesAreEffects, FailuresHaveAuthors, Failed
<1>10. ASSUME NEW r \in Requests, RefuseBusy(r) PROVE BodyFixed'
  BY <1>10, BodyAssumption, NoneAssumption DEF RefuseBusy, Goto, Answer, row, TypeOK, Row, ThisRow, BodyFixed, ResponsesAreEffects, FailuresHaveAuthors, Failed
<1>11. ASSUME NEW r \in Requests, Commit(r) PROVE BodyFixed'
  BY <1>11, BodyAssumption, NoneAssumption DEF Commit, Goto, row, TypeOK, Row, ThisRow, BodyFixed, ResponsesAreEffects, FailuresHaveAuthors, Failed
<1>12. ASSUME NEW r \in Requests, CommitUnacknowledged(r) PROVE BodyFixed'
  BY <1>12, BodyAssumption, NoneAssumption DEF CommitUnacknowledged, Goto, Answer, row, TypeOK, Row, ThisRow, BodyFixed, ResponsesAreEffects, FailuresHaveAuthors, Failed
<1>13. ASSUME NEW r \in Requests, Respond(r) PROVE BodyFixed'
  BY <1>13, BodyAssumption, NoneAssumption DEF Respond, Goto, Answer, row, TypeOK, Row, ThisRow, BodyFixed, ResponsesAreEffects, FailuresHaveAuthors, Failed
<1>14. ASSUME NEW r \in Requests, HandlerFails(r) PROVE BodyFixed'
  BY <1>14, BodyAssumption, NoneAssumption DEF HandlerFails, Goto, Answer, row, TypeOK, Row, ThisRow, BodyFixed, ResponsesAreEffects, FailuresHaveAuthors, Failed
<1>15. ASSUME NEW r \in Requests, Complete(r) PROVE BodyFixed'
  BY <1>15, BodyAssumption, NoneAssumption DEF Complete, TypeOK, Row, ThisRow, BodyFixed, ResponsesAreEffects, FailuresHaveAuthors, Failed
<1>16. ASSUME NEW r \in Requests, Fail(r) PROVE BodyFixed'
  BY <1>16, BodyAssumption, NoneAssumption DEF Fail, TypeOK, Row, ThisRow, BodyFixed, ResponsesAreEffects, FailuresHaveAuthors, Failed
<1>17. ASSUME NEW r \in Requests, Lose(r) PROVE BodyFixed'
  BY <1>17, BodyAssumption, NoneAssumption DEF Lose, row, TypeOK, Row, ThisRow, BodyFixed, ResponsesAreEffects, FailuresHaveAuthors, Failed
<1>18. CASE MinutesPass
  BY <1>18, BodyAssumption, NoneAssumption DEF MinutesPass, TypeOK, Row, ThisRow, BodyFixed, ResponsesAreEffects, FailuresHaveAuthors, Failed
<1>19. CASE UNCHANGED vars
  BY <1>19, BodyAssumption, NoneAssumption DEF vars, row, TypeOK, Row, ThisRow, BodyFixed, ResponsesAreEffects, FailuresHaveAuthors, Failed
<1> QED
  BY <1>1, <1>2, <1>3, <1>4, <1>5, <1>6, <1>7, <1>8, <1>9, <1>10, <1>11, <1>12, <1>13, <1>14, <1>15, <1>16, <1>17, <1>18, <1>19 DEF Next, Serve

\* Responses stand for effects.
LEMMA ResponseStep ==
    ASSUME TypeOK, BodyFixed, ResponsesAreEffects, FailuresHaveAuthors, [Next]_vars
    PROVE  ResponsesAreEffects'
<1>1. ASSUME NEW r \in Requests, ClaimNew(r) PROVE ResponsesAreEffects'
  BY <1>1, BodyAssumption, NoneAssumption, AnswersAssumption DEF ClaimNew, InsertRow, Goto, TypeOK, Row, ThisRow, BodyFixed, ResponsesAreEffects, FailuresHaveAuthors, Answers
<1>2. ASSUME NEW r \in Requests, InsertFails(r) PROVE ResponsesAreEffects'
  BY <1>2, BodyAssumption, NoneAssumption, AnswersAssumption DEF InsertFails, Goto, row, TypeOK, Row, ThisRow, BodyFixed, ResponsesAreEffects, FailuresHaveAuthors, Answers
<1>3. ASSUME NEW r \in Requests, Lookup(r) PROVE ResponsesAreEffects'
  BY <1>3, BodyAssumption, NoneAssumption, AnswersAssumption DEF Lookup, Goto, ThisRow, row, TypeOK, Row, BodyFixed, ResponsesAreEffects, FailuresHaveAuthors, Answers
<1>4. ASSUME NEW r \in Requests, ClaimAfterAll(r) PROVE ResponsesAreEffects'
  BY <1>4, BodyAssumption, NoneAssumption, AnswersAssumption DEF ClaimAfterAll, InsertRow, Goto, TypeOK, Row, ThisRow, BodyFixed, ResponsesAreEffects, FailuresHaveAuthors, Answers
<1>5. ASSUME NEW r \in Requests, SecondInsertFails(r) PROVE ResponsesAreEffects'
  BY <1>5, BodyAssumption, NoneAssumption, AnswersAssumption DEF SecondInsertFails, Goto, Answer, row, TypeOK, Row, ThisRow, BodyFixed, ResponsesAreEffects, FailuresHaveAuthors, Answers
<1>6. ASSUME NEW r \in Requests, RefuseOtherBody(r) PROVE ResponsesAreEffects'
  BY <1>6, BodyAssumption, NoneAssumption, AnswersAssumption DEF RefuseOtherBody, Goto, Answer, row, TypeOK, Row, ThisRow, BodyFixed, ResponsesAreEffects, FailuresHaveAuthors, Answers
<1>7. ASSUME NEW r \in Requests, Replay(r) PROVE ResponsesAreEffects'
  BY <1>7, BodyAssumption, NoneAssumption, AnswersAssumption DEF Replay, Goto, Answer, row, TypeOK, Row, ThisRow, BodyFixed, ResponsesAreEffects, FailuresHaveAuthors, Answers
<1>8. ASSUME NEW r \in Requests, ClaimFailed(r) PROVE ResponsesAreEffects'
  BY <1>8, BodyAssumption, NoneAssumption, AnswersAssumption DEF ClaimFailed, TakeBack, Goto, TypeOK, Row, ThisRow, BodyFixed, ResponsesAreEffects, FailuresHaveAuthors, Answers
<1>9. ASSUME NEW r \in Requests, ClaimStale(r) PROVE ResponsesAreEffects'
  BY <1>9, BodyAssumption, NoneAssumption, AnswersAssumption DEF ClaimStale, TakeBack, Goto, TypeOK, Row, ThisRow, BodyFixed, ResponsesAreEffects, FailuresHaveAuthors, Answers
<1>10. ASSUME NEW r \in Requests, RefuseBusy(r) PROVE ResponsesAreEffects'
  BY <1>10, BodyAssumption, NoneAssumption, AnswersAssumption DEF RefuseBusy, Goto, Answer, row, TypeOK, Row, ThisRow, BodyFixed, ResponsesAreEffects, FailuresHaveAuthors, Answers
<1>11. ASSUME NEW r \in Requests, Commit(r) PROVE ResponsesAreEffects'
  BY <1>11, BodyAssumption, NoneAssumption, AnswersAssumption DEF Commit, Goto, row, TypeOK, Row, ThisRow, BodyFixed, ResponsesAreEffects, FailuresHaveAuthors, Answers
<1>12. ASSUME NEW r \in Requests, CommitUnacknowledged(r) PROVE ResponsesAreEffects'
  BY <1>12, BodyAssumption, NoneAssumption, AnswersAssumption DEF CommitUnacknowledged, Goto, Answer, row, TypeOK, Row, ThisRow, BodyFixed, ResponsesAreEffects, FailuresHaveAuthors, Answers
<1>13. ASSUME NEW r \in Requests, Respond(r) PROVE ResponsesAreEffects'
  BY <1>13, BodyAssumption, NoneAssumption, AnswersAssumption DEF Respond, Goto, Answer, row, TypeOK, Row, ThisRow, BodyFixed, ResponsesAreEffects, FailuresHaveAuthors, Answers
<1>14. ASSUME NEW r \in Requests, HandlerFails(r) PROVE ResponsesAreEffects'
  BY <1>14, BodyAssumption, NoneAssumption, AnswersAssumption DEF HandlerFails, Goto, Answer, row, TypeOK, Row, ThisRow, BodyFixed, ResponsesAreEffects, FailuresHaveAuthors, Answers
<1>15. ASSUME NEW r \in Requests, Complete(r) PROVE ResponsesAreEffects'
  BY <1>15, BodyAssumption, NoneAssumption, AnswersAssumption DEF Complete, TypeOK, Row, ThisRow, BodyFixed, ResponsesAreEffects, FailuresHaveAuthors, Answers
<1>16. ASSUME NEW r \in Requests, Fail(r) PROVE ResponsesAreEffects'
  BY <1>16, BodyAssumption, NoneAssumption, AnswersAssumption DEF Fail, TypeOK, Row, ThisRow, BodyFixed, ResponsesAreEffects, FailuresHaveAuthors, Answers
<1>17. ASSUME NEW r \in Requests, Lose(r) PROVE ResponsesAreEffects'
  BY <1>17, BodyAssumption, NoneAssumption, AnswersAssumption DEF Lose, row, TypeOK, Row, ThisRow, BodyFixed, ResponsesAreEffects, FailuresHaveAuthors, Answers
<1>18. CASE MinutesPass
  BY <1>18, BodyAssumption, NoneAssumption, AnswersAssumption DEF MinutesPass, TypeOK, Row, ThisRow, BodyFixed, ResponsesAreEffects, FailuresHaveAuthors, Answers
<1>19. CASE UNCHANGED vars
  BY <1>19, BodyAssumption, NoneAssumption, AnswersAssumption DEF vars, row, TypeOK, Row, ThisRow, BodyFixed, ResponsesAreEffects, FailuresHaveAuthors, Answers
<1> QED
  BY <1>1, <1>2, <1>3, <1>4, <1>5, <1>6, <1>7, <1>8, <1>9, <1>10, <1>11, <1>12, <1>13, <1>14, <1>15, <1>16, <1>17, <1>18, <1>19 DEF Next, Serve

\* Failures have authors.
LEMMA FailureStep ==
    ASSUME TypeOK, BodyFixed, ResponsesAreEffects, FailuresHaveAuthors, [Next]_vars
    PROVE  FailuresHaveAuthors'
<1>1. ASSUME NEW r \in Requests, ClaimNew(r) PROVE FailuresHaveAuthors'
  BY <1>1 DEF ClaimNew, InsertRow, Goto, TypeOK, Row, ThisRow, BodyFixed, FailuresHaveAuthors, Failed, Unacknowledged
<1>2. ASSUME NEW r \in Requests, InsertFails(r) PROVE FailuresHaveAuthors'
  BY <1>2 DEF InsertFails, Goto, row, TypeOK, Row, ThisRow, BodyFixed, FailuresHaveAuthors, Failed, Unacknowledged
<1>3. ASSUME NEW r \in Requests, Lookup(r) PROVE FailuresHaveAuthors'
  BY <1>3 DEF Lookup, Goto, ThisRow, row, TypeOK, Row, BodyFixed, FailuresHaveAuthors, Failed, Unacknowledged
<1>4. ASSUME NEW r \in Requests, ClaimAfterAll(r) PROVE FailuresHaveAuthors'
  BY <1>4 DEF ClaimAfterAll, InsertRow, Goto, TypeOK, Row, ThisRow, BodyFixed, FailuresHaveAuthors, Failed, Unacknowledged
<1>5. ASSUME NEW r \in Requests, SecondInsertFails(r) PROVE FailuresHaveAuthors'
  BY <1>5 DEF SecondInsertFails, Goto, Answer, row, TypeOK, Row, ThisRow, BodyFixed, FailuresHaveAuthors, Failed, Unacknowledged
<1>6. ASSUME NEW r \in Requests, RefuseOtherBody(r) PROVE FailuresHaveAuthors'
  BY <1>6 DEF RefuseOtherBody, Goto, Answer, row, TypeOK, Row, ThisRow, BodyFixed, FailuresHaveAuthors, Failed, Unacknowledged
<1>7. ASSUME NEW r \in Requests, Replay(r) PROVE FailuresHaveAuthors'
  BY <1>7 DEF Replay, Goto, Answer, row, TypeOK, Row, ThisRow, BodyFixed, FailuresHaveAuthors, Failed, Unacknowledged
<1>8. ASSUME NEW r \in Requests, ClaimFailed(r) PROVE FailuresHaveAuthors'
  BY <1>8 DEF ClaimFailed, TakeBack, Goto, TypeOK, Row, ThisRow, BodyFixed, FailuresHaveAuthors, Failed, Unacknowledged
<1>9. ASSUME NEW r \in Requests, ClaimStale(r) PROVE FailuresHaveAuthors'
  BY <1>9 DEF ClaimStale, TakeBack, Goto, TypeOK, Row, ThisRow, BodyFixed, FailuresHaveAuthors, Failed, Unacknowledged
<1>10. ASSUME NEW r \in Requests, RefuseBusy(r) PROVE FailuresHaveAuthors'
  BY <1>10 DEF RefuseBusy, Goto, Answer, row, TypeOK, Row, ThisRow, BodyFixed, FailuresHaveAuthors, Failed, Unacknowledged
<1>11. ASSUME NEW r \in Requests, Commit(r) PROVE FailuresHaveAuthors'
  <2>1. /\ step[r] = "run" /\ step' = [step EXCEPT ![r] = "respond"]
        /\ committed' = committed \cup {r}
        /\ UNCHANGED <<status, seen, claim, write, answer>>
    BY <1>11 DEF Commit, Goto, row
  <2>2. /\ step'[r] = "respond" /\ claim[r] # "none"
        /\ \A x \in Requests \ {r} : step'[x] = step[x]
    BY <2>1 DEF TypeOK
  <2>3. ASSUME NEW x \in Requests, Failed(x) PROVE Failed(x)'
    BY <2>1, <2>2, <2>3 DEF Failed, Unacknowledged
  <2> QED
    BY <2>1, <2>2, <2>3 DEF FailuresHaveAuthors
<1>12. ASSUME NEW r \in Requests, CommitUnacknowledged(r) PROVE FailuresHaveAuthors'
  BY <1>12 DEF CommitUnacknowledged, Goto, Answer, row, TypeOK, Row, ThisRow, BodyFixed, FailuresHaveAuthors, Failed, Unacknowledged
<1>13. ASSUME NEW r \in Requests, Respond(r) PROVE FailuresHaveAuthors'
  BY <1>13 DEF Respond, Goto, Answer, row, TypeOK, Row, ThisRow, BodyFixed, FailuresHaveAuthors, Failed, Unacknowledged
<1>14. ASSUME NEW r \in Requests, HandlerFails(r) PROVE FailuresHaveAuthors'
  BY <1>14 DEF HandlerFails, Goto, Answer, row, TypeOK, Row, ThisRow, BodyFixed, FailuresHaveAuthors, Failed, Unacknowledged
<1>15. ASSUME NEW r \in Requests, Complete(r) PROVE FailuresHaveAuthors'
  BY <1>15 DEF Complete, TypeOK, Row, ThisRow, BodyFixed, FailuresHaveAuthors, Failed, Unacknowledged
<1>16. ASSUME NEW r \in Requests, Fail(r) PROVE FailuresHaveAuthors'
  BY <1>16 DEF Fail, TypeOK, Row, ThisRow, BodyFixed, FailuresHaveAuthors, Failed, Unacknowledged
<1>17. ASSUME NEW r \in Requests, Lose(r) PROVE FailuresHaveAuthors'
  BY <1>17 DEF Lose, row, TypeOK, Row, ThisRow, BodyFixed, FailuresHaveAuthors, Failed, Unacknowledged
<1>18. CASE MinutesPass
  BY <1>18 DEF MinutesPass, TypeOK, Row, ThisRow, BodyFixed, FailuresHaveAuthors, Failed, Unacknowledged
<1>19. CASE UNCHANGED vars
  BY <1>19 DEF vars, row, TypeOK, Row, ThisRow, BodyFixed, FailuresHaveAuthors, Failed, Unacknowledged
<1> QED
  BY <1>1, <1>2, <1>3, <1>4, <1>5, <1>6, <1>7, <1>8, <1>9, <1>10, <1>11, <1>12, <1>13, <1>14, <1>15, <1>16, <1>17, <1>18, <1>19 DEF Next, Serve

----
(* The theorems *)

\* The inductive invariant: the hash of the row never changes, responses stand
\* for effects and failures have authors, whatever fails or interleaves.
THEOREM Inductive == Spec => []IInv
<1>1. Init => IInv
  <2>1. Init => TypeOK
    <3>1. Init => ThisRow \in Row
      BY DEF Init, Row, ThisRow
    <3> QED
      BY <3>1 DEF Init, TypeOK, Answers
  <2>2. Init => BodyFixed
    BY DEF Init, BodyFixed, ThisRow
  <2>3. Init => ResponsesAreEffects
    BY AnswersAssumption DEF Init, ResponsesAreEffects, ThisRow, Answers
  <2>4. Init => FailuresHaveAuthors
    BY DEF Init, FailuresHaveAuthors, ThisRow
  <2> QED
    BY <2>1, <2>2, <2>3, <2>4 DEF IInv
<1>2. IInv /\ [Next]_vars => IInv'
  BY TypeStep, BodyStep, ResponseStep, FailureStep DEF IInv
<1> QED
  BY <1>1, <1>2, PTL DEF Spec

\* Rows, requests, claims and answers keep their types, and only who claimed
\* the key runs.
THEOREM TypeCorrect == Spec => []TypeOK
<1>1. IInv => TypeOK
  BY DEF IInv
<1> QED
  BY <1>1, Inductive, PTL

\* What the interceptor answers as done was done, once committed, for the same
\* body; and no handler runs under a key with another body.
THEOREM ReplayIsFaithfulHolds == Spec => []ReplayIsFaithful
<1>1. IInv => ReplayIsFaithful
  BY DEF IInv, ResponsesAreEffects, BodyFixed, ReplayIsFaithful
<1> QED
  BY <1>1, Inductive, PTL

\* Two committed requests that claimed neither as stale nor both as failed are
\* the maker of the row and one that found it failed; the request that failed
\* it is then the maker, which committed unacknowledged, or a second that found
\* the key failed.
THEOREM SecondEffectNeedsRaceHolds == Spec => []SecondEffectNeedsRace
<1>1. ASSUME IInv, NEW r \in committed, NEW q \in committed, r # q,
             \A x \in Requests : claim[x] # "stale" /\ ~Unacknowledged(x),
             \A x, y \in Requests : claim[x] = "failed" /\ claim[y] = "failed" => x = y
      PROVE  FALSE
  <2>1. r \in Requests /\ q \in Requests
    BY <1>1 DEF IInv, TypeOK
  <2>2. claim[r] \in {"insert", "failed"} /\ claim[q] \in {"insert", "failed"}
    BY <1>1, <2>1 DEF IInv, TypeOK, FailuresHaveAuthors
  <2>3. PICK a \in committed, b \in committed : a # b /\ claim[a] = "insert" /\ claim[b] = "failed"
    BY <1>1, <2>1, <2>2 DEF IInv, FailuresHaveAuthors
  <2>4. a \in Requests /\ b \in Requests
    BY <1>1 DEF IInv, TypeOK
  <2>5. PICK x \in Requests : x # b /\ Failed(x)
    BY <1>1, <2>3, <2>4 DEF IInv, FailuresHaveAuthors
  <2>6. claim[x] = "insert"
    BY <1>1, <2>3, <2>4, <2>5 DEF IInv, TypeOK, Failed
  <2>7. x = a
    BY <1>1, <2>3, <2>4, <2>6 DEF IInv, FailuresHaveAuthors
  <2> QED
    BY <1>1, <2>3, <2>5, <2>7 DEF Failed
<1>2. IInv => SecondEffectNeedsRace
  BY <1>1 DEF SecondEffectNeedsRace, IInv, TypeOK
<1> QED
  BY <1>2, Inductive, PTL

-----------------------------------------------------------------------------
(* The outbox and its senders.                                             *)

AtMost(a, b) == IF a < b THEN a ELSE b

\* A publication that failed is counted before its row says so: the row of an
\* event, what a dispatcher has read of it and what it is about to write there
\* name no more failures than there were.
FailuresCounted ==
    /\ \A e \in Events :
          /\ failures[e] >= AtMost(events[e].attempts, MaxAttempts)
          /\ events[e].status = "FAILED" => failures[e] >= MaxAttempts
    /\ \A d \in Dispatchers : \A entry \in batch[d] :
          failures[entry.event] >= AtMost(entry.attempts, MaxAttempts)
    /\ \A d \in Dispatchers : run[d] = "failed" =>
          failures[Current(d)] >= AtMost(CurrentRow(d).attempts + 1, MaxAttempts)

\* Whoever marks an event as dispatched has added its job.
PublishedFirst ==
    /\ \A e \in Events :
          events[e].status = "DISPATCHED" /\ Message[e] # Nothing => e \in published
    /\ \A d \in Dispatchers : run[d] = "added" => Current(d) \in published

Has(s, m) == send[s] # "idle" /\ InHand(s) = m

\* Jobs are of events with a message, and so is what a sender has.
JobsHaveMessages ==
    /\ \A e \in Events : jobs[e] # "none" => Message[e] # Nothing
    /\ \A s \in Senders : send[s] # "idle" => job[s] \in Events /\ InHand(s) # Nothing

\* A sender that was not cut short still has its job, and nobody else does.
SendersHoldJobs ==
    \A s \in Senders : send[s] # "idle" /\ InHand(s) \notin disturbed => jobs[job[s]] = s

\* A message the provider took is SENT, or its sender is about to say so.
AcceptedIsSent ==
    \A m \in Messages \ disturbed :
        /\ accepted[m] > 0 => \/ messages[m] = "SENT" /\ \A s \in Senders : ~Has(s, m)
                              \/ \E s \in Senders : Has(s, m) /\ send[s] = "SENT"
        /\ accepted[m] <= 1

\* A message cancelled while nobody had it stays cancelled, and nobody takes it.
CancelledStays ==
    \A m \in cancelled \ overtaken :
        messages[m] = "CANCELLED" /\ \A s \in Senders : ~Has(s, m)

\* The inductive invariant.
SendersInv == JobsHaveMessages /\ SendersHoldJobs /\ AcceptedIsSent /\ CancelledStays
MessagingInv == MessagingTypeOK /\ FailuresCounted /\ PublishedFirst /\ SendersInv

-----------------------------------------------------------------------------
(* Rows, jobs and messages.                                                *)

LEMMA Limits ==
    /\ MaxAttempts \in Nat /\ MaxTries \in Nat /\ MaxFaults \in Nat /\ Events \subseteq Nat
    /\ \A s \in Senders : s \notin {"none", "waiting", "completed", "failed"}
BY MessagingAssumption DEF Events

LEMMA Least ==
    ASSUME NEW T \in SUBSET Nat, T # {}
    PROVE  \E m \in T : \A k \in T : m <= k
<1>1. PICK m \in T : \A k \in T : ~(<<k, m>> \in OpToRel(<, Nat))
  BY NatLessThanWellFounded, WFMin
<1>2. \A k \in T : ~(k < m)
  BY <1>1 DEF OpToRel
<1> QED
  BY <1>2

\* The oldest row of a batch is one of it.
LEMMA RowInBatch ==
    ASSUME MessagingTypeOK, NEW d \in Dispatchers, run[d] # "idle"
    PROVE  /\ CurrentRow(d) \in batch[d]
           /\ CurrentRow(d) \in [event : Events, attempts : Nat]
           /\ Current(d) \in Events /\ CurrentRow(d).attempts \in Nat
<1> DEFINE ids == {entry.event : entry \in batch[d]}
<1>1. batch[d] \in SUBSET [event : Events, attempts : Nat] /\ batch[d] # {}
  BY DEF MessagingTypeOK
<1>2. ids \in SUBSET Nat /\ ids # {}
  BY <1>1 DEF Events
<1>3. PICK m \in ids : \A k \in ids : m <= k
  <2> HIDE DEF ids
  <2> QED
    BY <1>2, Least
<1>4. PICK entry \in batch[d] : entry.event = m
  OBVIOUS
<1>5. \A other \in batch[d] : entry.event <= other.event
  BY <1>3, <1>4
<1>6. CurrentRow(d) \in batch[d]
  BY <1>4, <1>5 DEF CurrentRow
<1> QED
  BY <1>1, <1>6 DEF Current

LEMMA MessagesAre ==
    ASSUME NEW e \in Events, Message[e] # Nothing
    PROVE  Message[e] \in Messages /\ \A f \in Events : Message[f] = Message[e] => f = e
BY MessagingAssumption DEF Messages

\* What a sender has in hand is a message, of one event.
LEMMA InHandIs ==
    ASSUME MessagingTypeOK, JobsHaveMessages, NEW s \in Senders, send[s] # "idle"
    PROVE  /\ job[s] \in Events
           /\ InHand(s) \in Messages
           /\ \A e \in Events : Message[e] = InHand(s) => e = job[s]
BY MessagesAre DEF JobsHaveMessages, InHand

\* Nobody else has a message that was not cut short.
LEMMA OneSender ==
    ASSUME MessagingTypeOK, JobsHaveMessages, SendersHoldJobs,
           NEW s \in Senders, NEW t \in Senders, NEW m,
           Has(s, m), Has(t, m), m \notin disturbed
    PROVE  s = t
<1>1. job[s] \in Events /\ job[t] \in Events /\ job[s] = job[t]
  BY InHandIs DEF Has, InHand
<1> QED
  BY <1>1 DEF Has, SendersHoldJobs

-----------------------------------------------------------------------------
(* Types.                                                                  *)

LEMMA InitType == MessagingInit => MessagingTypeOK
<1> SUFFICES ASSUME MessagingInit PROVE MessagingTypeOK
  OBVIOUS
<1>1. /\ events \in [Events -> [status : {"PENDING", "DISPATCHED", "FAILED"}, attempts : Nat]]
      /\ messages \in [Messages -> {"QUEUED", "SENDING", "SENT", "FAILED", "CANCELLED"}]
  BY DEF MessagingInit
<1>2. /\ jobs \in [Events -> {"none", "waiting", "completed", "failed"} \cup Senders]
      /\ tries \in [Events -> Nat] /\ failures \in [Events -> Nat]
      /\ accepted \in [Messages -> 0..2]
  BY DEF MessagingInit
<1>3. /\ run \in [Dispatchers -> {"idle", "next", "added", "failed"}]
      /\ batch \in [Dispatchers -> SUBSET [event : Events, attempts : Nat]]
      /\ \A d \in Dispatchers : run[d] = "idle"
  BY DEF MessagingInit
<1>4. send \in [Senders -> Stages] /\ job \in [Senders -> Events \cup {Nothing}]
  BY DEF MessagingInit, Stages
<1> QED
  BY <1>1, <1>2, <1>3, <1>4, Limits DEF MessagingInit, MessagingTypeOK

LEMMA FaultType ==
    ASSUME MessagingTypeOK, Fault
    PROVE  faults' \in 0..MaxFaults
BY Limits DEF Fault, MessagingTypeOK

\* What an advance does to the batch of its dispatcher.
LEMMA AdvanceType ==
    ASSUME MessagingTypeOK, NEW d \in Dispatchers, run[d] # "idle", Advance(d)
    PROVE  /\ run' \in [Dispatchers -> {"idle", "next", "added", "failed"}]
           /\ batch' \in [Dispatchers -> SUBSET [event : Events, attempts : Nat]]
           /\ \A c \in Dispatchers : run'[c] # "idle" => batch'[c] # {}
           /\ \A c \in Dispatchers : batch'[c] \subseteq batch[c]
           /\ \A c \in Dispatchers : run'[c] \in {"added", "failed"} => c # d
           /\ \A c \in Dispatchers \ {d} : run'[c] = run[c] /\ batch'[c] = batch[c]
BY RowInBatch DEF Advance, MessagingTypeOK

LEMMA DispatchType ==
    ASSUME MessagingTypeOK, NEW d \in Dispatchers, Dispatch(d) \/ AbandonRun(d)
    PROVE  MessagingTypeOK'
<1>1. CASE Poll(d)
  <2>1. PICK skipped \in SUBSET Events :
          Pending(skipped) # {} /\ batch' = [batch EXCEPT ![d] = Pending(skipped)]
    BY <1>1 DEF Poll
  <2>2. \A e \in Events : [event |-> e, attempts |-> events[e].attempts] \in [event : Events, attempts : Nat]
    BY DEF MessagingTypeOK
  <2>3. Pending(skipped) \in SUBSET [event : Events, attempts : Nat]
    BY <2>2 DEF Pending
  <2> QED
    BY <1>1, <2>1, <2>3 DEF Poll, MessagingTypeOK, sending, history
<1>2. CASE SkipEvent(d) \/ Mark(d)
  <2>1. run[d] # "idle" /\ MarkDispatched(d) /\ UNCHANGED <<sending, jobs, tries, faults, history>>
    BY <1>2 DEF SkipEvent, Mark
  <2>2. events' \in [Events -> [status : {"PENDING", "DISPATCHED", "FAILED"}, attempts : Nat]]
    BY <2>1, RowInBatch DEF MarkDispatched, MessagingTypeOK
  <2> QED
    BY <2>1, <2>2, AdvanceType DEF MarkDispatched, MessagingTypeOK, sending, history
<1>3. CASE Publish(d)
  BY <1>3, RowInBatch DEF Publish, AddJob, MessagingTypeOK, sending
<1>4. CASE FailPublication(d)
  <2>1. failures' \in [Events -> Nat]
    <3>1. PICK n : n = IF failures[Current(d)] < MaxAttempts THEN failures[Current(d)] + 1
                       ELSE failures[Current(d)]
      OBVIOUS
    <3>2. failures \in [Events -> Nat] /\ run[d] # "idle" /\ failures' = [failures EXCEPT ![Current(d)] = n]
      BY <1>4, <3>1 DEF FailPublication, MessagingTypeOK
    <3>3. n \in Nat
      BY <3>1, <3>2, RowInBatch
    <3> QED
      BY <3>2, <3>3
  <2> QED
    BY <1>4, <2>1 DEF FailPublication, MessagingTypeOK, sending
<1>5. CASE Reschedule(d)
  <2>1. events' \in [Events -> [status : {"PENDING", "DISPATCHED", "FAILED"}, attempts : Nat]]
    BY <1>5, RowInBatch DEF Reschedule, MessagingTypeOK
  <2> QED
    BY <1>5, <2>1, AdvanceType DEF Reschedule, MessagingTypeOK, sending, history
<1>6. CASE AbandonRun(d)
  BY <1>6, FaultType DEF AbandonRun, MessagingTypeOK, sending, history
<1> QED
  BY <1>1, <1>2, <1>3, <1>4, <1>5, <1>6 DEF Dispatch

\* The sender gives its job up, and the job ends, or waits again.
LEMMA ReleaseType ==
    ASSUME MessagingTypeOK, JobsHaveMessages, NEW s \in Senders, send[s] # "idle",
           NEW ok \in BOOLEAN, Release(s, ok)
    PROVE  /\ send' = [send EXCEPT ![s] = "idle"]
           /\ job' = [job EXCEPT ![s] = Nothing]
           /\ jobs' \in [Events -> {"none", "waiting", "completed", "failed"} \cup Senders]
           /\ tries' \in [Events -> Nat]
           /\ \A e \in Events : jobs'[e] # jobs[e] => jobs[e] = s /\ jobs'[e] # "none"
           /\ \A e \in Events : jobs'[e] # jobs[e] => jobs'[e] \notin Senders
<1>1. /\ job[s] \in Events
      /\ jobs \in [Events -> {"none", "waiting", "completed", "failed"} \cup Senders]
      /\ tries \in [Events -> Nat]
  BY InHandIs DEF MessagingTypeOK
<1>2. CASE jobs[job[s]] = s
  <2>1. PICK next \in {"completed", "waiting", "failed"}, n \in Nat :
          jobs' = [jobs EXCEPT ![job[s]] = next] /\ tries' = [tries EXCEPT ![job[s]] = n]
    BY <1>1, <1>2 DEF Release
  <2> QED
    BY <1>1, <1>2, <2>1, Limits DEF Release
<1> QED
  BY <1>1, <1>2 DEF Release

LEMMA SendType ==
    ASSUME MessagingTypeOK, JobsHaveMessages, NEW s \in Senders,
           \/ \E e \in Events : Take(s, e)
           \/ SetSending(s) \/ Accept(s) \/ Decline(s) \/ Record(s) \/ FailSend(s) \/ Stall(s)
    PROVE  MessagingTypeOK'
<1>1. ASSUME NEW e \in Events, Take(s, e) PROVE MessagingTypeOK'
  <2>1. send' \in [Senders -> Stages] /\ job' \in [Senders -> Events \cup {Nothing}]
    <3>1. send \in [Senders -> Stages] /\ job \in [Senders -> Events \cup {Nothing}]
      BY DEF MessagingTypeOK
    <3>2. \/ UNCHANGED <<send, job>>
          \/ send' = [send EXCEPT ![s] = "read"] /\ job' = [job EXCEPT ![s] = e]
      BY <1>1 DEF Take
    <3> QED
      BY <3>1, <3>2 DEF Stages
  <2>2. jobs' \in [Events -> {"none", "waiting", "completed", "failed"} \cup Senders]
    <3>1. PICK j \in {"completed", s} : jobs' = [jobs EXCEPT ![e] = j]
      BY <1>1 DEF Take
    <3> QED
      BY <3>1 DEF MessagingTypeOK
  <2>3. tries' \in [Events -> Nat]
    BY <1>1 DEF Take, MessagingTypeOK
  <2> QED
    BY <1>1, <2>1, <2>2, <2>3 DEF Take, MessagingTypeOK, outbox, history
<1>2. CASE SetSending(s)
  BY <1>2, InHandIs DEF SetSending, MessagingTypeOK, Stages, outbox, history
<1>3. CASE Accept(s)
  <2>1. send' \in [Senders -> Stages] /\ faults' \in 0..MaxFaults
    <3>1. send \in [Senders -> Stages] /\ faults \in 0..MaxFaults
      BY DEF MessagingTypeOK
    <3>2. \/ send' = [send EXCEPT ![s] = "SENT"] /\ faults' = faults
          \/ send' = [send EXCEPT ![s] = "QUEUED"] /\ faults < MaxFaults /\ faults' = faults + 1
      BY <1>3 DEF Accept, Fault
    <3> QED
      BY <3>1, <3>2, Limits DEF Stages, Outcomes
  <2>2. disturbed' \subseteq Messages
    BY <1>3, InHandIs DEF Accept, MessagingTypeOK
  <2>3. accepted' \in [Messages -> 0..2]
    <3>1. PICK n : n = IF accepted[InHand(s)] < 2 THEN accepted[InHand(s)] + 1 ELSE accepted[InHand(s)]
      OBVIOUS
    <3>2. accepted \in [Messages -> 0..2] /\ accepted' = [accepted EXCEPT ![InHand(s)] = n]
          /\ send[s] # "idle"
      BY <1>3, <3>1 DEF Accept, MessagingTypeOK
    <3>3. n \in 0..2
      BY <3>1, <3>2, InHandIs
    <3> QED
      BY <3>2, <3>3
  <2> QED
    BY <1>3, <2>1, <2>2, <2>3 DEF Accept, MessagingTypeOK, outbox
<1>4. CASE Decline(s)
  BY <1>4 DEF Decline, Stages, Outcomes, MessagingTypeOK, outbox, history
<1>5. CASE Record(s)
  <2>1. send[s] # "idle" /\ send[s] \in {"SENT", "FAILED", "QUEUED"} /\ (send[s] # "QUEUED") \in BOOLEAN
    BY <1>5 DEF Record, Outcomes
  <2>2. messages' \in [Messages -> {"QUEUED", "SENDING", "SENT", "FAILED", "CANCELLED"}]
    <3>1. PICK outcome \in {"SENT", "FAILED", "QUEUED"} : messages' = [messages EXCEPT ![InHand(s)] = outcome]
      BY <1>5, <2>1 DEF Record
    <3> QED
      BY <3>1 DEF MessagingTypeOK
  <2>3. send' \in [Senders -> Stages] /\ job' \in [Senders -> Events \cup {Nothing}]
    <3>1. Release(s, send[s] # "QUEUED")
      BY <1>5 DEF Record
    <3>2. send' = [send EXCEPT ![s] = "idle"] /\ job' = [job EXCEPT ![s] = Nothing]
      BY <2>1, <3>1, ReleaseType
    <3> QED
      BY <3>2 DEF MessagingTypeOK, Stages
  <2>4. /\ jobs' \in [Events -> {"none", "waiting", "completed", "failed"} \cup Senders]
        /\ tries' \in [Events -> Nat]
    BY <1>5, <2>1, ReleaseType DEF Record
  <2> QED
    BY <1>5, <2>2, <2>3, <2>4 DEF Record, MessagingTypeOK, outbox, history
<1>6. CASE FailSend(s)
  <2>1. send' \in [Senders -> Stages] /\ job' \in [Senders -> Events \cup {Nothing}]
    BY <1>6, ReleaseType DEF FailSend, MessagingTypeOK, Stages
  <2>2. /\ jobs' \in [Events -> {"none", "waiting", "completed", "failed"} \cup Senders]
        /\ tries' \in [Events -> Nat]
    BY <1>6, ReleaseType DEF FailSend
  <2>3. disturbed' \subseteq Messages /\ faults' \in 0..MaxFaults
    BY <1>6, InHandIs, FaultType DEF FailSend, MessagingTypeOK
  <2> QED
    BY <1>6, <2>1, <2>2, <2>3 DEF FailSend, MessagingTypeOK, outbox
<1>7. CASE Stall(s)
  <2>1. send' \in [Senders -> Stages] /\ job' \in [Senders -> Events \cup {Nothing}]
    BY <1>7 DEF Stall, MessagingTypeOK, Stages
  <2>2. disturbed' \subseteq Messages /\ faults' \in 0..MaxFaults
    BY <1>7, InHandIs, FaultType DEF Stall, MessagingTypeOK
  <2> QED
    BY <1>7, <2>1, <2>2 DEF Stall, MessagingTypeOK, outbox
<1> QED
  BY <1>1, <1>2, <1>3, <1>4, <1>5, <1>6, <1>7

LEMMA MessagingTypeStep ==
    ASSUME MessagingTypeOK, JobsHaveMessages, [MessagingNext]_messagingVars
    PROVE  MessagingTypeOK'
<1>1. ASSUME NEW e \in Events, Remove(e) PROVE MessagingTypeOK'
  BY <1>1 DEF Remove, MessagingTypeOK, outbox, sending, history
<1>2. ASSUME NEW m \in Messages, Cancel(m) PROVE MessagingTypeOK'
  BY <1>2 DEF Cancel, MessagingTypeOK, outbox
<1>3. CASE UNCHANGED messagingVars
  BY <1>3 DEF messagingVars, MessagingTypeOK, outbox, sending, history
<1> QED
  BY <1>1, <1>2, <1>3, DispatchType, SendType DEF MessagingNext

-----------------------------------------------------------------------------
(* The dispatchers.                                                        *)

\* The row of an event is written by the dispatcher that has it, which goes on.
LEMMA RowWritten ==
    ASSUME MessagingTypeOK, FailuresCounted, PublishedFirst,
           NEW d \in Dispatchers, run[d] # "idle",
           NEW entry \in [status : {"PENDING", "DISPATCHED", "FAILED"}, attempts : Nat],
           events' = [events EXCEPT ![Current(d)] = entry], Advance(d),
           UNCHANGED <<failures, published>>,
           failures[Current(d)] >= AtMost(entry.attempts, MaxAttempts),
           entry.status = "FAILED" => failures[Current(d)] >= MaxAttempts,
           entry.status = "DISPATCHED" /\ Message[Current(d)] # Nothing => Current(d) \in published
    PROVE  FailuresCounted' /\ PublishedFirst'
<1>1. /\ \A c \in Dispatchers : batch'[c] \subseteq batch[c]
      /\ \A c \in Dispatchers : run'[c] \in {"added", "failed"} =>
            c # d /\ run'[c] = run[c] /\ batch'[c] = batch[c]
  BY AdvanceType
<1>2. \A c \in Dispatchers : run'[c] \in {"added", "failed"} =>
        CurrentRow(c)' = CurrentRow(c) /\ Current(c)' = Current(c) /\ run'[c] = run[c]
  BY <1>1 DEF CurrentRow, Current
<1>3. \A e \in Events : events'[e] = IF e = Current(d) THEN entry ELSE events[e]
  BY DEF MessagingTypeOK
<1>4. \A e \in Events : /\ failures[e] >= AtMost(events'[e].attempts, MaxAttempts)
                        /\ events'[e].status = "FAILED" => failures[e] >= MaxAttempts
  BY <1>3 DEF FailuresCounted
<1>5. \A e \in Events :
        events'[e].status = "DISPATCHED" /\ Message[e] # Nothing => e \in published
  BY <1>3 DEF PublishedFirst
<1>6. FailuresCounted'
  BY <1>1, <1>2, <1>4 DEF FailuresCounted
<1>7. PublishedFirst'
  BY <1>2, <1>5 DEF PublishedFirst
<1> QED
  BY <1>6, <1>7

LEMMA DispatchCounted ==
    ASSUME MessagingTypeOK, FailuresCounted, PublishedFirst,
           NEW d \in Dispatchers, Dispatch(d) \/ AbandonRun(d)
    PROVE  FailuresCounted' /\ PublishedFirst'
<1>1. ASSUME NEW c \in Dispatchers, batch'[c] = batch[c]
      PROVE  CurrentRow(c)' = CurrentRow(c) /\ Current(c)' = Current(c)
  BY <1>1 DEF CurrentRow, Current
<1>2. CASE Poll(d)
  <2>1. PICK skipped \in SUBSET Events : batch' = [batch EXCEPT ![d] = Pending(skipped)]
    BY <1>2 DEF Poll
  <2>2. ASSUME NEW entry \in Pending(skipped)
        PROVE  failures[entry.event] >= AtMost(entry.attempts, MaxAttempts)
    <3>1. PICK e \in Events : entry = [event |-> e, attempts |-> events[e].attempts]
      BY DEF Pending
    <3>2. entry.event = e /\ entry.attempts = events[e].attempts
      BY <3>1
    <3> QED
      BY <3>2 DEF FailuresCounted
  <2>3. /\ \A c \in Dispatchers \ {d} : batch'[c] = batch[c] /\ run'[c] = run[c]
        /\ batch'[d] = Pending(skipped) /\ run'[d] = "next"
        /\ UNCHANGED <<events, failures, published>>
    BY <1>2, <2>1 DEF Poll, MessagingTypeOK, history
  <2> QED
    BY <1>1, <2>2, <2>3 DEF FailuresCounted, PublishedFirst
<1>3. CASE SkipEvent(d) \/ Mark(d)
  <2>1. /\ run[d] # "idle" /\ Advance(d) /\ UNCHANGED <<failures, published>>
        /\ events' = [events EXCEPT ![Current(d)].status = "DISPATCHED"]
        /\ Message[Current(d)] # Nothing => run[d] = "added"
    BY <1>3 DEF SkipEvent, Mark, MarkDispatched, history
  <2>2. Current(d) \in Events
    BY <2>1, RowInBatch
  <2>3. PICK entry : entry = [events[Current(d)] EXCEPT !.status = "DISPATCHED"]
    OBVIOUS
  <2>4. /\ entry \in [status : {"PENDING", "DISPATCHED", "FAILED"}, attempts : Nat]
        /\ entry.status = "DISPATCHED" /\ entry.attempts = events[Current(d)].attempts
        /\ events' = [events EXCEPT ![Current(d)] = entry]
    BY <2>1, <2>2, <2>3 DEF MessagingTypeOK
  <2>5. failures[Current(d)] >= AtMost(entry.attempts, MaxAttempts)
    BY <2>2, <2>4 DEF FailuresCounted
  <2>6. Message[Current(d)] # Nothing => Current(d) \in published
    BY <2>1 DEF PublishedFirst
  <2> QED
    BY <2>1, <2>4, <2>5, <2>6, RowWritten
<1>4. CASE Publish(d)
  <2>1. /\ UNCHANGED <<events, batch, failures>>
        /\ run' = [run EXCEPT ![d] = "added"]
        /\ published' = published \cup {Current(d)}
    BY <1>4 DEF Publish, AddJob
  <2>2. \A c \in Dispatchers : run'[c] = IF c = d THEN "added" ELSE run[c]
    BY <2>1 DEF MessagingTypeOK
  <2> QED
    BY <1>1, <2>1, <2>2 DEF FailuresCounted, PublishedFirst
<1>5. CASE FailPublication(d)
  <2>1. PICK n : n = IF failures[Current(d)] < MaxAttempts THEN failures[Current(d)] + 1
                     ELSE failures[Current(d)]
    OBVIOUS
  <2>2. /\ UNCHANGED <<events, batch, published>> /\ run[d] # "idle"
        /\ run' = [run EXCEPT ![d] = "failed"]
        /\ failures' = [failures EXCEPT ![Current(d)] = n]
    BY <1>5, <2>1 DEF FailPublication
  <2>3. CurrentRow(d) \in batch[d] /\ Current(d) \in Events /\ CurrentRow(d).attempts \in Nat
    BY <2>2, RowInBatch
  <2>4. /\ failures[Current(d)] \in Nat
        /\ failures[Current(d)] >= AtMost(CurrentRow(d).attempts, MaxAttempts)
    BY <2>3 DEF FailuresCounted, MessagingTypeOK, Current
  <2>5. n \in Nat /\ n >= failures[Current(d)] /\ n >= AtMost(CurrentRow(d).attempts + 1, MaxAttempts)
    BY <2>1, <2>3, <2>4, Limits DEF AtMost
  <2>6. \A e \in Events : failures[e] \in Nat /\ failures'[e] \in Nat /\ failures'[e] >= failures[e]
    BY <2>2, <2>5 DEF MessagingTypeOK
  <2>7. \A e \in Events, a \in Nat : AtMost(a, MaxAttempts) \in Nat
    BY Limits DEF AtMost
  <2>8. \A e \in Events : failures'[e] >= AtMost(events[e].attempts, MaxAttempts)
                          /\ (events[e].status = "FAILED" => failures'[e] >= MaxAttempts)
    BY <2>6, <2>7, Limits DEF FailuresCounted, MessagingTypeOK
  <2>9. \A c \in Dispatchers : \A entry \in batch[c] :
          failures'[entry.event] >= AtMost(entry.attempts, MaxAttempts)
    <3>1. ASSUME NEW c \in Dispatchers, NEW entry \in batch[c]
          PROVE  entry.event \in Events /\ entry.attempts \in Nat
      BY DEF MessagingTypeOK
    <3> QED
      BY <2>6, <2>7, <3>1 DEF FailuresCounted
  <2>10. ASSUME NEW c \in Dispatchers, run'[c] = "failed"
         PROVE  failures'[Current(c)] >= AtMost(CurrentRow(c).attempts + 1, MaxAttempts)
    <3>1. CASE c = d
      BY <2>2, <2>3, <2>5, <3>1 DEF MessagingTypeOK
    <3>2. CASE c # d
      <4>1. run[c] = "failed"
        BY <2>2, <2>10, <3>2 DEF MessagingTypeOK
      <4>2. Current(c) \in Events /\ CurrentRow(c).attempts + 1 \in Nat
        BY <4>1, RowInBatch
      <4> QED
        BY <2>6, <2>7, <4>1, <4>2 DEF FailuresCounted
    <3> QED
      BY <3>1, <3>2
  <2>11. FailuresCounted'
    BY <1>1, <2>2, <2>8, <2>9, <2>10 DEF FailuresCounted
  <2>12. PublishedFirst'
    BY <1>1, <2>2 DEF PublishedFirst, MessagingTypeOK
  <2> QED
    BY <2>11, <2>12
<1>6. CASE Reschedule(d)
  <2>1. PICK entry : entry = [status |-> IF CurrentRow(d).attempts + 1 >= MaxAttempts THEN "FAILED" ELSE "PENDING",
                          attempts |-> CurrentRow(d).attempts + 1]
    OBVIOUS
  <2>2. /\ run[d] = "failed" /\ Advance(d) /\ UNCHANGED <<failures, published>>
        /\ events' = [events EXCEPT ![Current(d)] = entry]
    BY <1>6, <2>1 DEF Reschedule, history
  <2>3. Current(d) \in Events /\ CurrentRow(d).attempts \in Nat
    BY <2>2, RowInBatch
  <2>4. /\ failures[Current(d)] \in Nat
        /\ failures[Current(d)] >= AtMost(CurrentRow(d).attempts + 1, MaxAttempts)
    BY <2>2, <2>3 DEF FailuresCounted, MessagingTypeOK
  <2>5. /\ entry \in [status : {"PENDING", "DISPATCHED", "FAILED"}, attempts : Nat]
        /\ entry.status # "DISPATCHED"
        /\ entry.attempts = CurrentRow(d).attempts + 1
        /\ entry.status = "FAILED" => CurrentRow(d).attempts + 1 >= MaxAttempts
    BY <2>1, <2>3
  <2>6. entry.status = "FAILED" => failures[Current(d)] >= MaxAttempts
    BY <2>3, <2>4, <2>5, Limits DEF AtMost
  <2> QED
    BY <2>2, <2>4, <2>5, <2>6, RowWritten
<1>7. CASE AbandonRun(d)
  <2>1. /\ UNCHANGED <<events, failures, published>>
        /\ \A c \in Dispatchers : run'[c] = IF c = d THEN "idle" ELSE run[c]
        /\ \A c \in Dispatchers : batch'[c] = IF c = d THEN {} ELSE batch[c]
    BY <1>7 DEF AbandonRun, history, MessagingTypeOK
  <2> QED
    BY <1>1, <2>1 DEF FailuresCounted, PublishedFirst
<1> QED
  BY <1>2, <1>3, <1>4, <1>5, <1>6, <1>7 DEF Dispatch

\* What is not a dispatcher leaves the outbox and what was counted of it alone.
LEMMA CountedStays ==
    ASSUME FailuresCounted, PublishedFirst, UNCHANGED <<events, run, batch, failures, published>>
    PROVE  FailuresCounted' /\ PublishedFirst'
<1>1. \A d : CurrentRow(d)' = CurrentRow(d) /\ Current(d)' = Current(d)
  BY DEF CurrentRow, Current
<1> QED
  BY <1>1 DEF FailuresCounted, PublishedFirst

-----------------------------------------------------------------------------
(* The senders.                                                            *)

\* Jobs that no sender has may change, if they are of events with a message.
LEMMA JobsChange ==
    ASSUME MessagingTypeOK, SendersInv,
           UNCHANGED <<messages, send, job, accepted, disturbed, cancelled, overtaken>>,
           \A e \in Events : jobs'[e] # jobs[e] => jobs[e] \notin Senders,
           \A e \in Events : jobs'[e] # "none" => Message[e] # Nothing
    PROVE  SendersInv'
<1>1. \A s \in Senders : \A m : InHand(s)' = InHand(s) /\ (Has(s, m)' <=> Has(s, m))
  BY DEF InHand, Has
<1>2. JobsHaveMessages'
  BY <1>1 DEF SendersInv, JobsHaveMessages
<1>3. SendersHoldJobs'
  BY <1>1 DEF SendersInv, SendersHoldJobs, JobsHaveMessages
<1>4. AcceptedIsSent'
  BY <1>1 DEF SendersInv, AcceptedIsSent, Has, InHand
<1>5. CancelledStays'
  BY <1>1 DEF SendersInv, CancelledStays, Has, InHand
<1> QED
  BY <1>2, <1>3, <1>4, <1>5 DEF SendersInv

LEMMA TakeKeeps ==
    ASSUME MessagingTypeOK, SendersInv, NEW s \in Senders, NEW e \in Events, Take(s, e)
    PROVE  SendersInv'
<1>1. /\ send[s] = "idle" /\ jobs[e] = "waiting" /\ Message[e] # Nothing
      /\ UNCHANGED <<messages, accepted, disturbed, cancelled, overtaken>>
  BY DEF Take, history, SendersInv, JobsHaveMessages
<1>2. CASE Resolved(Message[e])
  <2>1. /\ UNCHANGED <<send, job>>
        /\ \A f \in Events : jobs'[f] = IF f = e THEN "completed" ELSE jobs[f]
    BY <1>2 DEF Take, MessagingTypeOK
  <2>2. \A f \in Events : jobs'[f] # jobs[f] => jobs[f] \notin Senders
    BY <1>1, <2>1, Limits
  <2>3. \A f \in Events : jobs'[f] # "none" => Message[f] # Nothing
    BY <1>1, <2>1 DEF SendersInv, JobsHaveMessages
  <2> QED
    BY <1>1, <2>1, <2>2, <2>3, JobsChange
<1>3. CASE ~Resolved(Message[e])
  <2>1. /\ \A f \in Events : jobs'[f] = IF f = e THEN s ELSE jobs[f]
        /\ \A t \in Senders : send'[t] = IF t = s THEN "read" ELSE send[t]
        /\ \A t \in Senders : job'[t] = IF t = s THEN e ELSE job[t]
    BY <1>3 DEF Take, MessagingTypeOK
  <2>2. \A t \in Senders : InHand(t)' = IF t = s THEN Message[e] ELSE InHand(t)
    BY <2>1 DEF InHand
  <2>3. \A t \in Senders : \A m : Has(t, m)' <=> IF t = s THEN m = Message[e] ELSE Has(t, m)
    BY <2>1, <2>2 DEF Has
  <2>4. messages[Message[e]] \notin {"SENT", "CANCELLED"}
    BY <1>3 DEF Resolved
  <2>5. \A t \in Senders : Has(t, Message[e]) => Message[e] \in disturbed
    <3>1. ASSUME NEW t \in Senders, Has(t, Message[e]), Message[e] \notin disturbed PROVE FALSE
      <4>1. jobs[job[t]] = t
        BY <3>1 DEF Has, SendersInv, SendersHoldJobs
      <4>2. job[t] = e
        BY <1>1, <3>1, InHandIs DEF Has, SendersInv
      <4> QED
        BY <1>1, <4>1, <4>2, Limits
    <3> QED
      BY <3>1
  <2>6. JobsHaveMessages'
    BY <1>1, <2>1, <2>2 DEF SendersInv, JobsHaveMessages
  <2>7. SendersHoldJobs'
    <3>1. ASSUME NEW t \in Senders, send'[t] # "idle", InHand(t)' \notin disturbed'
          PROVE  jobs'[job'[t]] = t
      <4>1. CASE t = s
        BY <2>1, <4>1
      <4>2. CASE t # s
        <5>1. job'[t] = job[t] /\ job[t] \in Events /\ jobs[job[t]] = t
          BY <1>1, <2>1, <2>2, <3>1, <4>2 DEF SendersInv, SendersHoldJobs, JobsHaveMessages
        <5> QED
          BY <1>1, <2>1, <5>1, Limits
      <4> QED
        BY <4>1, <4>2
    <3> QED
      BY <3>1 DEF SendersHoldJobs
  <2>8. ASSUME NEW m \in Messages \ disturbed
        PROVE  /\ accepted[m] > 0 =>
                      \/ messages[m] = "SENT" /\ \A t \in Senders : ~Has(t, m)'
                      \/ \E t \in Senders : Has(t, m)' /\ send'[t] = "SENT"
               /\ accepted[m] <= 1
    BY <1>1, <2>1, <2>3, <2>4, <2>5, <2>8 DEF SendersInv, AcceptedIsSent, Has
  <2>9. AcceptedIsSent'
    BY <1>1, <2>8 DEF AcceptedIsSent
  <2>10. CancelledStays'
    BY <1>1, <2>3, <2>4 DEF SendersInv, CancelledStays
  <2> QED
    BY <2>6, <2>7, <2>9, <2>10 DEF SendersInv
<1> QED
  BY <1>2, <1>3

\* A sender goes on with what it has.
LEMMA SenderGoesOn ==
    ASSUME MessagingTypeOK, SendersInv, NEW s \in Senders, send[s] \in {"read", "sending"},
           SetSending(s) \/ Accept(s) \/ Decline(s)
    PROVE  SendersInv'
<1> DEFINE m == InHand(s)
<1>1. /\ m \in Messages /\ Has(s, m)
      /\ UNCHANGED <<job, jobs, cancelled, overtaken>> /\ disturbed \subseteq disturbed'
      /\ \A t \in Senders \ {s} : send'[t] = send[t]
      /\ send'[s] \in {"sending"} \cup Outcomes
      /\ \A n \in Messages \ {m} : messages'[n] = messages[n] /\ accepted'[n] = accepted[n]
  <2>1. m \in Messages /\ Has(s, m)
    BY InHandIs DEF Has, SendersInv
  <2>2. CASE SetSending(s)
    BY <2>1, <2>2 DEF SetSending, MessagingTypeOK, Outcomes, history
  <2>3. CASE Accept(s)
    BY <2>1, <2>3 DEF Accept, MessagingTypeOK, Outcomes
  <2>4. CASE Decline(s)
    BY <2>1, <2>4 DEF Decline, MessagingTypeOK, Outcomes, history
  <2> QED
    BY <2>1, <2>2, <2>3, <2>4
<1>2. \A t \in Senders : \A n : InHand(t)' = InHand(t) /\ (Has(t, n)' <=> Has(t, n))
  BY <1>1 DEF InHand, Has, Outcomes
<1>3. JobsHaveMessages' /\ SendersHoldJobs'
  <2>1. \A t \in Senders : send'[t] # "idle" => send[t] # "idle"
    BY <1>1
  <2>2. JobsHaveMessages'
    BY <1>1, <1>2, <2>1 DEF SendersInv, JobsHaveMessages
  <2>3. ASSUME NEW t \in Senders, send'[t] # "idle", InHand(t)' \notin disturbed'
        PROVE  jobs'[job'[t]] = t
    <3>1. InHand(t) \notin disturbed
      BY <1>1, <1>2, <2>3
    <3> QED
      BY <1>1, <2>1, <2>3, <3>1 DEF SendersInv, SendersHoldJobs
  <2> QED
    BY <2>2, <2>3 DEF SendersHoldJobs
<1>4. CancelledStays'
  <2>1. \A n \in cancelled \ overtaken : n \in Messages /\ n # m
    BY <1>1 DEF SendersInv, CancelledStays, MessagingTypeOK
  <2> QED
    BY <1>1, <1>2, <2>1 DEF SendersInv, CancelledStays
<1>5. ASSUME m \notin disturbed PROVE accepted[m] = 0 /\ \A t \in Senders : Has(t, m) => t = s
  <2>1. \A t \in Senders : Has(t, m) => t = s
    BY <1>1, <1>5, OneSender DEF SendersInv
  <2>2. accepted[m] \in 0..2
    BY <1>1 DEF MessagingTypeOK
  <2>3. ~(accepted[m] > 0)
    BY <1>1, <1>5, <2>1 DEF SendersInv, AcceptedIsSent
  <2> QED
    BY <2>1, <2>2, <2>3
<1>6. ASSUME m \notin disturbed'
      PROVE  accepted'[m] <= 1 /\ (accepted'[m] > 0 => send'[s] = "SENT")
  <2>1. m \notin disturbed
    BY <1>1, <1>6
  <2>2. CASE SetSending(s) \/ Decline(s)
    BY <1>5, <2>1, <2>2 DEF SetSending, Decline, history
  <2>3. CASE Accept(s)
    BY <1>1, <1>5, <1>6, <2>1, <2>3 DEF Accept, MessagingTypeOK
  <2> QED
    BY <2>2, <2>3
<1>7. ASSUME NEW n \in Messages \ disturbed'
      PROVE  /\ accepted'[n] > 0 =>
                    \/ messages'[n] = "SENT" /\ \A t \in Senders : ~Has(t, n)'
                    \/ \E t \in Senders : Has(t, n)' /\ send'[t] = "SENT"
             /\ accepted'[n] <= 1
  <2>1. CASE n = m
    BY <1>1, <1>2, <1>6, <2>1
  <2>2. CASE n # m
    <3>1. n \in Messages \ disturbed /\ ~Has(s, n)
      BY <1>1, <2>2 DEF Has
    <3> QED
      BY <1>1, <1>2, <2>2, <3>1 DEF SendersInv, AcceptedIsSent
  <2> QED
    BY <2>1, <2>2
<1>8. AcceptedIsSent'
  BY <1>7 DEF AcceptedIsSent
<1> QED
  BY <1>3, <1>4, <1>8 DEF SendersInv

\* A sender gives up what it has, in order or not.
LEMMA SenderEnds ==
    ASSUME MessagingTypeOK, SendersInv, NEW s \in Senders, send[s] # "idle",
           send' = [send EXCEPT ![s] = "idle"], job' = [job EXCEPT ![s] = Nothing],
           \A e \in Events : jobs'[e] # jobs[e] => jobs[e] = s /\ jobs[e] # "none",
           UNCHANGED <<accepted, cancelled, overtaken>>,
           \/ disturbed' = disturbed \cup {InHand(s)} /\ UNCHANGED messages
           \/ /\ UNCHANGED disturbed /\ send[s] \in Outcomes
              /\ messages' = [messages EXCEPT ![InHand(s)] = send[s]]
    PROVE  SendersInv'
<1> DEFINE m == InHand(s)
<1>1. /\ m \in Messages /\ Has(s, m) /\ disturbed \subseteq disturbed'
      /\ \A t \in Senders : send'[t] = IF t = s THEN "idle" ELSE send[t]
      /\ \A t \in Senders \ {s} : job'[t] = job[t]
      /\ \A n \in Messages \ {m} : messages'[n] = messages[n]
  BY InHandIs DEF Has, SendersInv, MessagingTypeOK
<1>2. /\ \A t \in Senders \ {s} : InHand(t)' = InHand(t)
      /\ \A t \in Senders : \A n : Has(t, n)' <=> t # s /\ Has(t, n)
  BY <1>1 DEF InHand, Has
<1>3. JobsHaveMessages'
  BY <1>1, <1>2 DEF SendersInv, JobsHaveMessages
<1>4. SendersHoldJobs'
  <2>1. ASSUME NEW t \in Senders, send'[t] # "idle", InHand(t)' \notin disturbed'
        PROVE  jobs'[job'[t]] = t
    <3>1. t # s /\ send[t] # "idle" /\ job'[t] = job[t] /\ InHand(t) \notin disturbed
      BY <1>1, <1>2, <2>1
    <3>2. job[t] \in Events /\ jobs[job[t]] = t
      BY <3>1 DEF SendersInv, SendersHoldJobs, JobsHaveMessages
    <3> QED
      BY <3>1, <3>2
  <2> QED
    BY <2>1 DEF SendersHoldJobs
<1>5. CancelledStays'
  <2>1. \A n \in cancelled \ overtaken : n \in Messages /\ n # m
    BY <1>1 DEF SendersInv, CancelledStays, MessagingTypeOK
  <2> QED
    BY <1>1, <1>2, <2>1 DEF SendersInv, CancelledStays
<1>6. ASSUME m \notin disturbed'
      PROVE  /\ messages' = [messages EXCEPT ![m] = send[s]]
             /\ \A t \in Senders : Has(t, m) => t = s
  BY <1>1, <1>6, OneSender DEF SendersInv
<1>7. ASSUME NEW n \in Messages \ disturbed'
      PROVE  /\ accepted[n] > 0 =>
                    \/ messages'[n] = "SENT" /\ \A t \in Senders : ~Has(t, n)'
                    \/ \E t \in Senders : Has(t, n)' /\ send'[t] = "SENT"
             /\ accepted[n] <= 1
  <2>1. CASE n = m
    <3>1. accepted[m] > 0 => send[s] = "SENT"
      BY <1>1, <1>6, <1>7, <2>1 DEF SendersInv, AcceptedIsSent
    <3>2. messages'[m] = send[s]
      BY <1>1, <1>6, <1>7, <2>1 DEF MessagingTypeOK
    <3> QED
      BY <1>1, <1>2, <1>6, <1>7, <2>1, <3>1, <3>2 DEF SendersInv, AcceptedIsSent
  <2>2. CASE n # m
    <3>1. n \in Messages \ disturbed /\ ~Has(s, n)
      BY <1>1, <2>2 DEF Has
    <3> QED
      BY <1>1, <1>2, <2>2, <3>1 DEF SendersInv, AcceptedIsSent
  <2> QED
    BY <2>1, <2>2
<1>8. AcceptedIsSent'
  BY <1>7 DEF AcceptedIsSent
<1> QED
  BY <1>3, <1>4, <1>5, <1>8 DEF SendersInv

\* A sender is cut short, and may go on.
LEMMA StallKeeps ==
    ASSUME MessagingTypeOK, SendersInv, NEW s \in Senders, Stall(s)
    PROVE  SendersInv'
<1> DEFINE m == InHand(s)
<1>1. /\ m \in Messages /\ Has(s, m) /\ job[s] \in Events /\ jobs[job[s]] = s
      /\ \A e \in Events : jobs'[e] = IF e = job[s] THEN "waiting" ELSE jobs[e]
      /\ disturbed' = disturbed \cup {m}
      /\ UNCHANGED <<messages, accepted, cancelled, overtaken>>
      /\ \A t \in Senders \ {s} : send'[t] = send[t] /\ job'[t] = job[t]
      /\ \/ send'[s] = "idle"
         \/ send'[s] = send[s] /\ job'[s] = job[s]
  BY InHandIs DEF Stall, Has, SendersInv, MessagingTypeOK
<1>2. \A t \in Senders : send'[t] # "idle" =>
        send[t] # "idle" /\ job'[t] = job[t] /\ InHand(t)' = InHand(t) /\ send'[t] = send[t]
  BY <1>1 DEF InHand, Has
<1>3. \A n : \A t \in Senders : /\ Has(t, n)' => Has(t, n)
                                /\ Has(t, n) /\ n # m => Has(t, n)' /\ send'[t] = send[t]
  BY <1>1, <1>2 DEF Has, InHand
<1>4. Message[job[s]] # Nothing
  BY <1>1 DEF SendersInv, JobsHaveMessages, Has, InHand
<1>5. JobsHaveMessages'
  BY <1>1, <1>2, <1>4 DEF SendersInv, JobsHaveMessages
<1>6. ASSUME NEW t \in Senders, send'[t] # "idle", InHand(t)' \notin disturbed'
      PROVE  jobs'[job'[t]] = t
  <2>1. InHand(t) # m /\ InHand(t) \notin disturbed /\ job'[t] = job[t] /\ send[t] # "idle"
    BY <1>1, <1>2, <1>6
  <2>2. job[t] \in Events /\ jobs[job[t]] = t /\ job[t] # job[s]
    BY <2>1 DEF SendersInv, SendersHoldJobs, JobsHaveMessages, InHand
  <2> QED
    BY <1>1, <2>1, <2>2
<1>7. ASSUME NEW n \in Messages \ disturbed'
      PROVE  /\ accepted[n] > 0 =>
                    \/ messages[n] = "SENT" /\ \A t \in Senders : ~Has(t, n)'
                    \/ \E t \in Senders : Has(t, n)' /\ send'[t] = "SENT"
             /\ accepted[n] <= 1
  <2>1. n \in Messages \ disturbed /\ n # m
    BY <1>1
  <2>2. \A t \in Senders : /\ Has(t, n)' => Has(t, n)
                           /\ Has(t, n) => Has(t, n)' /\ send'[t] = send[t]
    BY <1>3, <2>1
  <2>3. /\ accepted[n] > 0 =>
               \/ messages[n] = "SENT" /\ \A t \in Senders : ~Has(t, n)
               \/ \E t \in Senders : Has(t, n) /\ send[t] = "SENT"
        /\ accepted[n] <= 1
    BY <2>1 DEF SendersInv, AcceptedIsSent
  <2>4. CASE messages[n] = "SENT" /\ \A t \in Senders : ~Has(t, n)
    BY <2>2, <2>3, <2>4
  <2>5. ASSUME NEW t \in Senders, Has(t, n), send[t] = "SENT"
        PROVE  \E u \in Senders : Has(u, n)' /\ send'[u] = "SENT"
    BY <2>2, <2>5
  <2> QED
    BY <2>3, <2>4, <2>5
<1>8. SendersHoldJobs'
  BY <1>6 DEF SendersHoldJobs
<1>9. AcceptedIsSent'
  BY <1>1, <1>7 DEF AcceptedIsSent
<1>10. CancelledStays'
  <2>1. ASSUME NEW n \in cancelled \ overtaken
        PROVE  messages[n] = "CANCELLED" /\ \A t \in Senders : ~Has(t, n)'
    <3>1. messages[n] = "CANCELLED" /\ \A t \in Senders : ~Has(t, n)
      BY DEF SendersInv, CancelledStays
    <3> QED
      BY <1>3, <3>1
  <2> QED
    BY <1>1, <2>1 DEF CancelledStays
<1> QED
  BY <1>5, <1>8, <1>9, <1>10 DEF SendersInv

LEMMA CancelKeeps ==
    ASSUME MessagingTypeOK, SendersInv, NEW m \in Messages, Cancel(m)
    PROVE  SendersInv'
<1>1. /\ messages[m] \in {"QUEUED", "FAILED"}
      /\ \A n \in Messages : messages'[n] = IF n = m THEN "CANCELLED" ELSE messages[n]
      /\ cancelled' = cancelled \cup {m} /\ overtaken \subseteq overtaken'
      /\ (\E s \in Senders : Has(s, m)) => m \in overtaken'
      /\ UNCHANGED <<send, job, jobs, accepted, disturbed>>
  BY DEF Cancel, MessagingTypeOK, Has
<1>2. \A s \in Senders : \A n : InHand(s)' = InHand(s) /\ (Has(s, n)' <=> Has(s, n))
  BY <1>1 DEF InHand, Has
<1>3. JobsHaveMessages' /\ SendersHoldJobs'
  BY <1>1, <1>2 DEF SendersInv, JobsHaveMessages, SendersHoldJobs
<1>4. AcceptedIsSent'
  BY <1>1, <1>2 DEF SendersInv, AcceptedIsSent
<1>5. ASSUME NEW n \in cancelled' \ overtaken'
      PROVE  messages'[n] = "CANCELLED" /\ \A s \in Senders : ~Has(s, n)'
  <2>1. CASE n = m
    BY <1>1, <1>2, <1>5, <2>1
  <2>2. CASE n # m
    <3>1. n \in cancelled \ overtaken /\ n \in Messages
      BY <1>1, <1>5, <2>2 DEF MessagingTypeOK
    <3> QED
      BY <1>1, <1>2, <2>2, <3>1 DEF SendersInv, CancelledStays
  <2> QED
    BY <2>1, <2>2
<1> QED
  BY <1>3, <1>4, <1>5 DEF SendersInv, CancelledStays

LEMMA SendersStep ==
    ASSUME MessagingTypeOK, SendersInv, [MessagingNext]_messagingVars
    PROVE  SendersInv'
<1>1. ASSUME NEW d \in Dispatchers, Dispatch(d) \/ AbandonRun(d) PROVE SendersInv'
  <2>1. CASE Publish(d)
    <3>1. /\ UNCHANGED <<messages, send, job, accepted, disturbed, cancelled, overtaken>>
          /\ Message[Current(d)] # Nothing
          /\ \A e \in Events : jobs'[e] # jobs[e] => e = Current(d) /\ jobs[e] = "none"
      BY <2>1 DEF Publish, AddJob, MessagingTypeOK, sending
    <3>2. \A e \in Events : jobs'[e] # jobs[e] => jobs[e] \notin Senders
      BY <3>1, Limits
    <3>3. \A e \in Events : jobs'[e] # "none" => Message[e] # Nothing
      BY <3>1 DEF SendersInv, JobsHaveMessages
    <3> QED
      BY <3>1, <3>2, <3>3, JobsChange
  <2>2. CASE ~Publish(d)
    <3>1. UNCHANGED <<messages, send, job, jobs, accepted, disturbed, cancelled, overtaken>>
      BY <1>1, <2>2 DEF Dispatch, Poll, SkipEvent, Mark, MarkDispatched, FailPublication,
                        Reschedule, AbandonRun, sending, history
    <3>2. \A e \in Events : jobs'[e] # "none" => Message[e] # Nothing
      BY <3>1 DEF SendersInv, JobsHaveMessages
    <3> QED
      BY <3>1, <3>2, JobsChange
  <2> QED
    BY <2>1, <2>2
<1>2. ASSUME NEW s \in Senders, SetSending(s) \/ Accept(s) \/ Decline(s) PROVE SendersInv'
  BY <1>2, SenderGoesOn DEF SetSending, Accept, Decline
<1>3. ASSUME NEW s \in Senders, Record(s) \/ FailSend(s) PROVE SendersInv'
  <2>1. PICK ok \in BOOLEAN : Release(s, ok)
    BY <1>3 DEF Record, FailSend
  <2>2. send[s] # "idle"
    BY <1>3 DEF Record, FailSend, Outcomes
  <2>3. /\ send' = [send EXCEPT ![s] = "idle"] /\ job' = [job EXCEPT ![s] = Nothing]
        /\ \A e \in Events : jobs'[e] # jobs[e] => jobs[e] = s /\ jobs[e] # "none"
    BY <2>1, <2>2, ReleaseType, Limits DEF SendersInv
  <2>4. /\ UNCHANGED <<accepted, cancelled, overtaken>>
        /\ \/ disturbed' = disturbed \cup {InHand(s)} /\ UNCHANGED messages
           \/ /\ UNCHANGED disturbed /\ send[s] \in Outcomes
              /\ messages' = [messages EXCEPT ![InHand(s)] = send[s]]
    BY <1>3 DEF Record, FailSend, history
  <2> QED
    BY <2>2, <2>3, <2>4, SenderEnds
<1>4. ASSUME NEW e \in Events, Remove(e) PROVE SendersInv'
  <2>1. /\ UNCHANGED <<messages, send, job, accepted, disturbed, cancelled, overtaken>>
        /\ \A f \in Events : jobs'[f] # jobs[f] =>
              jobs[f] \in {"completed", "failed"} /\ jobs'[f] = "none"
    BY <1>4 DEF Remove, MessagingTypeOK, sending, history
  <2>2. \A f \in Events : jobs'[f] # jobs[f] => jobs[f] \notin Senders
    BY <2>1, Limits
  <2>3. \A f \in Events : jobs'[f] # "none" => Message[f] # Nothing
    BY <2>1 DEF SendersInv, JobsHaveMessages
  <2> QED
    BY <2>1, <2>2, <2>3, JobsChange
<1>5. CASE UNCHANGED messagingVars
  <2>1. UNCHANGED <<messages, send, job, jobs, accepted, disturbed, cancelled, overtaken>>
    BY <1>5 DEF messagingVars, sending, history
  <2>2. \A e \in Events : jobs'[e] # "none" => Message[e] # Nothing
    BY <2>1 DEF SendersInv, JobsHaveMessages
  <2> QED
    BY <2>1, <2>2, JobsChange
<1> QED
  BY <1>1, <1>2, <1>3, <1>4, <1>5, TakeKeeps, StallKeeps, CancelKeeps DEF MessagingNext

-----------------------------------------------------------------------------
(* The theorems about the outbox.                                          *)

LEMMA MessagingInitInv == MessagingInit => MessagingInv
<1> SUFFICES ASSUME MessagingInit PROVE MessagingInv
  OBVIOUS
<1>1. FailuresCounted
  BY Limits DEF MessagingInit, FailuresCounted, AtMost
<1>2. PublishedFirst
  BY DEF MessagingInit, PublishedFirst
<1>3. SendersInv
  BY DEF MessagingInit, SendersInv, JobsHaveMessages, SendersHoldJobs, AcceptedIsSent, CancelledStays
<1> QED
  BY <1>1, <1>2, <1>3, InitType DEF MessagingInv

LEMMA MessagingNextInv == MessagingInv /\ [MessagingNext]_messagingVars => MessagingInv'
<1> SUFFICES ASSUME MessagingInv, [MessagingNext]_messagingVars PROVE MessagingInv'
  OBVIOUS
<1>1. MessagingTypeOK /\ FailuresCounted /\ PublishedFirst /\ SendersInv
  BY DEF MessagingInv
<1>2. MessagingTypeOK'
  BY <1>1, MessagingTypeStep DEF SendersInv
<1>3. CASE \E d \in Dispatchers : Dispatch(d) \/ AbandonRun(d)
  BY <1>1, <1>2, <1>3, DispatchCounted, SendersStep DEF MessagingInv
<1>4. CASE ~\E d \in Dispatchers : Dispatch(d) \/ AbandonRun(d)
  <2>1. UNCHANGED <<events, run, batch, failures, published>>
    BY <1>4 DEF MessagingNext, Take, SetSending, Accept, Decline, Record, FailSend, Stall, Remove,
                Cancel, outbox, history, messagingVars
  <2> QED
    BY <1>1, <1>2, <2>1, CountedStays, SendersStep DEF MessagingInv
<1> QED
  BY <1>3, <1>4

\* What is counted, published and in hand agrees in every reachable state.
THEOREM MessagingInductive == MessagingSpec => []MessagingInv
BY MessagingInitInv, MessagingNextInv, PTL DEF MessagingSpec

\* The rows, the queue and the processes keep their types.
THEOREM MessagingTypeCorrect == MessagingSpec => []MessagingTypeOK
BY MessagingInductive, PTL DEF MessagingInv

\* However many dispatchers write over each other's rows, no event leaves PENDING
\* without its job added or its attempts used up (dispatchOutboxBatch).
THEOREM SettledHolds == MessagingSpec => []SettledForAReason
<1>1. MessagingInv => SettledForAReason
  BY DEF MessagingInv, FailuresCounted, PublishedFirst, SettledForAReason
<1> QED
  BY <1>1, MessagingInductive, PTL

\* The provider takes a message twice only after a crash, a stall or a lost write
\* of one who had it, for any number of dispatchers and senders (processMessageJob).
THEOREM SecondSendHolds == MessagingSpec => []SecondSendNeedsFault
<1>1. MessagingInv => SecondSendNeedsFault
  <2> SUFFICES ASSUME MessagingInv, NEW m \in Messages, accepted[m] > 1, m \notin disturbed
               PROVE  FALSE
    BY DEF SecondSendNeedsFault
  <2> QED
    BY DEF MessagingInv, MessagingTypeOK, SendersInv, AcceptedIsSent
<1> QED
  BY <1>1, MessagingInductive, PTL

\* A message cancelled while no sender had it is never sent again.
THEOREM IdleCancelHolds == MessagingSpec => IdleCancelIsFinal
<1> DEFINE Final == \A m \in cancelled \ overtaken : accepted'[m] = accepted[m]
<1>1. MessagingInv /\ [MessagingNext]_messagingVars => [Final]_messagingVars
  <2> SUFFICES ASSUME MessagingInv, MessagingNext PROVE Final
    OBVIOUS
  <2>1. CASE \E s \in Senders : Accept(s)
    <3>1. PICK s \in Senders : Accept(s)
      BY <2>1
    <3>2. Has(s, InHand(s))
      BY <3>1 DEF Accept, Has
    <3>3. \A m \in cancelled \ overtaken : m \in Messages /\ m # InHand(s)
      BY <3>2 DEF MessagingInv, SendersInv, CancelledStays, MessagingTypeOK
    <3> QED
      BY <3>1, <3>3 DEF Accept, MessagingInv, MessagingTypeOK
  <2>2. CASE ~\E s \in Senders : Accept(s)
    <3>1. UNCHANGED accepted
      BY <2>2 DEF MessagingNext, Dispatch, Poll, SkipEvent, Publish, Mark, MarkDispatched,
           FailPublication, Reschedule, AbandonRun, Take, SetSending, Decline, Record, FailSend,
           Stall, Remove, Cancel, history
    <3> QED
      BY <3>1
  <2> QED
    BY <2>1, <2>2
<1> QED
  BY <1>1, MessagingInductive, PTL DEF MessagingSpec, IdleCancelIsFinal
=============================================================================
