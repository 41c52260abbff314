# Pulso CRM: a TLA+ model, its checks and its proofs

Pulso CRM manages gyms: members, the periods they pay for, their current
account, the cash desk, access with a fingerprint reader, and the messages sent
to them. This directory models the parts of it whose correctness depends on an
order of events, in TLA+; TLC checks small instances, TLAPS proves theorems for
every value of the constants. Paths are relative to the repository.

## 1. Inventory

### How the system is built

- **API** (`apps/api`, NestJS): every operation of the CRM. It keeps its state in
  PostgreSQL (`packages/db/prisma/schema.prisma` and its SQL migrations, which hold
  the partial unique indexes, exclusion constraints and triggers). Requests run
  concurrently; the only shared state is the database.
- **Worker** (`apps/worker`): one process with two timers (`src/main.ts`), the outbox
  poll every two seconds and the membership sweep every hour, and a BullMQ consumer
  that sends messages, five at a time.
- **Local agent** (`apps/local-agent`, C#): runs beside the reader in each branch. The
  browser speaks to it over a WebSocket; it speaks to the API over HTTP.
- **Matcher** (`apps/biometric-matcher`, C#): a stateless comparison service.
- **Web** (`apps/web`, Next.js): pages, and clients of the API, the agent and the HID
  reader.
- **Packages**: contracts (schemas), config (pure helpers such as `billing.ts`), db, ui.

Components interact in three ways: transactions on shared rows (API and worker),
HTTP or WebSocket messages (web, agent, API), and rows that stand for messages
(outbox, idempotency keys, device tokens).

### Components

Status: M modelled, P partly, - not yet or not at all.

| Component | State | Operations | Interacts with | What is hard | What makes it correct | |
|---|---|---|---|---|---|---|
| Cash desk (`modules/cash/cash-session`, `cash-movement`) | cash sessions, closing details, movements | open, create movement, reverse, close | member ledger (a movement with a member posts an entry), memberships, inventory | close against writers of the same session under mixed isolation levels; status read outside the transaction | one open session per register and user; a closing counts its movements; an amount is undone once | P |
| Member ledger (`modules/members/ledger.ts`) | entries with a running balance, cached balance of the member | post an entry, recalculate | every operation that charges or collects, in API and worker | lost updates of the balance; deadlocks of row locks | the running balance is the sum; an operation's entries are atomic | M |
| Debt payment (`modules/members/member-payment.service.ts`, `packages/config/src/billing.ts`) | none of its own | quote, pay | ledger, cash desk, memberships | the quote confirmed is older than the ledger; loose credit; surcharge only once | what is charged is what was shown; periods owe their charge less what was paid | M |
| Memberships (`modules/memberships`) | periods, their recurrence | create, renew, cancel, configure the renewal | worker, ledger, cash desk | the worker renews the period the desk is looking at; anniversaries in short months | one recurrence, no overlap, what the desk stopped is not charged again | P |
| Renewal and expiration worker (`worker/src/jobs/membership-*.ts`) | none but the sweep's day and candidates | expire, renew, drop recurrence | memberships, ledger | stale candidates, a day that passes in mid-sweep, failures and restarts | no backlog of debts, no day lost, a due renewal is settled unless its plan has no price | P |
| Idempotency (`common/idempotency`) | one row per key | claim, complete, fail | every `@Idempotent()` handler | double clicks, retries, lost settling writes, takeovers | one effect per key, replays tell the truth | M |
| Local agent: operations (`Pulso.Agent.Core`, `Pulso.Agent.Host/Ws`) | active connection, operation slot, public state, tasks | connect, replace, start, cancel, stop, disconnect | web client, reader, backend | teardown that is not awaited; handles used after their end | one operation at the reader, Busy while it runs, an operation at the reader ends when asked to | P |
| Outbox and messaging (`worker/src/jobs/outbox-dispatcher.ts`, `send-message.ts`) | outbox events, message jobs | dispatch, send | BullMQ, provider | row locks that end with the SELECT; crash between publication and mark | at least once, never lost, cancelled messages stay cancelled | M |
| Biometrics (`modules/biometrics`) | consents, enrolments, credentials, device tokens | consent, enrol, identify, revoke | agent, matcher, access | status read before the transaction that writes it | no active credential without consent; an enrolment ends once | P |
| Agent registry (`modules/agents`) | agents, their status | pair, approve, revoke, heartbeat | biometrics, agent | approve against revoke | a revoked agent stays revoked | P |
| Refresh tokens (`modules/auth`) | token families | login, refresh, logout | all | concurrent refreshes of one token, a logout in between | one live token per family, none after logout, except behind a call that had read before | P |
| Access and attendance (`modules/access`) | access events, classes left | check, check for a member | memberships, ledger, biometrics | decision on a snapshot, recording later | an allowed access is backed by its state | P |
| Inventory (`modules/inventory`) | stock, sales, operations by key | sell, reverse, restock, adjust | cash desk | serialisation retries, stock bounds, own idempotency | stock is the sum of its movements, one effect per key | P |
| Users and roles (`modules/iam`) | users, roles | create, edit, deactivate, remove, reset a password | refresh tokens | counting the owners under a mutex row | one owner left | P |
| Branches and gym (`modules/tenancy`) | branches | edit, deactivate | all | counting under a mutex row | branch limit kept | - |
| Member registry (`modules/members`) | members, counter | create, edit | ledger | numbering under concurrency | numbers are never given twice | - |
| Audit buffer, heartbeat (`Pulso.Agent.Backend`) | queue of events | record, flush, heartbeat | API | bounded, loses on failure | bounded, in order, losses only where documented | - |
| Web HID session, agent client (`apps/web/lib`) | capture session, lock of the reader | start, stop, pause, resume, retry, probe, reader events | reader, other tabs, agent | callbacks and continuations out of order | the lock follows the use, nothing waits for ever | P |
| Catalog, reporting, daybook | rows; none | single-row edits; queries | - | nothing concurrent of their own | - | - |
| Matcher (`apps/biometric-matcher`, `modules/biometrics/biometric-matcher.ts`) | none | choose among candidates | biometrics, access | thresholds and ties | a member only with a margin over the others | P |
| Sensors, installer, desktop, pages, contracts | - | pure or I/O | - | out of a model's reach | - | - |

The hazards of this code, each at its line and with the properties that would catch
it, are listed in `PROJECT.json`. Two have no property among the runs: sessions opened at
the same time (`cash-session.service.ts:110`), of which `OneOpenSession` is proved, and
what the agent's audit buffer drops (`AuditBuffer.cs:40`, section 8).

## 2. Plan

The order follows what the gym would miss most: money first, then the periods
money is paid for, then the retries that could charge twice, then the machine at
the door.

1. `CashDesk` (with the abstract `CashBook`), proved.
2. `MemberLedger` (with the abstract `MemberAccount`), proved.
3. `MemberPayment`: composes what 1 and 2 justify (atomic operations) over one member; proved.
4. `AgentOperations`, proved.
5. `Memberships`, its safety proved.
6. `Idempotency`, proved.
7. `Biometrics` over `AgentRegistry`: consents, enrolments and device tokens step by
   step, with approval and revocation of the agent; proved.
8. `Messaging`: dispatchers, queue and senders, with their faults; its safety proved.
9. `Access`: the decision and its recording, after an identifier or a fingerprint; proved.
10. `HidSession`: the capture session of a tab; proved.
11. `Accounts`: sessions and owners; proved.
12. `Inventory` over `CashDesk`: stock, sales and keys at work with the desk; proved to
    refine the desk.

All of it is written, and every safety invariant that a run checks is proved. What is
left are models of the audit buffer, of the limit of branches and of the numbering of
members. No module that is proved about declares a RECURSIVE operator: recursion is
written as recursive functions and folds.

## 3. Modules

### CashDesk and CashBook

State: `sessions`, `movements` (the tables, as sequences: the index is the order of
commit) and `requests` (what each request in flight has read before its transaction).
`Open`, `CreateMovement`, `ReverseMovement` and `CloseSession` are the four operations;
the last three are preceded by the read they make outside the transaction
(`FindOpenSession`, `FindReversible`) or by the snapshot of the transaction itself
(`CloseSnapshot`). `PayDebt`, `CollectMembership`, `SellProducts` and `ReverseSale` are
the other writers of movements; `DeskStep` is all of them but the two sales, which
`Inventory` replaces by its own. The instant of commit of a transaction is one step.

The isolation levels are what matters here. `pay` and `sell` read the status of the
session in a SERIALIZABLE transaction, so a close that did not see their movement
fails (the guard with `SerializedOrigins` in `CloseSession`). `memberships.create` and
`renew` run READ COMMITTED under `FOR UPDATE` on the session: a close that waited for
that lock continues with a snapshot older than the movement. `create` and `reverse` read
the session before their transaction only; a movement committed between the
snapshot and the commit of a close is allowed and not counted, which over-approximates
PostgreSQL (it would refuse some of these interleavings).

A closing stores `seen` (how many movements its snapshot had) and `declared`; the
figures follow from them. Declared amounts, differences, row locks, formatting and the
operation requests (which nothing in this code creates as pending) are left out.

`CashBook` is the promise of `docs/` ADR-010: entries are only added, an entry is undone
at most once by its opposite, a seal never changes. `ImplementsBook` is the
refinement: a movement maps to an entry, a closing to a seal.

### MemberLedger and MemberAccount

State: `balance` and `ledger` per member, `tx` (the open transactions: operation, locks
held, entries posted and to post) and `begun`. `Plan(op, m)` is the sequence of row locks
of each operation in the order in which the code takes them (explicit `FOR UPDATE` and
the `FOR KEY SHARE` of foreign keys), `Postings(op)` the batches it posts. Actions:
`Begin`, `TakeLock`, `PostEntry`, `Commit`, `Refused` (PostgreSQL refuses a deadlock or a
SERIALIZABLE transaction on a newer row), `Fails`. `recalculate` is the repair that adds
the ledger up again (`NewBalance`); nothing in the code calls it. It locks the member before
it reads and until it commits, so its sum is taken at the commit. `MemberAccount` says that
a batch reaches the account at once; `ImplementsAccount` is the refinement.

### MemberPayment

One member; its transactions are atomic, which `MemberLedger` justifies. State:
`memberships` (how each period was charged), `entries` and `movements` (the rows of both
tables, by the period they belong to, as `buildQuote` groups them), `groups` (the order
of the groups, which is that of their first rows), `version` (`ledgerVersion`, here the
number of transactions that posted to the ledger) and `quotes` (what each desk was shown).
`BuildQuote` is the algorithm of `buildQuote`: loose credit spread over the groups, oldest
first, and a surcharge per period. Actions: `Assign`, `CreateMovement`,
`ReverseMovement`, `ShowQuote`, `Pay` (which builds the quote again and compares version
and total). The balance is the sum of the entries (`LedgerChain`). The open session is
assumed; clock skew between rows is not modelled.

### Memberships

One member, one branch, monthly plans. State per period: `status`, `start`, `until`
(the day after `endDate`), `recurs`, `next`, `anchor`, `parent`; and the worker's `stage`,
`sweepDay` and `left` (candidates). Dates are pairs <<month, day>>. `Create`, `Renew`,
`Cancel`, `EnableRenewal`, `DisableRenewal` are the desk's; each is one step because each
locks the member's row and reads the periods again. The sweep is `StartSweep` (which
captures the day), `ExpireMemberships`, `FindCandidates`, then per candidate
`RenewMembership`, `StopRenewal`, `SkipRenewal` or `RefuseUnpriced` (a due renewal throws
while its plan has no price); `FailRenewal` and `RestartWorker` are its faults. The catch-up loop of `membership-renewal.ts` is the closed form
`CurrentStart`; `MCMemberships` evaluates the loop and compares. `plan` (changed by
`ChangePlan`) merges the activity of member, plan and branch with the price of the plan:
offered, free or withdrawn; one plan for all periods. `halted` is a history variable: the
last period of each chain of renewals that the desk stopped and did not switch on again.
Class packs never renew and are left out.

### Idempotency

One key. Every query of `claim` is a step (`ClaimNew`, `InsertFails`, `Lookup`,
`ClaimAfterAll`, `ClaimFailed`, `ClaimStale`, and the refusals), `Commit` is the handler's
transaction, `Respond` and `HandlerFails` are the two branches of `tap`, and `Complete`
and `Fail` the writes the interceptor does not await: they happen later or, with `Lose`,
never. `CommitUnacknowledged` is a commit whose acknowledgement is lost. `claim` records
how a request came by the key; it is read by properties only. The endpoint is not
modelled: the code stores it and never compares it. Keys are not deleted by this code.

### AgentOperations

Variables follow the objects of the agent: `registry` and `link` (`ConnectionRegistry`,
the handler of each connection), `slot` (`SessionManager`), `stateBusy` (`AgentStateMachine`),
`phase`, `cancelled`, `disposed`, `reason`, `answer` (`OperationCoordinator`), and
`target`, `thread` (what a read loop holds in its hands). A step is what a thread does
between two points where another can interleave. `BeginAsync` is `TakeSlot`,
`AwaitTeardown`, `RefuseBusy`; then `OperationStarted`, `LinkTokens`, `Finish` or
`ObserveCancellation`, `OperationEnded`, `End`. Connections `Accept`, `CancelPrevious`,
`Disconnect`, `CancelOwn`, `StartOperation`, `AskToEnd`, `CancelHandle`. The other signals the
public state depends on are a nondeterministic answer at `OperationStarted`; the expiry
of the teardown's grace is nondeterministic; operation ids are unique; enrolment and
identification share a life cycle and are one kind of operation. `Blocked(c)`: the read
loop itself runs the synchronous part of a start. `CancelCurrentThrows`:
`Cts.Cancel()` runs continuations inline, so `CancelCurrent` can find its handle gone.

### AgentRegistry and Biometrics

A handler of the API reads, decides and writes in database steps of its own, so each call
is a process: `at[r]` says what it does next and `on[r]` about which agent, token or
enrolment; any call may also end there with an exception (`Abort`). `AgentRegistry` holds
`agent`, `paired`, `online` and `token` (unissued, live, dead: used, burnt or expired)
with the reads and writes of approval, revocation, pairing, heartbeat and the
authentication of a device token; `Biometrics` extends it with `consents` (numbered as
they are granted), `enrolment`, `credential` and `tenantKey`. The name of an enrolment
stands for its member, finger and agent (None for a reader of the browser). The delivery
of a template has the steps of the code: `Authenticate`, `ConsumeToken`, `ReadEnrolment`,
`RecheckConsent`, `Capture`, `Extract`, `ReadKey` or `CreateKey`, `Store`. Histories that
properties read: `served` (templates stored or probes resolved per token), `late` (calls
that hold a read older than the row), `overtaken` (enrolments whose consent was withdrawn
under a delivery). Templates are never compared: what the matcher finds is in `Access`.

### HidSession

One tab. JavaScript runs one callback at a time, so a step is what happens between two
awaits, timers or events. `ownership`, `lock` and `release` are the tab's part in the lock
of the reader (`locks.ts`), held by us, by another tab or by nobody; `arming` and
`current` are the arming in flight and whether `armGeneration` still agrees with it;
`fresh` and `stale` count the samples in process of this and of earlier generations;
`hold`, `retry`, `unplugged`, `waiter` are timers and promises. The rest of a `stop`, a
`pause` or a `probe` after its await is an action of its own (`EndStop`, `EndPause`,
`EndProbe`), whatever was called meanwhile. `overtaken` names which kinds of late
continuation have happened: the properties hold without them, section 7 says what
happens with them.

### Access

`Check` (an identifier) and `Probe` (a fingerprint) begin an attempt, which reads member,
membership and attendances in steps of their own (`ReadMember`, `ReadMembership`,
`ReadAttendance`), decides on what it read (`Verdict`, with the order of the checks of
`evaluateAccess`), and ends with one transaction (`Enter`, `EnterAgain`,
`EnterWithoutClass`, `Refuse`). `hurdles` are what bars a member whatever the membership;
the desk sets them, assigns and cancels periods, the worker expires them, and midnight
passes in between. `Matches` is the choice of `resolveMatch` over scores of credentials:
the best, over the threshold and, against the next member, by the margin. `changed` tells
which of the reads of a check are stale.

### Messaging

`events` (the outbox), `messages` (the rows of message jobs) and `jobs` (what the queue
holds per event: nothing, waiting, in the hands of a sender, completed, failed).
Dispatchers `Poll` a `batch` of rows and, oldest first, `Publish` and `Mark`, or `Reschedule`;
several may run, because the timer does not await the last run and several workers may
exist. Senders `Take` a job, `SetSending`, `Accept` or `Decline` (the provider) and
`Record`. Every await can fail and a worker can die anywhere (`AbandonRun`, `FailSend`,
`Stall`, `Remove` for the queue's own memory), as often as `MaxFaults` allows. Backoff is
over at any time. That no two events ask for one message is an assumption
(`MessagingAssumption`): nothing under `src` creates these events. An `add` that the queue
refuses, for whatever reason (a newer BullMQ may refuse the `:` in the id of the job), is
`FailPublication`, which may strike any publication, as often as it likes.

### Accounts

`tokens` are rows of refresh tokens with their family; a session is a family. Login and
refresh are a read (`ReadLogin`, `ReadRefresh`) and the writes that follow it
(`IssueLogin`; `IssueReplacement`, `Rotate`), in no transaction; `Abandon` ends a call
anywhere. `Logout`, `Replay`, `ResetPassword`, `Deactivate` and `Remove` end sessions.
`holders` is who holds the row lock of the OWNER role: what takes an owner away runs
`Request`, `Check` (which takes the lock), and the write or `RollBack`. Histories: `ended`
(sessions that were ended), `overtaken` and `forked` (sessions that outlive their end, or
have two live tokens, behind a call that had already read).

### Inventory

Extends `CashDesk`: a step of `ShopNext` is a step of the desk or of the inventory, and the
desk's `SellProducts` and `ReverseSale` occur only inside `Sell` and `ReverseSold`, which
change desk, stock and key in one commit. Every operation is a SERIALIZABLE transaction:
`Begin` takes the snapshot, the commit is refused when a row it locks, reads or inserts
was written since (`Undisturbed`), and `Retry` starts the transaction again, as
`mutate` does; `Answer` replays the response stored under the key; `CallFails` stands for
refusals, the last attempt and crashes. `moves` are the movements of stock in order with
their running balance, `operations` the responses by key.

### How modules fit together

```
MCCashDesk -> CashDesk --implements--> CashBook                InventoryProofs, first half
MCInventory -> Inventory -> CashDesk                           InventoryProofs, second half
MCMemberLedger -> MemberLedger --implements--> MemberAccount   MemberProofs
MCMemberships -> Memberships                                   MemberProofs
MCMemberPayment -> MemberPayment   (atomicity from MemberLedger)
                                                               MemberProofs
MCIdempotency -> Idempotency                                   DeliveryProofs
MCMessaging -> Messaging                                       DeliveryProofs
MCAgentOperations -> AgentOperations                           ReaderProofs
HidSession                                                     ReaderProofs
MCBiometrics -> Biometrics -> AgentRegistry                    BiometricsProofs
MCAccess -> Access             (follows an identification of Biometrics)
                                                               AccessProofs
MCAccounts -> Accounts                                         AccountsProofs
InventoryProofs, MemberProofs -> SumTheorems
```

A proof module that is about several components extends all of them: `MemberProofs` what
happens to one member, `ReaderProofs` the two programs that hold a reader, `DeliveryProofs`
what is retried until it is settled. The components that share a proof module have names
of their own for what every specification has (`PaymentInit`, `PaymentNext`, `PaymentSpec`,
`MembershipsSpec`, `MessagingSpec`, `HidSpec`, ...); they share no variable.

Definitions whose comment begins with "Mutant" or stand in a section of mutants
are plausible mistakes; no specification uses them, each shows that a property notices.

## 4. Runs

| Run | Question | Bounds and why they are enough |
|---|---|---|
| `cash_desk` | do reversals pair up, closings add up and count serialised collections, is the desk an append-only book? | one session, three movements, two requests: enough for a movement, two reversals of it in flight, and a close between them; two methods, one of them cash; 443 131 states |
| `inventory` | is every unit accounted for, do desk and stock agree, has a key one effect? | one product with one unit, three keys, two calls, three movements at the desk: two calls that race for the last unit, or for one sale's reversal, or with one key, while the desk closes or reverses; 0.67 million states |
| `member_ledger` | is a balance update ever lost, is an operation atomic, does every transaction end? | three transactions over one member and one session: cycles of two and of three waits, a recalculation beside two postings; amounts 1 and fee 2 tell batches and their prefixes apart; 94 685 states |
| `member_payment` | do quotes add up, is what is paid what was shown, is the surcharge charged once? | two periods, five transactions that post: a period charged, paid by transfer, reversed and paid again, beside another; 28 951 states |
| `agent_operations` | one operation at the reader, Busy while it runs, does it end when asked to? | two operations and two connections: a connection that replaces another while an operation is torn down and the next waits; 255 806 states |
| `memberships` | who recurs, what overlaps, what expires, what is charged, is a stop honoured, what settles? | three periods, months of two days and of one (the second day has to move), the four days from <<1, 2>> to <<3, 2>>, two start dates, one fault: a period, its successor and an assignment between them, or a chain of three; 333 282 states |
| `idempotency` | are replays faithful, when can a second effect occur? | three requests with one body and one with another: a request that fails and two that retry |
| `biometrics` | does a token serve once, what outlives a withdrawal, a revocation, a cancellation? | one agent, an enrolment by it and one in the browser of the same finger, an identification, one member with two consents, two calls: every pair of handlers between all their steps; 3.1 million states |
| `hid_session` | does the lock follow the use, does anything wait for ever? | one `start` that awaits the lock and one `stop` in its rest at a time (`MaxCalls`), two samples, two errors in a row: a callback of an outdated generation beside a current one, and the limit of errors reached; 2.5 million states |
| `access` | do packs and weekly limits hold, who enters that was barred? | two checks of one member in two branches, one period, two days of which the second begins no new week, three fingerprints of two members (a rival of the same and one of another member); 1.02 million states |
| `messaging` | is an event lost, a message sent twice or after its cancellation, does every event settle? | two events (one with a message, one that no queue takes), two dispatchers, two senders, two attempts, one fault: each fault against every state of the other three processes; 1.08 million states |
| `accounts` | does an owner remain, which sessions outlive their end, do rotations fork? | two users, one of them owner at first, two calls on sessions, two calls of the desk, three tokens, one new password: two refreshes of one token and an end between them, two removals of the last two owners; 2.0 million states |

Deadlock is not checked where the system may really stop: bounded counters are
used up, all requests have been answered, no operation is asked for. That nobody waits
for ever is `EveryTransactionEnds`, `CancelledOperationEnds`, `DueRecurrenceSettles`,
`EveryEventSettles` and, as a statement about what is under way in every state,
`NothingIsStuck`. Type invariants are named `TypeOK` (`PaymentTypeOK`, ... where a proof module
is about several components); they are part of the inductive
invariants of the proofs and, to keep the runs short, no run lists them.

### Fairness

- `MemberLedger`: weak fairness of each transaction's own next step, PostgreSQL's
  deadlock detection included. A waiter for `FOR UPDATE` can be overtaken for ever by new
  key shares; `MaxBegun` bounds how many transactions begin, so the liveness
  result is about deadlocks and not about starvation.
- `AgentOperations`: weak fairness of every task and every handler: .NET's thread pool
  runs continuations that are ready. None on `Finish`: an identification may listen for
  ever, and the reader may hang.
- `Memberships`: weak fairness of the sweep's steps: the timer fires every hour,
  `runMemberships` prevents overlapping sweeps, and a sweep that has candidates goes on with
  one of them (which one first is not assumed). A renewal that fails is left for the next
  sweep; `MaxFaults` bounds the failures of the database, and `RefuseUnpriced` is bounded by
  nothing. A due renewal is asked to settle only if its plan does not have a price of zero
  for ever, and not when the instance has no row left.
- `Messaging`: weak fairness of each dispatcher's next step: the timer polls every two
  seconds and a query or an `add` is answered or fails. None on senders, on the provider or
  on faults.

## 5. Properties

Each property is stated above its definition. The less obvious ones:

- `ReversalPairs`: a movement is marked exactly when one other undoes it, with the same
  session, method and amount, whichever requests had read it unmarked.
- `LockedCollectionsCounted`: payments and sales of a closed session are in its closing.
- `SalesMatchTheDesk`: a sale's units left once and came back exactly when the desk undid
  its income, by the movement the sale names; no income from sales is without a sale.
- `OneEffectPerKey`: duplicates in flight, retries after a conflict and retries after a
  lost answer neither sell twice nor lose the record of what they did.
- `LedgerChain`: each entry's `balanceAfter` continues the one before, and the cached
  balance is the last one's.
- `QuotesAreSound`: `QuoteAddsUp` and `CreditPaysOldestFirst`. `ChargesAreSound`:
  `SurchargedAtMostOnce` and `PeriodsOweTheirCharge`.
- `PaysAsQuoted`: no entry posted between quote and payment changes what is charged.
- `ReaderIsHeld`: `OneOperationAtATime`, `BusyWhileActive` and `UncancelledHoldsSlot`
  (tasks and connections that end late release nothing of others).
- `CancelledOperationEnds`: an operation that has the slot when the client asks for its end,
  or when its connection is replaced or lost (`Reached`), is over in the end. It does not
  speak of an operation that is asked to end while it waits for the slot: the request finds
  nothing (section 7), and that operation may go on for ever.
- `PeriodsInOrder`: only a member's last period recurs (`RecurrenceIsLast`) and what is
  expired is past (`ExpiredIsPast`). The exception are twins, two periods that start on the
  same day because the first was cancelled or expired.
- `RenewalFits`: a renewal keeps the anniversary and overlaps nothing, not even expired or
  cancelled periods, which the schema's exclusion constraint ignores.
- `WorkerChargesOnlyToday`: after any downtime, no backlog of charges.
- `StopsAreHonoured`: the desk cancels or switches off with the id it has on its screen,
  which the worker may have renewed once or more; no later sweep charges the chain again,
  until the desk switches its recurrence on.
- `DueRecurrenceSettles`: a due recurrence is renewed or dropped, whatever fails meanwhile,
  unless its plan stays without a price.
- `SecondEffectNeedsRace`: the exact circumstances under which one key has two effects.
- `NoConsentNoCredential`, `OnlyOvertakenCallsOverwrite`: a withdrawal or a revocation is
  final but for the calls that had read before it; `RevokedAgentConsumesNothing` has no such
  exception.
- `LockFollowsUse`, `NothingIsStuck`: the session of a tab with every late continuation,
  except those `overtaken` names.
- `BarredStaysOut`: what a check may miss is what changed while it ran, nothing older.
- `SettledForAReason`: a status of the outbox is backed by what happened to the queue,
  whatever several dispatchers write over each other's rows.
- `IdleCancelIsFinal`: a cancellation that finds no sender with the message in hand is final.
- `LiveSessionsAreCurrent`, `RotationKeepsOneLive`: a session outlives its end, or has two
  live tokens, only behind a call that had already read what it needed.

Where a property has an exception ("except", "unless" in its comment), the exception is a
history variable that names the race, so that what remains is exact: the run would fail
without it, and section 7 tells the race.

## 6. Proofs

TLAPS proves, for every value of the constants (under each module's named
assumptions, which TLC evaluates in the runs):

| Module | Theorems | Inductive invariant |
|---|---|---|
| `InventoryProofs`, on the desk | `TypeCorrect`, `Inductive`, `OneOpenSessionHolds`, `ReversalPairsHolds`, `CollectionsCountedHolds`, `FinalHolds`, `ImplementsBookHolds`, `DetailsAddUpHolds` | adds that what a request read still exists and is no reversal (`RequestsOK`), and that a movement undoes an earlier one (`MovementsOK`). Without them a stale request could undo a reversal. That closings add up needs no invariant but `TypeOK`: it is about sums |
| `InventoryProofs`, on the shop | `ShopInvariant`, `ShopRefinesDesk`, `ShopKeepsTheDesk`, `StockIsCountedHolds`, `FullInvariant`, `SalesMatchTheDeskHolds`, `OneEffectPerKeyHolds` | the invariant of the desk, well-formed rows and calls and the counted stock (`ShopInv`); the desk spares the movements of sales and each sale is as the desk has it (`DeskOK`); the units of each sale, by the movements that bear its number (`MovesOK`); keys and effects name each other (`KeysOK`) |
| `MemberProofs`, on the ledger | `TypeCorrect`, `Inductive`, `ExclusionHolds`, `LedgerChainHolds`, `ImplementsAccountHolds` | adds that locks exclude each other, that nobody posts before the whole plan is held (`PlanKept`), that the entries of an open transaction continue the committed ledger (`PostedChain`), and, for the refinement, that what a transaction posted and has to post is one batch of its operation (`BatchesKept`). That a recalculation changes no balance follows from the chain: the entries add up to the last `balanceAfter` (`LedgerAddsUp`, by the lemmas about sums) |
| `MemberProofs`, on the periods | `MembershipsTypeCorrect`, `MembershipsInductive`, `PeriodsInOrderHolds`, `WorkerChargesOnlyTodayHolds`, `RenewalFitsHolds`, `StopsAreHonouredHolds` | adds that rows have ordered dates, renewals begin after the end of their period, candidates exist and the sweep's day is past; for `RenewalFits` beside it that every period begins, ends and is next renewed on its anchor day (`AnchorsKept`), so that no short month moves the anniversary for good; for `StopsAreHonoured`, that what was halted exists and does not recur (`HaltedIsOff`), which holds because a stop reaches the last period of its chain and a renewal hands on the recurrence it found. Lemmas about the calendar hold for any month lengths |
| `MemberProofs`, on the payments | `PaymentTypeCorrect`, `PaymentInductive`, `QuotesAreSoundHolds`, `ChargesAreSoundHolds`, `PaysAsQuotedHolds` | every group with rows has one place in the order (`GroupsOK`); a period is surcharged once at most, and never when it was charged by transfer, of which a movement is the memory, and it owes its charge and fees less its movements (`PeriodsOK`); the quote on a desk is older than the ledger or still its quote (`QuotesKnown`). `PaysAsQuoted` also needs sums: of two quotes of one version, by different methods, equal totals mean that no line has a surcharge |
| `ReaderProofs`, on the operations | `TypeCorrect`, `Inductive`, `ReaderIsHeldHolds` | holds the slot from the moment it is taken (`BegunHoldsSlot`), not only while active, so that `OperationStarted` keeps it |
| `ReaderProofs`, on the session | `HidTypeCorrect`, `HidInductive`, `LockFollowsUseHolds`, `NothingIsStuckHolds` | the lock is held by whoever will release it, one call asks for it at most, and reader events are heard and armings under way only while it is held; a stopped session is at rest once its `stop` calls have ended; an armed session owns the reader; samples are processed under the lock, one at a time; what a transient state waits for is under way and of the current generation, or an interruption that will look at it is. All of it but where a late continuation named in `overtaken` struck |
| `DeliveryProofs`, on the keys | `TypeCorrect`, `Inductive`, `ReplayIsFaithfulHolds`, `SecondEffectNeedsRaceHolds` | the hash of the row is fixed (`BodyFixed`), stored, read and pending responses stand for effects (`ResponsesAreEffects`), and a key that is or was read as failed was failed by a request that is over (`FailuresHaveAuthors`) |
| `DeliveryProofs`, on the messages | `MessagingTypeCorrect`, `MessagingInductive`, `SettledHolds`, `SecondSendHolds`, `IdleCancelHolds` | no row counts more attempts than publications failed (`FailuresCounted`); a row is marked only after its job was added (`PublishedFirst`); a sender that nothing disturbed holds its job alone (`SendersHoldJobs`); what the provider accepted is SENT, or its sender is about to say so, or it was disturbed (`AcceptedIsSent`); what was cancelled with no sender at it stays so (`CancelledStays`) |
| `BiometricsProofs` | `TypeCorrect`, `Inductive`, `TokenServesOnceHolds`, `NoConsentNoCredentialHolds`, `ClosedEnrolmentHolds`, `OnlyOvertakenHolds`, `RevokedAgentHolds` | what a call may be about at each of its steps, given what the others are doing (`Fine`), and what holds between tokens, enrolments, consents and credentials (`Sound`) |
| `AccountsProofs` | `TypeCorrect`, `InductiveInvariant`, `OwnerRemainsHolds`, `LiveSessionsHolds`, `RotationHolds` | a call of the desk that passed its check holds the lock and its count is still true (`TasksOK`, `LockOK`); a family is of one user and ends as a whole (`FamiliesOK`); a call not yet overtaken read what still holds (`CallsInOrder`); a session has one live token that no call is replacing (`Rotation`) |
| `AccessProofs` | `TypeCorrect`, `Inductive`, `ClassesAddUpHolds`, `WeeklyLimitHoldsAlways`, `BarredStaysOutHolds`, `ReentryHasEntryHolds` | for each of the three reads of a check, that what it returned is still so or is named in `changed` (`CallsKnowWhen`, `CallsKnowHurdles`, `CallsKnowPeriod`); that a counted entry still exists (`CallsKnowEntry`); that the days of the week a check counted are no fewer than those there are, since what another check records meanwhile is of the same day or late (`CallsKnowDays`); and that entries are on memberships of their member and of no later day (`EntriesOK`) |
| `SumTheorems` | lemmas only | sums of integer functions over finite sets: independence of the order, one changed value, bounds, and the sum along an order of the members; used by `InventoryProofs` and `MemberProofs` |

The layout is the same everywhere: lemmas group the actions by what they disturb
(a step that only adds movements, a step that makes no operation active), each part of
the invariant is shown to survive each group, and the last step of a theorem is PTL.

Three theorems are refinements. `ShopRefinesDesk` says `ShopSpec => Spec`: with the
inventory at work the cash desk is still the cash desk, so what is proved of it holds there
too (`ShopKeepsTheDesk`). `ImplementsBookHolds` and `ImplementsAccountHolds` show, action
by action, that a step of the detailed specification is a step of the abstract one or a
stutter of it, from the inductive invariant: a reversal may undo an entry once only because
of `ReversalPairs`, a commit is a batch only because of `BatchesKept` and `PostedChain`.
`OneOpenSession`, `Exclusion` and `ClosingsAndMovementsAreFinal` are proved although no
run checks them.

The library's induction theorems take an operator as a parameter and cannot be used.
What has to be shown for every number, or for every finite set, is stated of a set of
numbers instead (`Least`, `UpToN`) or of a set of subsets (`MemberByMember`), where the
well-foundedness of `<` on `Nat` is enough. From these follow, in `SumTheorems`, that the
sum of a function over a finite set does not depend on the order in which it is folded,
that one changed value changes it by the difference, that it splits by the kind of its
members, and that a sum along an order of the members is the sum over the set. These
lemmas give `DetailsAddUp`, and of a quote that its lines sum to the debt: the credit that
is left after each group is a recursive function over the order of the groups, which is
shown to be used up whenever the member owes anything. `CashDesk` and
`MemberPayment` sum with the folds of the community modules, so no RECURSIVE operator is
in the way.

The constants of each module have the assumptions that the code justifies and no others.
`Access` assumes that hurdles are among the three that `evaluateAccess` knows apart from
the membership, and that first days of periods are integers.

Only model-checked:

- liveness under fairness (`EveryTransactionEnds`, `CancelledOperationEnds`,
  `DueRecurrenceSettles`, `EveryEventSettles`): the prover has neither ENABLED nor the rules
  for WF and SF.

## 7. What the modelling showed

### The code against its own words

1. `memberships.service.ts:88-89` says "Cash close cannot race an immediate collection".
   The close reads the movements in the snapshot its transaction took before it waited for
   the session's lock (`cash-session.service.ts:264`): a membership collection that commits
   meanwhile is missing from the closing. `LockedCollectionsCounted` is about payments and
   sales only for that reason.
2. `cash-movement.service.ts:227` and `session-lookup.ts:56-57` say that a movement needs an
   open session; `create` and `reverse` read its status before their transaction
   (`cash-movement.service.ts:101`), so either can land in a session closed since.
3. `AgentWebSocketHandler.cs:62` says that the operation of a connection that was still the
   active one is cancelled when it closes; line 63 cancels whatever is current, an operation
   of a newer connection included.
4. `OperationCoordinator.cs:346` says of `identify.stop` "termina el loop"; line 350
   finds nothing while the operation waits for its slot, and it then listens for ever.
5. `idempotency.interceptor.ts:27-28` says that retries "producen un solo efecto"; two
   retries that both read the key as failed (152) both execute.
6. `agent-auth.service.ts:84-86` puts the consumption of a device token inside the
   operation's transaction, so that a request that fails does not burn it; it is consumed
   before the request is validated.
7. `auth.service.ts:372-373` says that choosing a branch keeps the session's id;
   `auth.controller.ts:97` passes the gym's id in its place.
8. The class comment of `AuditBuffer` says that it goes on accumulating while the backend is
   down; `FlushAsync` drops the batch it took when sending fails or there is no credential.
9. `biometric-matcher.ts:186-188` promises no match when two candidates are closer than the
   margin; the code compares the best with the second best only, so another member's
   score behind a second fingerprint of the best goes unseen.

### Races the histories name

- `Biometrics`: an approval, a cancellation or a completion decided on a status read before
  its transaction overwrites a revocation or a completion (`late`); a consent withdrawn
  while a template is encrypted leaves a credential in force (`overtaken`). Two pairings of
  one secret overwrite the agent's credential; of two first enrolments of a gym one fails
  on the key the other created.
- `Accounts`: a refresh that read its token before a logout, a replay or a new password
  issues a live token after it; two refreshes of one token fork the family. A refresh never
  looks at the user's status or the gym's.
- `Messaging`: a message cancelled while a sender has it in hand is set to SENDING and sent;
  a dispatcher that comes late writes PENDING or FAILED over DISPATCHED; the locks of the
  `FOR UPDATE SKIP LOCKED` end with the SELECT, so two dispatchers take one batch, and only
  the job's id keeps the queue from two jobs.
- `HidSession`: what is left of a `stop()` tramples a newer `start()`; a lock granted after
  `stop()` is kept for ever; `arm()` joins an arming that is outdated and the session stays
  RECOVERING with no timer; `pause()` while a result is shown leaves `busy` set (only tests
  call `pause`).
- `Access`: when two checks race for the last class, the loser's decrement fails the check
  of the column (migration `20260809185900`, line 92) and its attempt ends unrecorded.

### Also seen

- An undeclared cash method has a detail row but is not in `expectedCash`
  (`cash-session.service.ts:299`, against the comment at 352), and the opening amount
  enters no figure when no cash method was declared (297-298, 312).
- `pay` locks the member (`member-payment.service.ts:33`) and then the session (45), a
  membership collection the other way round, against `memberships.service.ts:88`:
  they can deadlock, and PostgreSQL refuses one (`EveryTransactionEnds` relies on it).
- When `OperationStarted` throws after the slot was taken (`OperationCoordinator.cs:42`)
  the dead operation keeps the slot until a connection ends; a source disposed before
  `LinkTokens` (48) leaves the agent Busy; the slot is free while Busy between the two
  statements of the `finally` (205-209); a cancellation can be answered by the outcome
  (338); cancelling a disposed source ends the connection (364); and if `CancelCurrent`
  throws in `Accept` the registry keeps a connection that is gone.
- Of two twins (periods with the same start day), renewing one at the desk makes the
  worker drop the other's recurrence, and a renewal of one may overlap an expired twin
  with another anchor; a cancelled later period blocks the renewal of the earlier one.
- The interceptor does not compare the endpoint of a key, and takes any error of its
  insert for a key that exists.
- A check takes the membership with the latest start, also one that has not begun while an
  older one is in force; cancelled memberships are never selected, so the refusal
  MEMBERSHIP_CANCELLED cannot occur.
- A recurrence whose plan's price is edited to zero (which `plan.service.ts` and the schema
  accept) throws in every hourly sweep (`membership-renewal.ts:116`): it is neither renewed
  nor dropped as `INELIGIBLE_OR_SUPERSEDED`, until the price or the recurrence is edited.
- `recalculateMemberBalance` (`ledger.ts:116`) has no caller.
- `branch.service.ts:94` reactivates a branch without looking at the limit.
- Nothing under `src` creates a message job or calls `writeOutboxEvent`, and the only
  provider is the mock.

## 8. What is not modelled

The components without a module in section 1:

- the agent's audit buffer, a bounded queue that loses what it cannot deliver: the loss is
  what the code does, and no promise about the rest involves a second actor;
- branches, catalog, the members registry: edits of single rows, one of them under a lock
  (the limit of branches) and one over a counter (the numbering);
- reporting and the daybook, which only read; pages, installer, desktop shell, sensors,
  contracts and configuration: presentation, set-up, drivers and types. They are most of
  the lines of the repository, and what a model could say of them is not in their order of
  events.

In the modelled ones: authorisation, tenancy (each model is one gym; every query is scoped
by the Prisma extension), validation of shapes, audit rows, formatting and logging, queries,
and PostgreSQL, BullMQ and the browser, whose locks, isolation levels and timers are
modelled by what this code relies on and marked external in `PROJECT.json`. By module:

- `Memberships`, `Access`: plans that are neither monthly nor packs of classes;
  checks that register no attendance.
- `AgentOperations`: the captures within an operation, `hello` and `ping`.
- `AgentRegistry`, `Biometrics`: deletion, names, the rotation of keys, and ciphers.
- `HidSession`: the watchdog for silence, which only warns, FINGER_DETECTED, acquisitions
  that a reader goes on with after it was outdated, and the client of the agent.
- `Accounts`: the counter of failed logins and its lock, the expiry of tokens, other roles,
  the suspension of a gym, and what a user may not edit of oneself.
- `Inventory`: the creation of products, the count of attempts, the order of row locks (the
  code sorts them by product), and the deferred trigger of migration
  `20260904190000_inventory`, which backs what `SalesMatchTheDesk` says of the code.
