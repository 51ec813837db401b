# Verification of bunker-map

TLA+ models, TLC runs and TLAPS proofs about the control of the bunker-map platform. The platform is a Next.js
application over one Postgres database. Most of what must not go wrong is decided in the database's functions
(`supabase/migrations`), by workers that live outside the web process (an Azure Automation runbook, cron routes) and by
a browser extension that works on a desktop. Those are the parts where several actors share state, calls are lost or
repeated, leases run out and processes die; they are what is modelled here.

Modelled are six of them: the two that can do damage nobody can take back, the queue that carries the shared address
book to Microsoft Exchange and the queue that posts enquiries to WhatsApp groups; the copies of enquiries that Backup
Mode sends to a trader's phone; the enquiries themselves, the fixtures that STEM makes of them and the extension's board
that follows them; the outbox that carries meetings to Google; and the notices of System Health.

| module | what it is |
| --- | --- |
| `ExchangeSyncQueue` | the Exchange queue, its lease, the reservation route, the worker in both modes |
| `TrackedMirror` | its abstract specification: a mirror whose lag is always recorded as owed |
| `ExchangeSyncQueueMC` | instances for TLC |
| `ExchangeSyncQueue_Proofs` | type correctness and the inductive invariant, the exclusive lease, exact certificates |
| `ExchangeMirror_Proofs` | the refinement of `TrackedMirror`, and what the lease guards, for all constants |
| `ExchangeRows_Proofs` | the life of a row: one row of a key at a time, the retry limit, finality |
| `SpcGroupDelivery` | the SPC group queue and the WhatsApp dispatcher extension |
| `OneSubmission` | the abstract specification of both deliveries: at most one permitted submission of a job |
| `SpcGroupDeliveryMC` | instances for TLC |
| `SpcGroupDelivery_Proofs` | type correctness, every safety property, the refinement of `OneSubmission`, for all constants |
| `SpcMobileDelivery` | Backup Mode: its switch, prompt, answers, and the requests that work its queue off |
| `SpcMobileDeliveryMC` | instances for TLC |
| `SpcMobileDelivery_Proofs` | type correctness, every safety property, the refinement of `OneSubmission`, for all constants |
| `SpcEnquiries` | enquiries and STEM fixtures: every request that writes them |
| `SpcEnquiryFeed` | the same with the board that polls them |
| `SpcEnquiryFeedMC` | an instance for TLC |
| `SpcEnquiryFeed_Proofs` | type correctness and every property of both, for all constants |
| `EventCalendarSync` | the outbox of changed meetings and the route that rewrites their Google records |
| `EventCalendarSyncMC` | instances for TLC |
| `EventCalendarSync_Proofs` | type correctness, one worker per event, convergence, rewriting under a lock, for all constants |
| `HealthAlerts` | the incidents of System Health, their claims and their mails |
| `HealthAlertsMC` | an instance for TLC |
| `HealthAlerts_Proofs` | type correctness and every safety property, for all constants |

## Inventory

The paths below are relative to `src/`. "M" is modelled, "P" is planned, "-" is left out (see the end).

### The shared address book and Exchange (M)

State: `shared_addressbook_contacts/groups/members` (the authority), `outlook_exchange_sync_queue`,
`outlook_exchange_sync_lock` (one row), `outlook_exchange_sync_certifications`, the objects in Exchange Online, and the
runbook's script variables. Operations: every edit fires a trigger that coalesces into a pending row or appends one;
`claim_…`, `complete_verified_…`, `certify_full_…` and the lock functions; the route
`app/api/outlook-addressbook/exchange-sync/route.ts`, which reserves the lease and starts a worker by webhook; the
runbook `scripts/azure-automation/sync-fcuno-outlook-addressbook.ps1`, in an incremental mode (claim a batch, reconcile
row by row) and a full mode (rewrite everything, verify, certify). Hard: two workers at once, a worker that dies with a
command under way, an RPC whose answer is lost, an edit during a reconciliation, claims that expire, a certificate that
must describe one instant. Correct means: nothing Exchange lacks is ever forgotten, nobody writes concurrently, a
certificate is true when it is written, the backlog drains.

### SPC group delivery and the WhatsApp dispatcher (M)

State: `spc_group_delivery_jobs`, `spc_group_dispatchers` (one active), per tab a content script, per device a background
script with permits and debugger queues, and WhatsApp itself. Operations: enqueue with the enquiry, pair and revoke a
dispatcher, claim, prepare (the one-shot permit), press Send, verify, complete; cancelling the enquiry deletes the job.
Hard: a message cannot be unsent, so each of lost answers, repeated requests, reloaded tabs, stopped background scripts,
replaced devices and expired leases must end in at most one submission or in a person's hands. Correct means: never
twice, never behind the back of the person asked to check, and never stranded.

### SPC mobile delivery, "Backup Mode" (M)

State: `spc_mobile_modes` (enabled, expiry, token, activation status, 24-hour window) and
`spc_mobile_enquiry_deliveries`. Operations: switch on and off, expiry, copying an enquiry, the trader's answer by
webhook, and `processSpcMobileEnquiryQueue`, which cron, every new enquiry and the webhook all call. Hard: there is no
worker and no lease; requests overlap, are killed at their time limit, and meet only in updates that compare a status.
Correct means: no message twice, none after a person was asked to look, no label without its content, and no copy
forgotten while the window is open.

### SPC enquiries, STEM fixtures, the extension's board (M), suppliers (P)

State: `spc_enquiries`, `spc_fixtures`, what each browser asked and heard, the board's cache and cursor. Operations:
create, amend, reoffer, STEM, LOST, POSTPONE, CANCEL, fixture notes, the Lost Record's review; save, complete and delete
a fixture; poll. Hard: a request loads a row and writes it requests later, an answer is lost and the request repeated,
two tabs edit one enquiry, and the board reads rows and ids one after the other while they change. Correct means: STEM
and fixture are one, "saved" is true and not done twice, no late writer drops words or revives what ended, and the board
misses no version. Suppliers are versioned saves of single rows.

### Sign-in: SPC limits, WhatsApp challenge, sessions, administrator continuity; admin sessions; FCUNO OIDC (P)

Counting windows over attempts, a challenge that is issued, verified, locked and consumed once, sessions bound to the
user version that was verified, revocation by password rotation and by a logout at FCUNO, and the rule that an active
administrator remains. Hard: each of these is a check in one call and a use in another. Properties: no session survives
the change that revokes it; a challenge is consumed once; the ceiling of wrong codes holds across challenges.

### Event calendar and Google (M)

State: the canonical calendar document, `event_calendar_google_sync_jobs`, Google's events. A trigger queues each changed
meeting under a new generation; a worker claims jobs for five minutes, rereads the canonical event before and after its
writes, removes duplicates, and acknowledges only the generation it took. Properties: a newer generation survives the
acknowledgement of an older one; a queue without jobs means one Google record equal to the canonical event.

### System-health alerts (M) and Exchange alerts (P)

State: `system_health_alert_incidents` per recipient and check, and what each run has read. Operations:
`claim_system_health_alerts` (open, resolve, lease), one mail, `finish_system_health_alerts`. Hard: cron and manual runs
overlap and report in another order than they read; a mail is accepted and its acknowledgement lost; an incident
resolves and returns while a mail about it is under way. Correct means: one mail per level and incident but for faults,
no notice recorded that did not arrive, the incident as the latest reading says, and a lasting problem comes to be known.

### Price setter and report publication (P)

Creation receipts owned by an actor, one pending at a time, acknowledged later; versioned saves; a publication that reads
one snapshot. Properties: a lost answer never yields a second port; a published set comes from one state.

### Attendance (P)

Punches and calendars bump a source revision under a row lock; a month is confirmed against the revision its view showed
and not while an unresolved sync failure covers it. Property: a confirmed month was confirmed from what it still contains.

### Outlook insertion audit, phonebook CardDAV, backups (P)

Append-only reservations and terminal events under two advisory locks; a versioned queue with a write lease and a
quarantine before each deletion; an export that must see one epoch, a lease, and clocks of uncovered gaps. Properties:
one terminal event for each reservation; no card is deleted that was not quarantined; an artifact is never a mixture.

### The rest (-)

CCINFO folders, phonebook and Taiwan saves, parser reviews, permission groups and e-mail templates are single
transactions with a version check. The audit log and the Exchange truth ledger are written inside transactions already
modelled. Browser-side caches, parsers and pages hold no shared state.

### How they interact

The address book's trigger writes the queue in the editing transaction; the web route and the schedule start runs, which
meet only in the lock row and the queue. An SPC enquiry writes its delivery jobs in its own transaction, and its
cancellation deletes them; devices meet the queue only through three functions. Backups fence every table by an epoch.
The parts share no other mutable state, so each is a specification of its own and none is composed with another yet.

## ExchangeSyncQueue

### State and code

| variable | code |
| --- | --- |
| `src`, `exch` | version of an entity in `shared_addressbook_*`, and of its projection in Exchange |
| `queue` | `outlook_exchange_sync_queue` by `queue_sequence`; `next` is `next_attempt_at` (null, in the future, reached), `stale` is `claimed_at` older than 20 minutes |
| `lock` | the row of `outlook_exchange_sync_lock`; `live` is "not expired" |
| `fence`, `ahead` | whether the newest `(updated_at, queue_sequence)` moved since a run read it; whether a worker's clock has stamped a row into the database's future |
| `certified` | `outlook_exchange_sync_certifications` |
| `pc`, `mode`, `batch`, `row`, `view`, `seen`, `todo`, `cmd`, `tries`, `ok` | the runbook, by run id: where it is, the claimed rows left, `$script:CanonicalExchangeRows`, the entities read so far, the entities to write or compare, the command under way, the tries of an RPC, and whether the run failed a row |

`SourceChange` is the trigger in the transaction of the edit. `Reserve`, `ReserveRejected`, `NeverStarts` are the web
route; `Start`, `StartUnanswered`, `Denied` the acquisition of the lease. `Claim` is one call of the claim function: its
repair of terminal rows, expiry of claims, choice of the oldest row of each key, and stamp. `LoadOne` reads one of the
canonical tables (edits may come between two of them). `Issue`, `Land`, `CommandFails`, `LateLanding` are an Exchange
command: issued, confirmed, failed with or without effect, or effective after its client died. `CompleteRow`,
`CompletionAbandoned` and `PersistFailure` settle a row, `CompleteRow` with the retries of an ambiguous RPC. `Check`,
`Reread` and `Certify` are the verification; `Release`, `Crash` and `Recycle` the end of a run.

### What is abstracted

* The content of an entity is its version. What a projection does to e-mail addresses and members is left to a module of
  its own; here a reconciliation rewrites its entity and the groups it is in (`Peers`).
* Time is the events of its deadlines. A lease runs out only when its holder's claims are stale already: each claim
  renews the lease for at least 30 minutes and a claim is stale after 20. The periodic renewal between two commands is
  more frequent than the lease is long.
* A completion is processed before its caller gets an answer or gives up; it does not reach the database later. A command
  to Exchange, in contrast, may take effect after its worker died.
* The order of rows within a batch is free (the code sorts creations, groups, deletions). The path that skips a row whose
  entity type is unknown is left out. Run ids are fresh: `Recycle` stands for a new one.
* The worker renews the lease before a claim and before the completion of a row, and then calls a function that does not
  look at the lease; here the renewal and the call are one step. What could come between is a lease that runs out under a
  live worker, which the next assumption is about.
* A view of the address book is cached for the batch and written as cached. Before some commands the code reads the one
  source row again, so the model allows writes that are older than the code's, and no fewer.
* `LeaseOutlivesStalls` is the assumption that the lease of a live worker does not run out wherever it is in its work: no
  command, call or pause is longer than what the last renewal granted. The lease of a full run lasts 180 minutes so that a slow command "cannot expose a second writer" (the
  repository's README); an incremental run's lasts 30. Every theorem that depends on the assumption says so; `exchange_zombie` shows what holds without it.

### Properties

* `Promise`: an entity Exchange shows out of date is spoken for by an unresolved row. This is what coalescing, expiry,
  supersession of terminal failures and certificates could each break.
* `MutationLeaseExclusive`: commands of two runs are never under way together.
* `ExclusiveKey`, `RetryBound`, `Finality`: rows of a key are processed one at a time, a row out of attempts is terminal,
  a settled row is never settled again by a late PATCH, a repeated completion or a sweep.
* `CertifiedExact`: Exchange equals the address book when a certificate is committed.
* `ImplementsMirror`: every step is a step of `TrackedMirror` or leaves it alone.
* `LeaseComesFree`, `BacklogDrains`: the lease is free again and again; every row is resolved or terminal in the end.

### Runs

| run | instance | shows |
| --- | --- | --- |
| `exchange_full` | full and incremental runs, one edit of each of two entities, a worker clock that may differ from the database's | `IInv` (the invariant of the proofs), `CertifiedExact` against edits during the verification, `ImplementsMirror` |
| `exchange_zombie` | two actors edit one membership, two runs; leases may run out under a stalled worker | what holds without the assumption, while rows of the key pile up, one per actor and claim: `TypeOK`, `ExclusiveKey`, `RetryBound`, `Finality` |
| `exchange_live` | two runs and one crash, repeated RPCs, two changes of one membership | `Promise`, `MutationLeaseExclusive`, `LeaseComesFree`, `BacklogDrains` |

Two versions per entity (one in `exchange_full`, whose runs start with nothing to do) are enough for an edit before and one
after any read; two rows for one that is claimed while another is pending or terminal; two runs for every conflict over the lease; two attempts for one retry and its
exhaustion. Entities beyond a contact and its group only add independent copies.

### Fairness

The schedule keeps starting runs under fresh ids, so `Start` and `Claim` are strongly fair: a database that is reachable
again and again is reached. A worker that is alive takes its next step (weak fairness of `WorkerStep`); it may fail at
every step. Clocks advance (weak fairness of the deadlines). Edits, crashes and late landings are not fair.

### Proofs

`ExchangeSyncQueue_Proofs` proves `TypeCorrect` (`Spec => []TypeOK`) and, from `LeaseOutlivesStalls`, `Invariance`
(`Spec => []IInv`), for any entities, keys, runs and bounds. `Promise` is not inductive. What makes it so is
`LeaseHeld` (a run that works or left a command behind holds the lease, so there is one writer), `ViewLag` (what a run
read and the address book has moved past is *pending* again: only a claim could take it off the queue, and only the
holder claims), `Written` (Exchange shows what the run read once it was written), `Checked` (the same for what the
verification has compared) and `Shape` (how the bookkeeping goes with the place). The argument: a completion is accepted
at `"rpc"`, where `exch = view` for the row's entity, and `view` equals `src` unless a pending row, which is another row,
speaks for the entity. One lemma for each action; `PromiseKeptAlways` is the corollary.

Its other corollaries are `LeaseExclusive` and `CertificatesExact` (the certificate's transaction finds no pending row,
so every `view` is current, and each entity has been compared).

`ExchangeMirror_Proofs` proves `QueueImplementsMirror`, step by step: an edit is a `Change`, a command that takes effect
is a `Write`, a completion or certificate is a `Discharge`. The contract does not know who acts and accepts any
unresolved row as a debt; `LeaseGuardsAlways` says more: Exchange changes, and rows are completed or skipped, only while
some run holds the lease, and a row only when Exchange shows its entity exactly or a *pending* row, a later change,
speaks for it.

`ExchangeRows_Proofs` proves `ExclusiveKeyAlways`, `RetryBoundAlways` and `FinalityAlways` without `LeaseOutlivesStalls`,
from the types alone: one lemma says what each step but a claim may do to a row (`Moves`), another that a claim, having
expired what is stale, takes at most one row of a key, and none of a key that is being processed.

## SpcGroupDelivery

### State and code

| variable | code |
| --- | --- |
| `job` | `spc_group_delivery_jobs`; `prepared` is `submission_prepared_at`, `live` is a lease that has not run out, `due` is `available_at` reached |
| `active`, `pairing`, `paired` | `spc_group_dispatchers`: the active one, pairings between their two statements, devices that hold a token |
| `pc`, `work`, `result` | `processQueue` in the content script of each tab |
| `asking`, `permit`, `fresh`, `clicks` | the background script: permits asked for, `submissionPermits`, whether the deadline lies ahead, `debuggerQueues` |
| `asks`, `reports` | `prepare_send` and `complete` requests under way: lost, late, or repeated |
| `posted` | messages WhatsApp took, per job |

A claim token is random and every claim counts an attempt, so the pair of job and attempt stands for it. `Claim` is one
call of `claim_spc_group_delivery_job_v2` with its sweep; `AskPermit`, `Prepare`, `Click`, `Submit`, `Verify`, `Report`
and `Complete` are the way of a job; `StagingFails`, `AskFails`, `RecheckFails`, `TargetMissed`, `ReportFails` its exits;
`TabReloads`, `BackgroundStops` and `Lost` what may happen around it; `PairDeactivates`, `PairActivates`, `PairFails` and
`Revoke` the pairing; `Enqueue` and `Withdraw` the buyer's side.

### What is abstracted

* The answer to a `prepare_send` arrives with the grant or never. What could come between commutes with the grant, and an
  answer past its deadline is an error in the code.
* A reloaded tab leaves its background script going, so permits and clicks survive it; a device whose storage was lost is
  another device.
* The background script uses the permit up and then waits for the debugger to deliver the press; here both are one step
  (`Submit`). A page frozen between the two, which would press after its lease, is left out.
* Pressing Send may be ignored by WhatsApp (`posted` need not grow); a person who sends by hand is out of scope.
* `PermitsExpireFirst`: a permit's deadline is measured on the device from before the request that extends the lease, by
  at most the same 90 seconds, so it expires before the lease on a clock that runs on while a permit is held. At-most-once
  does not depend on it; `OneInFlight`, `ReviewIsFinal` and the contract do.
* Left out: heartbeats, version mismatch, the deferral of claims during a backup, history and health views, the in-place
  update of the extension, jobs without a destination, two tabs of a device that pair at once, and the postpone function,
  which nothing calls.

### Properties

* `AtMostOnce`: no job is submitted twice by the machine, whatever expires, is lost, repeated, reloaded or paired anew.
* `NeverQueuedAgain`: a submitted job is in the hands of its claim, of a person, or settled.
* `ReviewIsFinal`: once a person has been asked to look, the machine does not submit behind their back.
* `OneInFlight`: two tabs cannot both be able to submit, except where a cancellation removed the job of one.
* `ImplementsOneSubmission`: every step is a step of `OneSubmission`; in particular a job is recorded as sent only if it
  was, and leaves review only by being withdrawn.
* `EveryJobCloses`: while a device stays active every job is sent, handed to a person or withdrawn.

### Runs

| run | instance | shows |
| --- | --- | --- |
| `spc_tabs` | one device, two tabs, two jobs, one attempt | `TypeOK`, `OneInFlight`, `ImplementsOneSubmission` |
| `spc_devices` | two devices with a tab each, one job, two attempts | `AtMostOnce`, `NeverQueuedAgain`, `ReviewIsFinal` across pairings and late requests of the replaced device; `EveryJobCloses` while one stays active |
| `spc_cancelled` | as `spc_tabs` | `OnlyOneInFlight` is violated, see below |

Two tabs are what a second claim needs; the queue admits one live claim, so a third tab waits like the second. Two
attempts are a claim and one more; what matters of the twenty is the last.

### Fairness

Content and background scripts go on (weak fairness), clocks advance, and polling every two seconds gets through now and
again (strong fairness of a claim by some tab). Requests, answers, pairings and buyers are not fair: the leases alone
close a job that was lost.

### Proofs

`SpcGroupDelivery_Proofs` proves `TypeCorrect`, `SubmittedAtMostOnce` and `SubmittedNeverQueued`, without
`PermitsExpireFirst`, from an inductive invariant `OneShot`: a grant is recorded in the job before the permit reaches a
device, a recorded job is never claimable, so at most one claim of a job ever holds a permit; that permit is consumed
before the press, so what has been posted and what can still be posted never exceed one. `SentWasSubmittedAlways` needs
no clock either: "sent" is the result only of a tab that has seen its message (`SentIsSeen`), and only a report of that
result makes a job sent.

From `PermitsExpireFirst`, `SingleInvariance` proves the stronger invariant `Single`. `OneShot` speaks of jobs, `Single`
of claims: `Mine(t)` is every claim a tab has anything to say about, in its content script, in its background script or
in a request under way, and no two tabs share one (`OneTab`), since only `Claim` hands one out and counts a new attempt
to do so (`ClaimsMade`). At most one claim is live (`OneLive`). A tab that may submit holds the live claim of its job,
unless the job is withdrawn (`LiveWhileArmed`): a permit is granted to a live claim only, and what could end the claim
while the permit is fresh is its lease, which the assumption holds back, or a report of the tab itself, which comes when
nothing is left to be clicked (`ReportIsLast`, `ClickIsPermitted`). From these follow

* `OneInFlightAlways`: two tabs that may submit jobs not withdrawn hold the one live claim, hence the one permit;
* `ReviewIsFinalAlways`: a press posts under a fresh permit, hence under a live claim, hence in the status `claimed`,
  or `withdrawn`;
* `DeliveryImplementsOneSubmission`: the phase of a job is read off its status, the contract's grants are the jobs with
  `prepared`, and there is one lemma for each kind of step. `Prepare` is the contract's grant (the claim is live, so the
  phase is open), `Submit` its post, a report its confirmation or its review, a sweep its review; everything a device,
  a tab or the network does besides leaves what the buyer sees alone. A report that says "sent" is about a job that was
  posted, which the contract demands.

### A finding

The extension's README says that only one job can be in flight across the dispatcher's WhatsApp tabs
(`tools/whatsapp-spc-group-dispatcher/README.md:24`). Cancelling an enquiry deletes its job with the claim and the
lease, so the next claim, of another tab, is granted while the first tab still holds a permit it may use:
`spc_cancelled` shows the steps. Both tabs can then submit, each its own job; nothing is submitted twice, but an
enquiry that has been cancelled may still be posted next to the following one. `OneInFlight` states what does hold.

## SpcMobileDelivery

### State and code

| variable | code |
| --- | --- |
| `mode` | the trader's row of `spc_mobile_modes`; `lapsed` is `expires_at` past, `open` is `conversation_open_until` ahead, `act` is `activation_status` |
| `del` | `spc_mobile_enquiry_deliveries` by enquiry; `ids` are the parts whose message id is recorded, `gone` a row deleted with its enquiry |
| `posted` | messages WhatsApp accepted, per enquiry and part |
| `offered` | the trader's phone shows a button with the activation token of now |
| `pc`, `goal`, `token`, `batch`, `cur`, `verdict` | a web request or cron run: where it is, what it was made for, the token of its answer or prompt, the rows it selected as it read them, the row at hand, the status it will record |

A request is one call of the webhook, of the enquiry route, of the mode route or of cron; each begins with `Expire`
(`expireModes`) and most go on to `Sweep`, the prompt (`SelectMode` to `PromptStops`) and the deliveries (`Select` to
`SendStops`). Every database call is a step, so requests interleave between any two. `Send` is a call of the WhatsApp
Cloud API: accepted with or without its answer, refused, or without an outcome. `Kill` is a request stopped by its
platform or by a call that nothing catches; a message under way still arrives, or not.

### What is abstracted

* There is one trader: rows of different traders share nothing.
* `next_attempt_at` may pass between any two steps and is left out; expiry and the closing of the window are events.
* A claim is older than five minutes (`ClaimIsOld`) only when no request is at work on it: the routes run for at most 300
  seconds, cron for 60.
* A token is compared with the row's only: it is the one of now or an old one.
* Every HTTP answer that is not OK is taken for "not sent", a 5xx too, as the code takes it (`WhatsappRejectedError`). That
  WhatsApp refuses a message it has accepted is assumed away; a call without an answer, or without a message id in it, may
  have sent its message.
* WhatsApp's status callbacks change columns that nothing modelled here reads.

### Properties

* `OneSender`: although `Claim` compares nothing but a status, which comes back to `failed` between two claims, no two
  requests send one delivery.
* `LabelFollowsContent`: whoever resumes a delivery, its label is sent only when its content was.
* `ImplementsOneSubmission`: each of the two messages is sent at most once, under a claim, and never after the row went to
  a person; an id is recorded only of a message that was sent.
* `ServedOrSpent`: while the mode serves and the window stays open, every copy comes to be sent, handed to a person,
  deleted or expired (with an earlier activation), or has used up its claims, and stays so. A row in `processing` does not
  count as served, so a request that is killed in possession of it must be found by the sweep. The exemption of spent rows
  is the code's: `Selectable` leaves out a row at its limit and nothing else closes it before the mode ends.

### Runs

| run | instance | shows |
| --- | --- | --- |
| `mobile_requests` | one enquiry, two requests, two attempts, one fault | `TypeOK`, `OneSender`, `LabelFollowsContent`, `ImplementsOneSubmission` |
| `mobile_live` | one enquiry, one request at a time, two attempts, two faults | `ServedOrSpent`, also after a request was killed in possession of the copy |

Two requests are what a race for a row needs; two attempts a claim after a failure. `mobile_requests` does not follow a
run beyond the point at which every enquiry is cancelled and no request has one at hand (the constraint `Followed`):
only the mode could still change. A fault is a killed request or a failed call; that no bound on them matters is what
the proofs show. Deadlock is not checked: a mode that is on is not switched off by anything that must happen.

### Fairness

A request that lives takes its next step (weak fairness), and cron, which calls each minute, finds room now and again
(strong fairness). A claim that nobody works on is swept by some run (strong fairness of `Sweeps`): the update compares
`processing_started_at` with five minutes ago, so from then on every sweep matches the row, and cron keeps sweeping.
Traders, administrators, enquiries and kills are not fair. With two requests at a time, one attempt and one fault the property was
checked too; that instance takes too long to be listed.

### Proofs

`SpcMobileDelivery_Proofs` proves, for any number of enquiries, requests, faults and claims, `TypeCorrect`,
`OneSenderAlways`, `LabelFollowsContentAlways` and `DeliveryImplementsOneSubmission`, from the inductive invariant
`IInv`. Its heart is `SafeAt(e)`: a request that sends `e` finds the row `processing`, or deleted, or completed by its own
lost update, so no status a claim could compare has a sender left; what it is about to send has not been sent; and a
part that was accepted is recorded, about to be recorded by that request, or `Loose`, which means that no claim will
reach it (`manual_review`, deleted, or a dead claim that only the sweep can take up). One lemma for each group of steps
says that it keeps `SafeAt`, one for the types and one for what a request has at hand.

Three more theorems say what the contract cannot see. `CompletedIsWholeAlways`: a row in `content_sent` has both message
ids, and both messages went out exactly once. `SendsUnderClaimAlways`: at the moment a message leaves, its row is
`processing`, or its enquiry has been deleted under the sender. `LeavesOnlyAtHandAlways`: while the mode does not serve (it
was switched off, its 24 hours are over or its window has closed) no request takes up another delivery, and only a
request that is at a delivery sends it; the mode is not read again after the claim, so one delivery per request can
still leave, and no more.

## SpcEnquiries and SpcEnquiryFeed

### State and code

| variable | code |
| --- | --- |
| `row` | `spc_enquiries`; `notes` and `words` are the requests whose words the row carries, `stamp` is `updated_at`, `receipt` and `source` are `stem_request_id` and `stem_source_updated_at` |
| `fixture` | `spc_fixtures` by enquiry, its version for `updated_at` |
| `announced` | enquiries with a job for the group |
| `asked`, `try` | what each browser asks, with the version it shows; the server's attempts at it and what each has loaded |
| `told`, `applied`, `made` | history: who heard "saved", how often each request was committed, fixtures made of each enquiry |
| `cache`, `cursor`, `page` | the board's copy, its `updatedAt|id`, and the rows a poll has read before it reads the ids |
| `behind` | history: enquiries whose last version was stamped behind what the board had read by then, since its last full load |

`Load`, `LookUp`, `LoadFixture` are the first read of a request; `Edit`, `Cancel`, `Stem`, `Confirm`, `Amend`, `Reoffer`,
`Insert` and `Enqueue`, `Review`, `Save`, `Erase` its writes. Each write is one step, being one statement with its
conditions or one function that locks the enquiry first; between the read and the write everything else may happen. An
attempt may be refused, fail or be killed anywhere (`GivesUp`), and the answer of one that committed may be lost; the
browser then asks again under the same request id and version. `FullLoad`, `ReadPage`, `ReadIds`, `PollFails` are the
board's polls and `Reset` a restart of its worker or a change of its session.

### What is abstracted

* Texts are sets of requests: what matters is whose words a row still carries.
* `updated_at` is a stamp that grows with each version of a row: the server's clock and the database's do not run
  backwards between a version and its replacement. Between rows, and against the board's cursor, stamps come in any
  order.
* A STEM's supplier is part of its request: the page takes a new request id when the supplier is changed.
* The cursor is compared at the resolution of milliseconds, while rows have microseconds. That can only leave it lower,
  so that rows are read again.
* Left out: who owns an enquiry and may edit it, routes of jobs, jobs of amendments (their number is the revision), the
  history of revisions, the limit of 250 rows, and the undo of the audit log, which a trigger keeps from taking half of
  a STEM.
* Left out as well: the fixture status `cancelled` of old rows, which nothing sets any more. The search for a twin before
  a creation (`SameWords`) finds the enquiry that carries the request's own words and no other with equal notes.

### Properties

* `StemWhole`: quoted, receipt and exactly one fixture come together, whatever is repeated or fails; a fixture may be
  deleted later, and is not made again.
* `SavedOnce`: a browser that heard "saved" heard the truth, and asking again commits nothing twice. Creating and
  amending are exempt: no request id names them, and the search for a twin of the last two minutes is a read before a
  write.
* `NothingOverwritten`: what has ended stays as it ended, and a write keeps the words of those before it although it
  puts down notes worked out from an older read. An amendment, which does not compare versions, and the row a reoffer
  retires are exempt.
* `BoardMissesNothing`: the board shows the latest version of a row or will read it by the next poll. Reading the ids
  after the page is what this rests on. Rows in `behind` are exempt: a version stamped by a clock or a transaction that
  lags behind the cursor. A full load ends the exemption: with the rows it has read the board misses nothing.

### Run

`spc_enquiries`: two enquiries, three requests of any kind, up to three attempts, at most two at one request, stamps up
to three. Requests are symmetric. Two enquiries are what a reoffer or a second creation needs and what orders a cursor;
three requests are one that ends an enquiry, one that writes late and one that is asked again; three stamps are a
version, its replacement, and one more that lies before or behind the cursor. The board polls on, so there is no
deadlock. No fairness is assumed: nothing here must happen, since only people ask.

### Proofs

`SpcEnquiryFeed_Proofs` proves the five properties of the run for any number of enquiries, requests, attempts and
stamps. The invariant has three parts beyond the properties. `Spent`: what a committed request left behind (a version
that has passed, a receipt, an end, a fixture's version) bars its repetition. `TriesOK`: an attempt whose version is
still the row's has loaded every word the row carries, which is why comparing versions is enough to write whole notes.
`PageOK`: while a poll is under way, what its page lacks of the latest versions is in the board's copy, past what the
cursor will become, or `behind`. A theorem of its own, `BoardAdvancesAlways`, says that the board never replaces what it
shows of an enquiry by an earlier version: with what a poll has read lying between the board's copy and the row (`Lags`),
a merge can only go forward, even if the row was written between the two reads.

## EventCalendarSync

### State and code

| variable | code |
| --- | --- |
| `cal`, `edits` | an event of `office_calendar_store`, as the content its Google record must have, or `Absent`; how often it was edited |
| `job` | `event_calendar_google_sync_jobs` by event; `requested` is the generation (`requested_at`), `live` a `locked_until` not reached, `due` a `next_attempt_at` reached |
| `google` | the Google records that carry the event's id |
| `pc`, `took`, `at`, `before`, `listed`, `tries` | a call of the route: where it is, the generations it claimed, the event and pass it is at, what it read and listed |
| `late`, `kills` | the Google request a killed call left under way; a bound |

`Edit` is the trigger in the transaction of the edit. `Claim` is a call of the claim function. `Read`, `List`, `Rewrite`,
`Relist` and `Reread` are a pass of `reconcileUntilCanonical`; `Rewrite` is one request to Google, in the phases `clear`
(the event is gone), `write` (update the first record or insert one), `dedupe` and `refresh` (the kept record).
`PassFails` is the `catch` around a pass. `Acknowledge` and `Fail` settle a job, with the release of a superseded
generation. `Kill` and `Buried` are a call that reaches `maxDuration` and the end of what it left.

### What is abstracted

* Two contents differ or do not. An edit that changes the event but not its Google record is left out: it queues a
  generation that asks for nothing.
* Google lists what it holds, and refuses a request about a record it does not hold. A request that fails has had its
  effect or never will; only that of a killed call may have it later.
* `WorkersEndFirst`: a call is over, its last request included, before its lock is. The code gives a call 60 seconds
  (`maxDuration`) and a lock five minutes.
* `attempts` only sets the length of the delay, which is the event of its deadline. The deferral of the schedule during
  a backup is a time at which nobody claims.

### Properties

* `Converged`: an event without a job has exactly the record it must have. Acknowledging a generation, losing the answer
  to the acknowledgement, a kill between insert and dedupe, or a late request could each break it. The second read of
  the calendar is not what it rests on (without it the property still holds): the generation is.
* `OneWorker`: no two calls rewrite the same event, although edits queue it anew while it is locked.
* `ComesToShow`: when the edits stop, Google shows the event and the job is gone.

### Runs

| run | instance | shows |
| --- | --- | --- |
| `eventcal_batch` | two events, one content, one edit of each, two records, two calls, one kill | `TypeOK`, `Converged`, `OneWorker`, from any records an earlier version left |
| `eventcal_live` | one event, two contents, one pass per attempt | `Converged` where a record may show an old content, and `ComesToShow` |

Two calls are what an overlap needs, two records a duplicate. One edit makes a second generation, and any later one is
to it as it is to the first. Two passes are one that is repeated and one that gives up. A larger instance, one event
with three records, two contents, two edits, and two kills, was checked as well. The runs switch the check for deadlock
off: with no job and no edit to come, the system rests.

### Fairness

The schedule runs every minute (`vercel.json`) and takes the oldest jobs first, so an event that is due again and again
is claimed (strong fairness of a claim that is answered). A call takes its next step or is killed, and kills are bounded.
A request of a kind that is tried for ever succeeds again and again (strong fairness for each phase); clocks advance.

### Proofs

`EventCalendarSync_Proofs` proves `TypeCorrect` and, from `WorkersEndFirst`, `OneWorkerAlways` and `ConvergedAlways`, for
any events, contents, workers, records and bounds. `Converged` speaks only of events without a job, so the inductive
invariant `IInv` must say what a worker knows on its way there. `Held`: one that is at work on an event holds its job, or
has found its generation superseded and has nothing left to do but to say so; edits requeue the job without taking it
away, and only a worker's own end, which comes first, lets the lock expire. `Along`: what Google shows has come as far as
the worker's place in its pass says, and a worker about to acknowledge the newest generation has shown the content of
now. `Dated`: generations are counted by edits, which is why an acknowledgement that compares them cannot remove the
job of an edit it did not see. From the same invariant, `LockedRewritesAlways`: a request that changes Google's records
of an event is one of the worker that holds the live lock on its job, also when that worker has been killed and the
request takes effect late, so nothing touches an event whose job is gone; and a job is removed only by the worker that
holds it, with the newest edit, when Google shows the event.

## HealthAlerts

### State and code

| variable | code |
| --- | --- |
| `health` | what is wrong with each check |
| `row` | `system_health_alert_incidents` of one recipient: open, `notified_level`, the claim, its level, whether it expired |
| `pc`, `reading`, `before`, `late` | a run: where it is, what it read, which runs began before it, whether a later one has reported |
| `newest`, `about`, `mails` | history: the latest reading reported that was sure, what each run writes about, the mails that arrived about the open incident |

`Begin` and `Read` are `runSystemHealthCheck`, `Claim` the claim function, `Accepted` and `Refused` the mail, `Finish`
the finish function, `LeaseExpires` its ten minutes, `Kill` a run that ends anywhere.

### What is abstracted

* Times are only compared, so each run keeps the order of the others' beginnings. The code stamps each check of a run with
  its own time; here the readings of a run share one. A row's fresh and late readings are decided per check by the same
  comparison.
* A call of a database function is one step, since it holds an advisory lock. Deferred observations (pending, muted)
  are the reading `Unsure`.
* Recipients share nothing, so there is one. A lease (ten minutes) does not expire under a live run (four at most).

### Properties

* `OneSender`: two runs that write about one check at once write about different incidents of it.
* `NotifiedTruly`: a level is recorded as notified only if a mail about this incident at this level arrived.
* `NoRepeat`: a second mail about one level of an incident takes a fault; the code chooses a repeated mail over a lost one.
* `OpenAsReadLast`: an incident is open as the sure reading that was begun last says, in whatever order they are reported.
  A pending or muted reading neither opens nor closes it ("must not close an existing incident", says the migration).
* `ComesToBeKnown`: a problem that every reading shows from some time on is mailed about, and one that is over is closed.

### Run

`health_alerts`: one check, two levels, two overlapping runs, two faults. Each incident's row is decided by itself in the
code's loop, and runs meet only there, so a second check adds what one mail about two incidents adds; an instance with
two checks was explored breadth-first to depth 19 without an error. Two runs are what a late report and a second sender
need.

### Fairness

Cron begins a run again and again, a run goes on (weak fairness), leases expire, and mail is not refused for ever (strong
fairness of `Accepted`). Nothing else is fair.

### Proofs

`HealthAlerts_Proofs` proves `TypeCorrect`, `OneSenderAlways`, `NotifiedTrulyAlways`, `NoRepeatAlways` and
`OpenAsReadLastAlways` for any checks, runs and faults, from an invariant in four parts besides these: `Writing` (a run
that writes about a check holds its live claim, at a level above what is notified), `Leased` (a claim that names a run
belongs to one that writes), `Arrived` (what has been delivered and waits for its acknowledgement was mailed) and
`Counted` (what is neither notified nor delivered was mailed by faults only). From the same invariant follow two
theorems about steps: a mail goes only under the unexpired claim of its sender and above what is notified
(`MailsUnderClaimAlways`), and the level notified of an incident that stays open only rises, by an acknowledgement of an
accepted mail under the claim (`NotifiedRisesAlways`).

## What is proved and what is only checked

Proved for all values of the constants: the theorems above. The assumptions are those on the constants
(`QueueAssumption`, `DeliveryAssumption`, `MobileAssumption`, `SyncAssumption`, `AlertsAssumption`,
`EnquiriesAssumption`, `FeedAssumption`) and, where a theorem names it,
`LeaseOutlivesStalls`, `WorkersEndFirst` or `PermitsExpireFirst`. Every invariant, action property and refinement of a
passing run is stated by a theorem. Checked only on the instances is liveness (`LeaseComesFree`, `BacklogDrains`,
`EveryJobCloses`, `ServedOrSpent`, `ComesToShow`, `ComesToBeKnown`), since fairness and `ENABLED` are out of the prover's
reach. Each property of a passing run is known to fail under a plausible
bug in the code; these mutants stand next to the definitions they change, marked as such.

## Plan

1. `SpcGroupDelivery` composed over `SpcEnquiries` in place of its `Enqueue` and `Withdraw`.
2. `PriceSetterCreation`, `SpcLogin`, `AdminSessions`, `AttendanceConfirmation`, `OutlookInsertion`,
   `PhonebookReconcile`, `BackupExport`, `ExchangeContactProjection`, in this order.

To prove next: the types and the safety properties of each new module.
