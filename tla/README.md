# CARES server: formal models

TLA+ models of the core of the CARES platform's server (`src/server`, NestJS over PostgreSQL,
Redis, BullMQ and the Xendit payment gateway), checked with TLC and, where marked, proved with
TLAPS. Paths below are relative to `src/server/src` unless they begin with `src/`.

## 1. Inventory

### Parts of the system

| part | state it keeps | operations | hard behaviour |
| --- | --- | --- | --- |
| donation payments (`modules/donations`) | `DonationPayment`, `PaymentWebhookEvent`, the MONEY `Donation` row | open a checkout under an idempotency key, poll it, apply the gateway's callbacks, settle, notify | callbacks racing polls, repeated and rolled-back deliveries, a crash in the middle of a checkout |
| donation ledger (`modules/donations`) | `Donation`, `DonationTrailEntry` | directors move a donation along its ladder, donors pledge, edit and withdraw goods | read, check, await, write; stale screens; dedupe keys |
| sessions (`modules/sessions`, `shared/guards`) | Redis records `session:<id>` | sign in with a device limit, guard every call, touch, revoke, sweep, restrict, rewrite the address | several Redis commands per operation, SCAN |
| security policy, login activity | one policy row and its cached copy, the trail of attempts | policy read and saved, lockout derived from the trail, best-effort recording | attempts counted while others run, edges of the window, a copy older than the row |
| event attendance | `EventAttendance`, location pings | live pings, offline batches, ruling by sweep, by the push behind a post, by hand | late and repeated batches, three rulers of one row, a window of 50 events |
| certificates, deployments, templates | issued sheets, deployments with their tallies | issue sweep, deploy, recut, pause, open | sweeps that overlap, numbers taken twice, a director who writes during a sweep, tallies |
| user requests, events | `UserRequest`, `EventAttendance`, the event's tally | accept, reject, remove, restore; register, unregister; apply | capacity read before the write, unguarded decisions, a request that outlives its registration |
| schedulers | run history and active keys in Redis | start, finish, cap | work that outlives its cap, overlapping runs |
| auth, users, settings, access control | accounts, roles | sign-in, restriction, deletion, edits of one's own account | sign-ins in flight across a restriction or a deletion |
| notifications | notices with a unique dedupe key per user | publish through a queue | at-least-once jobs |
| chat, mailbox, announcements, evaluation, residential needs, support tickets, assistance requests, interests, profile, rankings, statistics, reports, system screens, audit log | rows of their own | CRUD, aggregates, relays | little beyond single-row writes |
| gateways, infrastructure clients | connections | relay and I/O | none of their own |
| `src/microservices`, `src/mobile`, `src/site` | none shared; clients | numerics; user interfaces | outside these models |

`PROJECT.json` lists each part with its status, and under `hazards` what is hard to test in each,
at its line, with the property that watches it or the reason none does. Where the code lets a race happen, the
property that names it as an exception does not count as watching it: the hazard's note says what bounds it.

### How the parts interact

The app and the portal call the server over HTTP; every call but the public ones goes through
`SessionGuard`, so through the Redis records of *sessions*. A money donation starts in the app
(*payments*), leaves for Xendit, and comes back by Xendit's callback, a public route, or by the app's
poll; the settled payment opens a row on the *ledger*, which directors then move. Payments and ledger
tell the donor through one queue (*notifications*) whose worker inserts by dedupe key. The *schedulers*
run the sweeps of attendance and certificates, and a run that passes its cap goes on beside the next;
attendance's rulings, with the *evaluation* answered, decide who gets a *certificate*. Registering for an
*event* with a role files a *user request*, whose ruling moves the attendance row that the registration made.
Every sign-in asks the *security policy* and leaves an entry in *login activity*, which the next one counts.
Restricting, deleting or editing an account (*users*, *settings*) sweeps its sessions.

### What makes the modelled parts correct

* Payments: one payable checkout per idempotency key; no payable link without a row; callback and
  poll agree with the gateway; money is credited once, when and only when it was captured; the donor
  reads one outcome.
* Ledger: a donation is confirmed only after the whole ladder of its kind; the ends are final against stale screens; no notice is swallowed.
* Sessions: the device limit binds; the newest sign-in survives; a restriction ends sessions; a
  change of e-mail reaches the sessions it leaves; a revoked session stays revoked.
* Attendance: a registration is ruled once, from readings that had landed; whoever was marked by hand stays
  so; every ruling is told; no event waits for ever.
* Certificates: a sheet is earned, is cut once, has its own number and is told of; tallies never exceed the
  sheets; the wording of a sheet is that of its deployment; whoever earned one gets it.
* Requests: the attendance row and the role request agree; places for beneficiaries are kept; decisions are
  final.
* Lockout: wrong passwords in a stretch stay within the limit; a refusal never renews a lock; the policy in
  force is the stored one.

## 2. Modules

| module | role |
| --- | --- |
| `PaymentSettlement` | what a money donation promises: a checkout is reserved, released or settled once, and credited at most once, when paid |
| `DonationPayments` | the mechanics of payments; refines `PaymentSettlement` (`KeepsPromise`) |
| `DonationPaymentsProofs` | its theorems |
| `DonationLedger` | the ledger, the portal's and the app's calls on it |
| `DonationLedgerProofs` | its theorems |
| `SessionRegistry` | sessions of one account, Redis command by Redis command |
| `SessionRegistryProofs` | its theorems |
| `AttendanceRulings` | what attendance promises to its readers: one ruling per row, at most one correction |
| `EventAttendance` | posts, sweeps and directors; refines `AttendanceRulings` (`KeepsRulings`) |
| `EventAttendanceProofs` | its theorems, the refinement included |
| `Certificates` | deployments, issue sweeps, sheets; takes attendance as an instance of `AttendanceRulings` |
| `CertificatesProofs` | its theorems about sheets and sweeps |
| `CertificatesTalliesProofs` | its theorems about tallies, wording and completion |
| `UserRequests` | registrations, role requests and beneficiary applications of one event |
| `UserRequestsProofs` | its theorems |
| `LoginLockout` | sign-ins with one address under a policy that is cached and saved |
| `LoginLockoutProofs` | its theorems |
| `MC*` | constants of the finite instances |

The `map` of `PROJECT.json` gives the source lines of each definition. Operators whose comment
begins "Seeded fault" are used by no action: each is a plausible bug that the property named for it
under `mutants` must catch.

### DonationPayments

An `await` ends an action. `req[r]` is where `createPayment` is for request `r`: `new`, `missed`
(lookup found nothing), `reserved` (row inserted), `collided` (the unique index refused it), `opened`
(the gateway answered with a link), `releasing` (the catch block), `done`, `failed`, `dead`. Every
request makes a fresh gateway reference, so a row is named by the request that inserted it.
`charge[r]` is the gateway's side and is external: which endings each channel may have is taken from
the statuses the code tests for. A callback is due once the checkout ended (a QR code that merely runs
out has none), and stays due until a 2xx is read.

`hook[r]` is the callback's transaction: `applied` (id recorded, row updated under lock, ledger row
inserted, none of it visible), `told` (notice queued, still before the commit), then commit or roll
back. While it holds a row it found PENDING, nobody else's update of that row runs (`Locked`); that is
PostgreSQL's row lock. At READ COMMITTED the waiting update then re-evaluates `status = PENDING`.

`poll[p]` is `getPayment`: `asking` the gateway, `settling`, `settled` (update committed, no
transaction), `opened` (ledger row done), back to `idle`. Verdicts are computed from the final word of
the gateway by the same code on both paths, but for a QR code, whose poll sees ACTIVE or INACTIVE only.
`Fragile` names the pollers that may stop after their update committed; `MaxFaults` bounds requests
that die and callbacks that roll back.

The queue (`jobs`) is a set, as job order is irrelevant to an insert by dedupe key; a job may run twice.

### DonationLedger

`director[s]` and `donor[t]` are calls in flight: what they read (`seen`), what they are about to write.
`Move` is the repository's `changeStatus`: guarded by the rung that was read, with trail entry and
`confirmed_at` in one transaction. `EditWrites` has no guard, as the code's update has none.
`amount` stands for everything an edit may write. The dedupe keys are tuples with the fields the code
puts in the string: kind of notice, donation, status and, for a move, the length of the trail.

### SessionRegistry

One account. `live` is Redis; `gone`, `early` and `astray` are history variables that only the properties read
(and `Listings` of `gone`, to know which records were there throughout a SCAN). `born` is `created_at`, as a rank: two
sign-ins are assumed not to share a millisecond. A listing is a SCAN and then an MGET: `Scans` is the
SCAN's begin, `Lists` the MGET, and between the two records may come and go; what was there throughout is
listed, what came or came back may be. `restrictor` is `is_restricted`. `Checking` are the sign-ins that
test it: the portal's and the providers' do, the app's password sign-in
(`modules/auth/services/auth-mobile-service.ts`) does not. `Changes` are the sweeps of `changeEmail`: `ChangesEmail`
writes the account's `address`, the sweep spares the caller's session, and `updateEmailForUser` lists again
and, newest first, reads the TTL of each record and sets it with the new address. `named[s]` is the address in a
record, which a sign-in takes from the account it read, and a touch from the record the guard found.

### AttendanceRulings and EventAttendance

`AttendanceRulings` is both the promise that `EventAttendance` is checked and proved to keep and the
attendance that `Certificates` composes with, so what certificates assume of attendance is what
attendance does.

`row[r]` is an `EventAttendance` row: its status, `geo_validation_method` and where its hours come from
(`measured` by the validator, `scheduled` by a director); `basis` is a history, the readings the ruling was
taken from. A batch `b` is one post, live or offline. `Lands` is `recordLive` or `recordSync`: the pings are
stored, the method noted (`Stored`), and, the event being over, the post's own ruling starts
(`judge[b]`), in the background for a live one. A post may be repeated, as the app does until it has an
answer. `judge[j]` is a sweep or such a ruling: `picked` (the 50 lowest events with unruled rows, here `Window`),
`listed` (the unruled rows of one event), `read` (their pings), `ruling` (after those without pings were
marked silent), then per row `Rules`, whose update names the status PENDING, and `telling`. The validator
is a Python service, external; its answer is a function of the readings (`Proofs`). `director[d]`
is `markPresentManually`, row by row. Both tell through `Notices`, whose keys are those of the code.
`Stops`, `TellsNot` and their directors' twins are a validator that does not answer, a process that dies
and a notice that is not queued; `MaxFaults` bounds them.

### Certificates

`deployment[d]` is a `CertificateDeployment`, of a template on an event; `sheet[d][r]` an
`IssuedCertificate`. `run[j]` is one issue sweep: `begun` (the due deployments and what it read of them,
`was`), `gathered` (who is eligible), `planned` (roster, highest number, what will be believed), `counted` (the batch
inserted and counted inside `issueBatch`, not visible), `telling` (committed, notices to queue). `Added` is
`createMany` with `skipDuplicates`; `Waits` is the row lock on the template, or the unique number, that makes the
second of two batches wait. `Fails` is an error that the sweep logs before it goes on with the next
deployment, `Dies` the end of the process. A second sweep beside a running one is one that has outlived its
runtime cap (`base-processor.ts`); it counts as a fault. `call[c]` is `deploy` or `updateStatus` between its
read and its write, `open[v]` the first opening of a sheet. What happened at one time on a deployment is kept in
histories: `crossed` says that a deploy or an opening was on its way while a sweep was at work there (or another
opening of that sheet), or that a deploy was checked against a tally that was wrong (`Meets`); `absent` and `dropped`, written with
the status by a commit, say who was absent on the roster it counted and whose number a sweep beside it had taken;
`byHand` whose status it is. Sweeps may overlap in every property: wording, claims and completion exempt what
these histories name and nothing else.

### UserRequests

One event. `slot[v]` is the volunteer's attendance row with the role and its approval; `status[q]` a
request, whose `FiledBy` says of which kind it is. `ask[v]` is a call of the app between `assertOpen` and its
Serializable transaction: within it the reads and writes are one step, and a transaction that loses three
times is the caller's (`GivesUp`). `desk[d]` is a ruling between its checks and `decide`, which updates by id
alone. `Applies` and `Files` are `createEventJoin`, whose proof is uploaded between the two. `filed` and `crossed`
are histories: the request of this registration, and whether the ruling on another has moved it.

### LoginLockout

Sign-ins with one address. `trail` is the set of its `LoginActivity` rows, which `nth` tells apart where all the rest
agrees, as their ids do; the queries ask for times only. Time is in ticks, and what happens within one bears one timestamp, so that the comparisons of
the code (`gte` the start of the window, `gt` the last success, `<=` now) are taken at their edges.
`attempt[a]` is `missed` (no cached policy), `read` (row read, not yet cached), `policed` (a policy in
hand), `counting` (the two queries of `Promise.all`, in either order), `guarded` or `unguarded` (let through, on to
the password). `TurnsAway` is every refusal that nothing counts: hours, allowlist, role, restriction,
expired credential. `Upset` bounds saves of the policy and failures of Redis, the database or the recorder;
`SaveFails` is the delete of the copy that does not happen. `lags` is a history: the copy is older than a save.

## 3. Runs

| run | bounds | shows |
| --- | --- | --- |
| `payments_safety` | 2 requests, 1 key, card and QR code, 2 polls (one fragile), 2 faults | all safety properties and the refinement |
| `payments_liveness` | 2 requests, 1 key, wallet and card, 1 poll, 1 fault | money captured is credited (`CapturedIsCredited`), settlements are told |
| `payments_qr_expiry` | 2 QR requests, 1 poll, no fault | finding 1 |
| `payments_credit_lost` | 2 requests, 1 fragile poll | finding 2 |
| `ledger_safety` | 1 donation of either kind, 2 directors, 1 donor call at a time, 2 values, trail up to 6 | all safety properties and `EndsAreFinal` |
| `goods_edit` | the same | finding 3 |
| `sessions_safety` | 3 sign-ins (2 checking), 1 call, 1 sweep, 1 change of e-mail, limit 2 | the limit, the newest, restrictions, the address |
| `sessions_revived` | 2 sign-ins, 1 call, 1 sweep, limit 2 | finding 4 |
| `attendance_safety` | 3 events (one without a fence), 3 volunteers, 3 posts (live, late, outside), 1 sweep with a window of 2, 1 director, 1 fault | all properties, the refinement and `NoRowForgotten` |
| `certificates_safety` | 1 event, 2 registrations (one corrigible), 1 deployment, 2 designs, 2 sweeps, 1 director, 1 viewer, 2 requests, 1 fault | all properties and `NobodyLeftWaiting` |
| `requests_safety` | 1 volunteer with 2 role requests, 1 beneficiary with 3 applications, 1 slot, 1 place, 2 directors, 3 rulings | all properties and `DecisionsStand` |
| `lockout_safety` | 2 sign-ins at a time, 5 in all, 3 ticks, default policy and 2 to save, 1 upset | all properties and `LocksLift` |

Why the bounds are enough: a key race needs two requests; a row is settled by a callback, a poll or
two polls; a callback that rolls back and is redelivered while a request dies needs two faults. The
rows are independent but for their key. Donations do not interact, so one is enough; a stale screen
needs a second director; a trail of six holds a donation that is declined, reopened and then
confirmed. Three devices are the fewest that exceed a limit of two. `sessions_safety` has the CONSTRAINT
`Focus`: the sweep and the change of e-mail do not both run, and either the third device stays away, or
neither runs and the guarded call is of another
device. The limit and the newest sign-in are a
matter of three sign-ins, a restriction or a change of e-mail of two sign-ins and one sweep, so what the properties
compare is not cut, but for two changes that overlap and a change beside a sweep; the theorems below have no such bound. Its SYMMETRY permutes the two checking devices, which no
property of that run tells apart.

`attendance_safety`: a row may be ruled by a sweep, by a push and by hand at once, which takes one of each; the
second part of a device's readings lands on either side of the ruling. Three events and a window of two are the
fewest in which an event can be crowded out. `certificates_safety`: overlap takes two sweeps, a number taken
twice two registrations; two requests hold a deploy and a recut, a pause or an opening. With three requests, and
with two deployments of two templates (two viewers, one viewer), the safety properties held as well; these larger runs
are not kept, as they ask nothing new.
`requests_safety`: the second role request belongs to a second registration, which is how a request outlives its
own; the third application exceeds both the place and the one that may overrun it. Its SYMMETRY permutes the
directors and the ids within each kind. `lockout_safety`: three wrong passwords trip the lock, the least the
validator of the policy lets an administrator ask for; with two in flight four may get in, and the fifth
sign-in is the one that must not. Three ticks hold a lock that is tripped, refuses and lifts. The windows
and durations of the instance are 2, 3 and, for a lock without end, 0; one policy has the lockout off. The
single upset means that a save and a failure of the cache do not meet in one behaviour, but for the failed
delete, which is a step of the save. One save at a time is under way (`saving` in the guard of `Saves`): two that
overlap end like one, as the last to drop the copy does so after both rows are written, and the instance has one
upset to spend anyway. Its SYMMETRY permutes the sign-ins.

Deadlock is not checked: requests, calls and sweeps are finite in number and may all be done.

### Fairness

Payments: `FairSpec` asks weak fairness of each request, each callback, each poll that has begun and each queued
job: the server's event loop and BullMQ's worker run what is ready, and Xendit delivers until it reads a
2xx. Nothing is asked of donors: nobody must pay or poll. Weak fairness of `HookStep` is enough since a
transaction that rolled back leaves the callback due and its first step enabled again; faults are
bounded. `CapturedIsCredited` leaves QR codes out, for the reason of finding 1, and the run has no
fragile poll, for the reason of finding 2.

Attendance and certificates: `FairSpec` asks weak fairness of each sweep (`SweepStep`), which the scheduler
starts every few minutes and whose worker runs what is ready. Nothing is asked of devices, directors, volunteers or
of the push behind a post; failures are bounded by `MaxFaults`. Hence `NoRowForgotten`: a row with readings is
left unruled for ever only behind a full window of events that wait for ever themselves (those whose devices
are silent, or without a fence), and `NobodyLeftWaiting`: whoever has earned a sheet does not wait for it
for ever on a deployment that stays scheduled or distributing.

## 4. Proofs

All proofs are for every value of the constants under the modules' `ConstantsOK`, with no bound on
requests, faults, trails, sessions, rows or sweeps. Each proves an inductive `IInv` once (`Invariance`) and
derives the properties from it.

* **DonationPaymentsProofs.** The properties are not inductive alone. `RequestsKnowTheirRow` ties the
  stage of a request to its row and its checkout (it is what keeps `DeletePending` away from a row whose
  link is out); `RowsAreUnique` is the unique index; `HooksFollowCharges` and `PollsFollowCharges` say that
  whoever is about to settle holds the gateway's final word; `NoticesFollowCharges` carries that to the
  queue and the feed, where roll-backs leave notices of settlements that did not happen: they agree
  because the verdict can only come out the same again. `Refinement` maps the row to the abstract outcome
  and the ledger to the credited set; every step is a step of `PaymentSettlement` or stutters.
  `PaidCredited` has the hypothesis `Fragile = {}`, without which `payments_credit_lost` refutes it.
  `CallbacksOwed` and `NoticesOwed` (again for `Fragile = {}`) are the safety halves of the two liveness
  properties: no ended charge waits with nobody left to settle it, and no settlement is without a notice in the
  feed, on the queue or in a poll's hand, so that only the progress of what is in hand is left to fairness.
  `OneCarrier`, that one poll at most carries a settlement it made, gives `CreditedOnce`: the ledger is a set in
  the model, and this says that nothing is ever put into it twice. `SettlesOnce` is read off the refinement.
  `CallbacksTellTrue` shows what finding 1 hangs on: without polls, or without QR codes, it cannot happen.
* **DonationLedgerProofs.** `TrailClimbs` says that every two neighbours of a trail are a legal move;
  with `TrailAgrees`, that the trail ends on the row's rung, it gives `ConfirmedWasReceived` for trails of any length, by lemmas that
  name what may precede each rung. `DirectorsFollowRows` and `NoticesFollowTrail` bound every dedupe key in
  use by the length of its trail, which only grows: that is `EveryMoveHeard`. `EndsAreFinal` follows since a
  legal move never starts at CONFIRMED or CANCELLED and `Move` is guarded. `ValueKept` bounds finding 3: money is
  never edited, and goods that moved on only by an edit that was open when they did.
* **SessionRegistryProofs.** `RestrictionClosesIn` follows a restriction's sweep: what it has not yet listed
  is spared, in its keys, or yet to be scanned. `HeldWereStored` says that no call holds a session whose sign-in has
  not stored it. `NewestKept` assumes `Limit >= 2`: with a limit of one it is false (see the observations).
  `LimitBinds` looks back over any number of overlapping sign-ins, and is not inductive since it is silent while
  one of them prunes. `SomebodyAnswers` is what holds then: whatever was never ended is yet to be scanned by, in
  the listing of, or within the limit left by one sign-in, the last to have stored its record at the latest.
  `Ranked` (no two `created_at` agree) and a count by the oldest member of a set (`NewestFew`) give that a
  listing of everything leaves `Limit`. `AddressClosesIn` follows the change that wrote the address: a record that
  names an older one, and was not written since from an outdated read, is yet to be scanned, in the sweep's listing,
  the caller's own, or in the rewrite's listing. With it `AddressFollows` holds for any number of changes that overlap.
  `OnlyHeldComeBack` bounds finding 4: an ended session is live again only by a touch or a rewrite that had read
  its TTL before the end; with none in hand it stays ended, since at most one record of a rewrite has its turn
  (`OneTurn`, by `Ranked`) and nothing is stored twice.
* **EventAttendanceProofs.** `ReadingsLeaveMark` says that a tagged reading inside the fence has left its mark on
  the row, which a later mark of silence cannot take back: that is `AwaitingMeansSilent`, the first half of
  `MethodIsTrue`. What a judge has read had landed (`JudgesHeard`), so `RuledOnReadings`. `JudgesTell`,
  `DirectorsTell` and `FeedFollowsRows` say that whoever is about to tell made the ruling, alone, and that no
  notice of it is there to swallow the next: that is `EveryRulingHeard`. `Refinement` maps a ruling to `Rule`, a manual mark to `Correct`, and everything
  else to a stutter, by the status guard of each update; `PresenceKept` is read off it. `FeedTellsTrue`: a notice
  says what the row says, or tells of an absence that was corrected since, also where a judge tells of a ruling
  that a director has overtaken.
* **CertificatesProofs.** The safety of overlapping sweeps is in four facts about a sweep between its steps.
  `BatchesEarned`: what it has gathered is earned, and stays so, since attendance never takes presence or
  its hours back (`AttendanceRulings`). `NumbersBounded`: there is a highest number in
  use, so that `Highest` is one. `CountsTrue`: the tally about to be written counts sheets that are there or come with it.
  `CountsApart`: two sweeps that have both counted do not touch each other's rows or numbers, by the
  locks of `Waits`. Together with `RunsAtWork`, `Opened` and `Called`, which tie stages to what was read, they
  make `SheetsEarned`, `DistributedHaveSheets` and `HoldersTold` inductive. `Keep`: no commit, however late, writes
  over a sheet that is there.
* **CertificatesTalliesProofs.** What a deployment says of itself, however sweeps overlap. Each property gets an
  invariant of what the calls in hand still hold. Completion: what a sweep read of the tally is no more than the
  sheets there are (`Reads`), so what it believes handed out is no more than those and its batch together
  (`Reckons`); if that completes the deployment, whoever is in neither was absent on the roster that was counted
  (`CountsOut`). `Worded`: on a deployment where no deploy met a sweep or a wrong tally, a deploy in hand finds
  nothing cut and nothing being cut, so sweeps and sheets carry the row's wording. `Tallied`: an
  opening that met nothing is the only one of a sheet that is still closed, and no sweep has counted in the
  meantime. `Pause` needs no strengthening: only a sweep's begin takes a deployment up, and it passes over paused ones.
* **UserRequestsProofs.** `SlotsFiled`: the request a registration was filed with is its volunteer's and is
  on record, so a ruling moves the approval together with that request or marks the row `crossed`: with it
  `StandingsAgree` is inductive. `PlacesBudget` adds the acceptances in hand to those made, and gives `PlacesKept`.
  `DecisionsStand` needs only that no ruling is taken up on what is decided.
* **LoginLockoutProofs.** `ReadsAreCurrent`: a sign-in about to cache what it read holds the stored policy, or
  a save has come since. With it `CopyIsCurrent` is inductive. `TypeCorrect` goes with `SoundAttempts`: what a
  sign-in knows fits where it is. `GuessesBounded` looks at every stretch of time at once and is not inductive,
  since it does not say who may still try. `Early`: a sign-in that counts while a stretch lasts counts all of it.
  `Able(x)` are the sign-ins that may yet try a password in the stretch from x: those let through, and those
  that have already read too few failures, or a last one from before it. `Budget`: once the stretch has seen
  `Most` wrong passwords, guesses and able sign-ins together are within the bound. From there on nobody new
  becomes able, because whoever counts then counts them all and finds a last one that still holds; so each guess
  uses up a sign-in that was able before. `Grounded`: the failures a sign-in has read of were there to be read; a
  refusal therefore has its wrong password inside the window, and its lock still runs, which is `LocksEnd`.
  `NoRowLost`: the entry a sign-in writes is never in the trail already, by the count in its `nth`: the set hides
  no row.

The runs' safety and action properties are all theorems, and each of the four properties that the code violates
has one that says where it still holds. Model-checked only: liveness (`CapturedIsCredited`, `SettledIsTold`,
`NoRowForgotten`, `NobodyLeftWaiting`), which needs ENABLED under fairness, beyond the prover. The theorems
that state no property of a run were checked by TLC on the constants of the component's run before they were
proved; `OnlyHeldComeBack` on those of `sessions_revived`, which have no change of e-mail.

## 5. Findings

1. **A paid QR code expires** (`payments_qr_expiry`). `reconcile` settles a row EXPIRED when the code is
   INACTIVE, which a code that was just paid may be; the payment's callback then finds nothing PENDING.
   The money is captured, not credited, and the donor reads "Nothing was charged".
2. **A paid donation misses the ledger** (`payments_credit_lost`). On the reconcile path the settle and the ledger
   insert are not one transaction, the error between them is swallowed, and nothing repeats the insert.
3. **A received pledge is edited** (`goods_edit`). `updateGoods` checks PLEDGED and then writes by id alone.
4. **A revoked session comes back** (`sessions_revived`). `touch` sets the record after a TTL read that a
   deletion may have followed.

### Observations without a run

What follows was met while modelling. Each is visible in a definition of the models and named in the properties
as an exception, or lies at a value of the constants that no run uses.

* Sessions. With `max_concurrent_sessions = 1` two overlapping sign-ins delete each other, the newer one
  included, though `session-registry.ts:85-86` says that "someone who just authenticated is never the one
  bounced". `sessions_safety` checks `NewestStays` with a limit of two, `NewestKept` proves it from there on.
  `touch` writes back the record that the guard found, address included, and a sign-in in flight stores the one that
  it read: either can name the old address after `updateEmailForUser`, which is to stop that
  (`session-registry.ts:178-180`). `AddressFollows` keeps these apart as `astray`.
* Attendance. The sweep takes the 50 lowest ids of events with unruled rows. Fifty events that cannot be
  ruled on (no fence, silent devices) keep every later one from being swept (`Crowded`). An ABSENT row is not
  looked at again when the rest of an offline batch arrives. A notice lost after the ruling
  committed is not repeated (`muted`).
* Certificates. `issueBatch` overwrites a pause made while the sweep runs, and a recut in flight can undo
  one, as it writes the status that it read; a pause that meets neither lasts (`Pause`). Of two sweeps that
  overlap the second believes handed out what the first one took the numbers of, so that it may complete a
  deployment of which somebody present has no sheet (`dropped`), and no sweep comes back to it; and the later one to commit
  writes a tally it counted earlier, which may be below the sheets there are, so that a deploy passes its check and
  changes their wording (`count`). Once COMPLETED a deployment is never due again, so a volunteer
  who is corrected to present later gets no sheet. Two first openings that overlap count twice, until
  the next recount. A notice lost after the commit is not repeated.
* Requests. A request whose registration was given back and replaced still moves the attendance row when
  it is restored or decided (`crossed`), against "so they must never disagree". Two directors can accept for
  the last place; of an acceptance and a rejection taken up together both are announced and the later write
  stands. Two applications that overlap are both filed.
* Lockout. A lock lifts with the failures that leave the window: with the defaults after 15 minutes, not
  30, and with a duration of 0, "until an administrator lifts it" (`schema.prisma:257`), after the window too. A
  wrong password that was in flight when the lock tripped pushes the unlock time out. Where the duration is
  shorter than the window, an aged-out streak still counts, so that one more failure locks again.

## 6. Not modelled, and why

In the modelled parts: read-only listings and totals, mail, wording, audit-log rows, permission checks, and
the identity of the caller (an owner's lookup that fails changes nothing). `SessionRegistry` takes the policy's limit as a
constant; addresses are never taken up again, and a Redis error ends a call where it stands. Of certificates
the tallies kept on the template, references and signature images; of requests ROLE_ACCESS and
BENEFICIARY_REGISTRATION, whose acceptance opens accounts, the attachments, the trail and the notices; of
events the portal's create, edit, cancel and delete; of the policy the password rules, login hours and the allowlist,
which read one policy and decide. The run history that the schedulers keep in Redis is only shown on a screen. Rows of
different donors, sessions of different accounts, requests of different events and sign-ins with different
addresses do not meet.

The greater part of the repository's lines is the generated Prisma client
(`infastructures/prisma/common`), the Flutter app and the portal: user interfaces and generated accessors whose calls are the
inputs of these models. The other server modules are CRUD, aggregation and I/O on single rows, without
interleavings that matter; the Python services are stateless numerics.

## 7. Plan

Done: payments with their abstraction, refinement and liveness; the ledger; sessions; attendance with its
abstraction, and certificates composed with it; the review queue with registration; the lockout and the
policy cache; for each its proofs, as listed above.

Left, in order:

1. ROLE_ACCESS and BENEFICIARY_REGISTRATION requests, whose acceptance writes a second table.
2. Assistance requests: the ladder of the ledger, with their own ends.
