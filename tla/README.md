# A TLA+ model of hara-control

hara-control is the control plane of hara: it enrolls devices with one-time codes, issues each a
LiteLLM gateway key and, when the organization has a managed Desk, a Desk installation; it revokes
devices, keeps the organization's service bindings, writes a tamper-evident audit log, forwards
desktop crash reports as alerts, tracks feedback tickets, and distributes roles, policies, learnings
and shared assets. It is a NestJS process over Postgres with a browser console and a separate Feishu
monitor. Its database and the remote systems cannot share a transaction, so its hard part is what
happens between two awaits: interleaved requests, lost answers, failing compensations and crashes.
This directory models that part, checks it with TLC and proves the central properties with TLAPS.

## 1. Inventory

| Component | State | Operations | Hard behaviour | What makes it correct |
|---|---|---|---|---|
| Enrollment (`enroll/enroll.service.ts`) | EnrollCode.usedAt, Device, DeviceToken rows; locals of each request | enroll, its catch block; heartbeat; provisionDeskAgent | races for a code, partial failure, failing compensation, crash | a code admits one device; success is usable; failure leaves nothing or keeps the record of what it left |
| Desk provisioner (`enroll/desk-provisioner.ts`) | none of its own; the captured target and credential | provisionForEnrollment, provision, revokeInstallation, revokeAtTarget | lost answers, late execution, "missing" answers | every installation is on record at its exact origin |
| Revocation (`admin/admin.service.ts`) | Device.revocationRequestedAt / CompletedAt, DeviceToken.revokedAt | revokeDevice | two phases, retries, two administrators, overtaking a running enrollment | local access closes first; completion means everything is revoked; a retry finishes |
| Service bindings (`service-bindings/…`) | TenantServiceBinding row, Secret rows | upsert, verify, disable, reserve, clear, resolve | lock released before decryption and I/O; stale probe; secrets outside the lock | provisioned devices keep their revocation target; ACTIVE means probed; the credential is stored |
| LiteLLM adapter (`gateway/litellm.adapter.ts`) | key aliases at LiteLLM | issueKey, revokeKey, syncKeyModels, spend readers | uncertain issue, 404 on delete | an uncertain key is deleted by alias |
| Seats (`license/license.service.ts`) | the licence claims | seatCheck | count without lock | the cap |
| Audit chain (`audit/audit.service.ts`) | AuditLog rows per organization | append, transact, log, verify | serializable conflicts, four attempts | one unforked chain; verify accepts exactly untampered chains |
| Token discipline (`security/token-discipline.ts`) | — | assertTokenUsable | — | a revoked or expired token is refused |
| Secrets, KMS (`security/…`) | Secret rows | put, get, remove, rotate | rotation while read | envelope encryption |
| Learnings (`learnings/…`) | candidate and observation rows, bundle version | submit, review, bundle | serializable conflicts, a text replaced under a reviewer's eyes | the bundle holds approved texts and its version follows them |
| Crash reports, alert outbox (`crash-reports/…`) | report rows with an alert state, claim, attempts, generation | submit, processOne, retryAlert, update | claim time-out against a late send, attempts at the limit, reopened reports | each generation is alerted; nothing is stuck |
| Feedback tickets (`feedback-tickets/…`) | ticket row: status, fix, claim with lease | intake, update, updateClaimed, transition | read-then-write transitions, claim checked outside the transaction | a settled ticket is complete and cannot be claimed |
| Feishu monitor (`scripts/hara-feishu-monitor.py`) | queue and archive directories of record files, per host | enqueue, the worker's pass, Codex run, archive, restart | two threads with whole-file copies, two hosts, lost answers, requests that run on after their time-out, crash between two files | one acknowledgment, one host at work, no record lost |
| Roles, assignments (`roles/…`) | roles with versions, teams, members, assignments, policies | edits, policy merge, bundle | the bundle is read in pieces | layers only restrict; the version identifies the bundle |
| Assets (`assets/…`) | asset rows, their versions and grants | contribute, review, promote, deprecate, manifest / get / search | a contribution during a review, or between the two reads of a device's request | what is published, and what a device is answered, was reviewed |
| Work sessions (`work/…`) | session rows of a device, linked by hash | ingest | overlapping uploads | one chain for uploads in order |
| Provider key (`ops/provider-secret.ts`, `providers/…`) | secret row with its version, activation row, supervisor processes | import, store, run, status | overlapping supervisors, a rotation during a start | the key reported active is the one in use |
| Accounts (`auth/…`, `common/admin-auth.guard.ts`) | accounts, failure counters, tokens | bootstrap, login, second factor, updates, guard | count-then-create, check-then-record | guesses are limited |
| Console (`public/console/app.js`) | token, route, panels, caches, forms of a tab | login, logout, navigate, load, save | answers in any order, two administrators in one tab | a panel that numbers its requests ignores late answers; views match the session |
| Organization tree, SSRF policy, runtime security, embeddings, health, controllers, scripts, translations | — | stateless reads, checks, I/O, texts | — | — |

Interactions. `enroll` calls the seat check, the gateway adapter, the audit service and the
provisioner; the provisioner takes the binding lock for its reservation, decrypts the credential
after it and calls Desk. `revokeDevice` calls the gateway adapter and, with the columns it has
read, the provisioner, which resolves the binding again. Binding mutations take the same lock and
refuse while a device row carries Desk provenance. They share the Device row, the binding row and
the secret store, and nothing else. Every governance mutation commits its audit row in the same
transaction through `AuditService.transact`. Crash reports and their outbox share only their own
table: submissions, the workers of every running process and administrators meet in its rows. The
Feishu monitor is a client of the ticket service: it holds the claim while it works and moves the
ticket through `updateClaimed`, beside operators who move it in the console. Learnings, roles,
assets, work sessions, the provider key and the accounts each keep tables of their own.

## 2. Plan

Done in this order, most important behaviour first:

1. `ControlState`, `EnrollSaga`, `RevokeDevice`, `DeskBinding`, composed in `ControlPlane`; the
   abstract `EnrollmentContract`; `MCControlPlane`, `MCBinding` and
   their configurations. **Done.**
2. Type correctness, exclusive claim, refinement; keys, revocation, installations, the binding,
   success and rollback: `ControlPlaneProofs`. **Done.**
3. `AuditChain` (append, transact) and `AuditVerify` (verify), with `AuditChainProofs`. **Done.**
4. `CrashAlerts` (submission, outbox worker, review, manual retry), with `ServiceProofs`. **Done.**
5. `FeedbackTickets` and, on top of it, `FeishuMonitor`, which is shown to implement it;
   `MonitorInvariants`, `TicketProofs`, `WorkerProofs`. **Done.**
6. `Learnings`, `Assets`, `WorkSessions`, `Roles` (with `OrganizationProofs`), `ProviderKey`,
   `Accounts` (with `ServiceProofs`), composed in `MCServices`. **Done.**
7. `Console`, with `ConsoleProofs`. **Done.**

Left:

8. heartbeat, provisionDeskAgent and syncKeyModels beside revocation and binding mutations.
9. The organization tree, key-policy windows and usage windows as pure operators.

## 3. The modules and the code

`ControlState` declares the state of ONE organization: organizations share no row, lock or chain.
A nullable column is the set of ids for which it is not null. The device id drawn by
`device.create` is the request itself, because the token row, the alias and the installation of an
enrollment all carry it. `epc`, `apc` and `bpc` are where a request or an administrator call
stands; an action is what the code does between two awaits.

| Module | Code | Actions |
|---|---|---|
| `EnrollSaga` | `enroll`, `provisionForEnrollment`, `reserveDeskProvisioning`, `issueKey` | one per await of the try block, with its failure beside it; one per guarded block of the catch block. `Throw` is the catch block's initializers: it concludes which boundaries were never crossed, sets the five flags of the rollback audit row as the code does (`cleanupReported` is the row's `deskCleanupPending`, which no later block resets) and enters at the first block whose guard holds |
| `RevokeDevice` | `revokeDevice`, `revokeKey`, `revokeInstallation`, `deskRevocationResolution` | intent, re-read, token read, key, resolution, Desk, completion, each with its failure; `Return` drops the locals |
| `DeskBinding` | `upsert`, `verify`, `disable`, `commitVerificationResult` | secret stored, locked transaction, secret removed; row read, probe, locked commit |
| `ControlPlane` | all of them | interleaving, `Crash`, and the late execution of abandoned remote requests; the properties |
| `EnrollmentContract` | — | what one-time codes promise: acquire, grant, accept, withdraw, release |
| `ControlInvariants`, `MonitorInvariants` | — | the inductive invariants of the proofs about these two systems; the other components keep theirs at the end of their module |
| `AuditChain` | `append`, `transact`, `log` | begin (the snapshot), commit, commit without acknowledgement, conflict, refused mutation, crash |
| `AuditVerify` | `verify` | the loop body as a function of the number of rows read; the rewritings of history it must locate |
| `CrashAlerts` | `submit`, `processOne`, `tick`, `retryAlert`, `update` | the statements of each call: upsert, reopening, retention; find, claim, read, send, settle; read and write of a retry; review; the passing of times |
| `FeedbackTickets` | `intake`, `updateClaimed`, `update`, `transition` | intake with its claim; the claim check, the read and the write of a transition; a request whose caller gives up on it, which runs on; the lease running out |
| `FeishuMonitor` | `enqueue`, `process_record`, `ensure_acknowledged`, `apply_pending_transition`, `run_codex`, `finish_record`, `quarantine_stale_queue_records` | one per remote call or file operation of the two threads, each remote call also failing, answered in vain, or given up and carried out later beside the host's next requests; crash, restart, foreground replies, operators |
| `Learnings` | `submit`, `review`, `bundle`, `serializable` | snapshot, commit and conflict of each transaction; the list an administrator reads |
| `Assets` | `contribute`, `review`, `promote`, `deprecate`, `manifest`, `getAsset`, capability grants | the read and the write of each call; the two reads of a device's request |
| `WorkSessions` | `ingest` | the look-up, the read of the head and the insert for each session |
| `Roles` | the edits, `mergePolicy`, `resolveBundleForDevice`, `bindDevicePerson` | one step per audited edit; a bundle in its separate reads |
| `ProviderKey` | `bootstrapDeepSeekEnv`, `runDeepSeek`, `putWithSystemAudit`, `deepSeekStatus` | the reads and writes of each, supervisors that start, record themselves, stop and die |
| `Accounts` | `AuthService`, `AdminAuthGuard` | login in its two legs around the database read; management calls as read and write; the guard |
| `Console` | `app.js` | one per event handler or continuation after an await |
| `Null` | — | the constant for null that the services share |
| `MCServices` | — | the services of items 3, 5 and 6 of the plan in one instance |

The environment. A call to Postgres, LiteLLM or Desk fails when it must (a unique constraint, an
unknown installation) or by a fault, of which there are at most `MaxFaults`. A remote call that
fails may or may not have taken effect; with `LateDelivery` it may also take effect later. `Crash`
loses every local and runs no catch block; it can happen at most `MaxCrashes` times.

History variables. `holds` is who holds a claim (the row only has a stamp, and two requests may
draw the same millisecond: `Stamp` is a constant under which they do). `racing` are devices
whose revocation was requested while their enrollment was still running: the code has no fence
there, one of the disagreements below comes from it, and the other revocation properties are stated
outside it. `swallowed` are requests for which the adapter's cleanup of an uncertain key failed.
`probed` are the configuration versions a verification found healthy. `takenBack`, in the monitor, is
whether a request that was given up on has reopened a settled ticket.

`AuditChain` is the chain of one organization. A digest is the pair of what was hashed, so equal
digests have equal inputs; an identity is the operation, its position and whether the payload's
`personId` was hashed as absent or as null, which is what the two serializations differ in. A
serializable transaction is its snapshot and its commit, which Postgres allows if no other append
came in between. `Init` ranges over what the migrations can leave: unhashed rows, then perhaps a row
of the older serialization.

`CrashAlerts` keeps of every time only what the code compares: `due`, `stale` and `old` are the rows
whose `alertNextAttemptAt`, claim and retention have passed. `alertClaimedAt` is the worker that
wrote it, because the settling updates only ask whether it is still their own. `delivered` is what
Feishu has: a message with a known uuid, which is made from row and generation, changes nothing.

`FeedbackTickets` counts time in thirds of the claim lease; a claim token is represented by whether it
is that of the latest grant. A request whose monitor has stopped waiting (`control_request` gives up
after 30 s, or the connection drops) moves from the host's slot to one of its `Places` and runs on
there, while the host goes on at once; a host has `Places` for as many of them as faults can produce.
`FeishuMonitor` extends it with the record files: `wrec` and `prec` are the copies of a worker and a
poll thread, written back whole. The refinement is the identity on the ticket's variables:
`ImplementsTickets` says that monitors do nothing to a ticket that the service does not do. `Learnings`
models a serializable transaction like `AuditChain`, by snapshot and commit. In `Assets` the time stamp
of a row is the number of its writes; `updatedAt` has milliseconds, so two writes within one are told
apart here and not in the code. A device's request is two actions, the published row and then its latest
version, because an include is a statement of its own. In `WorkSessions` a hash is the row it was
computed from. `Roles` keeps the parts of a policy as the merge treats them, and takes the includes of
one query together; an assignment may name a person, a team or both. `ProviderKey` leaves encryption
out; `keyAt` and `last` are history. In `Accounts` a code is the secret it was computed from, and
`refused` counts the failures a client has really had. `Console` has one tab: a panel is its selection,
its rows with the number of the request they answer, and its disabled button. A list of organizations is
any set of them: what is selected for the administrator (the own organization, the only one, the first
one) depends on it. Enabling or disabling the second factor is its POST, the GET of `me` sent by the
tab's login of that moment, and the repaint, which loads the provider panel for a superadmin.

`MCServices`. These services share no table and no request, and each property reads the state of one
of them. A behaviour of the instance is therefore one service at work, the `focus`, beside the
others at rest; interleaving them would multiply the states and reach nothing new.

## 4. What the runs check

| Run | Instance | Shows |
|---|---|---|
| `enroll` | 2 requests, 1 code, 1 administrator, legacy Desk, 1 seat, 2 faults, 1 crash | the claim is exclusive; a code is given back only when nothing is left; no key and no installation without its record; the five flags of the rollback audit row are true, as `RollbackIsTruthful` reads them; a completed revocation leaves no installation; the saga implements `EnrollmentContract` |
| `binding` | 1 request, 1 administrator, 2 binding calls under way or to come, 2 origins, 1 fault, 1 crash, fair; begins without a managed row, or with an ACTIVE one at the other origin that is being verified again | the provenance fence, the stored credential, ACTIVE means probed; a revocation that is retried completes |
| `late` | 2 requests, 2 administrators, 1 fault, 1 crash, late execution | success stays usable until revoked; completion means that the tokens are revoked, the keys of the token rows deleted and the Desk columns cleared, also when abandoned requests are executed later. (An installation may then appear later: that completion leaves none is checked without late execution, in `enroll`.) |
| `alerts` | 1 report, 2 workers, 2 submitters, 3 submissions, 1 administrator, 2 attempts, 1 retry, 2 faults, fair | SENT means delivered in this generation; FAILED means every attempt was used; one generation per resolution; a queued alert is settled |
| `monitor` | 2 hosts, 1 operator, 1 Codex attempt, 2 disturbances (a fault, a crash, an update, a foreground reply, or an overlap alone) | one acknowledgment per message as long as no operator moves its ticket; Codex runs on one host; a record is never lost; a final status is kept until an abandoned request writes over it; the monitors implement the ticket service |
| `services`, audit | 3 transactions of 3 attempts behind up to 2 unhashed rows and one of the older serialization, 2 faults | one unforked chain; mutation and row share their fate; verify accepts what was written, and reports an edited row itself, a deleted one at its successor, exchanged ones at the earlier position |
| `services`, tickets | 1 host with one abandoned request at a time, 1 operator, 2 updates | a ticket that waits for verification or is closed is complete, and a terminal one is unclaimed |
| `services`, learnings | 1 pattern, 2 texts, 2 devices, 2 reviewers, 2 tries | only approved texts are active, and the version changes with them |
| `services`, assets | 2 assets, 2 keys, 1 contributor, 2 administrators, 1 device, 3 writes | reviews fall on the latest version; a published one was reviewed, and so was what a device is answered unless the asset was written between the two reads |
| `services`, work | 2 uploads at a time, 3 in all, 3 sessions | uploads in order form one chain |
| `services`, roles | 1 role, 1 team, 1 assignment, 2 models, 3 policies, 3 edits, 2 bundles | a layer only restricts, and equal versions mean equal bundles |
| `services`, provider | 2 keys, 2 supervisors, 1 console writer, 2 revisions | the last supervisor stays on record, and a key reported active is the one the recorded supervisor was started with |
| `services`, accounts | 1 account, 2 passwords, 2 logins, 1 management call at a time, limit 1 | no more guesses than the limit and the logins under way |
| `console` | 2 administrators, 1 organization, 2 tickets, 4 batches of requests | in the four panels that number their requests a late answer changes nothing (the others show whichever answer comes last); a tab at rest is usable; operator views show to operators; a form saves its own ticket |

Bounds. Two requests for one code are the race; a third repeats one of them, since a claim involves only
its winner and its losers. Two faults are a failed step and a failed compensation; three let a retry
fail again. Two binding calls from no row are an upsert beside another one or beside its verification;
two that meet an ACTIVE row are a verification of it and whatever changes it meanwhile. `MCBinding`
starts in the second state, which `ControlPlane` reaches by an upsert and two verifications, so that
`binding` need not walk there. Two origins are the recorded and another one. Three audited transactions
are a winner, a loser and one that overtakes the loser's retry; with three attempts instead of four the
last one is reached. Two alert attempts are a first and a last one; three submissions are the creation
and two concurrent recurrences; two faults are a crash and a failed delivery, or two failed deliveries.
Two monitors are an owner of the claim and a rival; two disturbances are a failure and another while it
is repaired. In the services two callers are one that has read and one that writes in between; a third
write lets the first one's result meet a changed row again. One account and a limit of one let two
logins pass the check together. A console behaviour visits one view, or one of the pairs that share a
cache or a login. An operator's two updates release a ticket with its version and take it back with the
version cleared; the monitor's requests range over every status. Symmetry is used only where the
interchanged values play the same part, and never with liveness. `MCMonitor.cfg` combines it with
`ImplementsTickets`, a temporal formula of the form `Init /\ [][Next]_vars` that treats the hosts alike:
a step is a step of the ticket service exactly when the step with its hosts interchanged is. No deadlock
check: the calls are finite, so the system stops.

Fairness. For `binding`: the process serves the calls it has accepted (weak fairness of
`RevokeProceeds`), and an administrator repeats a revocation that the fleet view shows as pending
(strong fairness of `RevokeStart`, since a crash or a failure may interrupt any attempt):
"a remote failure remains visibly pending and a retry idempotently finishes the same operation"
(`admin.service.ts`). Remote systems fail finitely often. Nothing is assumed of enrollments or
binding calls. For `alerts`: a process that runs goes on with the row it has claimed and polls again
(`tick` drains the queue and its timer fires every interval, also after an error), and times pass;
nothing is assumed of submitters and administrators. An alert may also end where the code leaves it
after a crash in the last attempt, SENDING with every attempt used, which `AlertSettles` names
`Exhausted`: no worker claims it and `retryAlert` refuses it.

For `stuck_transition`: a running monitor's threads go on, Codex ends, and the ticket service answers
the calls it has accepted; the fault happens once, so the record is not held back by the environment.

Disagreements. Five runs check what a comment, a test or the changelog says, and TLC shows a
behaviour of the code that contradicts it:

* `overtaken_token`: the intent transaction finds no token; the token is created after it.
* `stuck_transition`: Control accepts the closing status and releases the claim, the Desk call
  fails; the repeated transition is refused for want of the claim, in every later pass.
* `unseen_text`: a pending text is replaced between the list and the approval; the revision that the
  approval carries has not changed.
* `unreviewed_served`: a contribution is committed between the two reads of `manifest` or `getAsset`;
  the device is answered the version nobody has reviewed.
* `taken_back`: an acknowledging or starting transition is given up by its monitor, after 30 s or at
  once because the connection drops. It has read the row and is written after the outcome; the update is
  by id alone, so the settled ticket is open again while the record is archived.

More can be read off the model without a run of their own:

* The last write of an enrollment fails with a Desk installation behind it. The compensation revokes
  it and the device row is deleted, and the rollback row still reports a pending Desk cleanup, since
  the flag is computed before the compensation (`enroll.service.ts:229`); the test of a complete
  rollback expects it false (`test/enroll.test.ts:526-532`). Hence `\ deviceRemoved` in
  `RollbackIsTruthful`.
* The organization's policy says nothing of personal model connections, which means deny; a team
  allows them and the merged policy does, against `roles.service.ts:20-21` and the name of the test at
  `test/roles.test.ts:50`. `MergeRestricts` does not count an omitted consent as a restriction.
* /key/generate is lost and the adapter's cleanup fails; the alias survives, the row is deleted and
  the code restored, against `enroll.service.ts:222-223` (hence `swallowed` in `NoOrphanKey`).
* After a crash before `deviceToken.create` no token row names the alias, and the revocation
  completes without deleting it, against `schema.prisma:194-195`.
* A recurrence is stored and the statement that would reopen the report fails; nobody is notified,
  against `schema.prisma:411-412`. Two retries that both read FAILED can queue an alert again that
  was delivered in between; the uuid keeps Feishu from showing it twice.
* Desk may execute /register after it answered the compensation "missing" (hence `~LateDelivery` in
  `RestoredCodeIsClean`); a revocation that reads the row before the reservation completes and the
  registration follows (hence `racing`); seats are counted before the claim and without a lock.
* `verify` cannot notice that the last rows of a chain were deleted, since nothing links to them.
* Overlapping uploads fork the chain of work sessions (hence `disordered` in `InOrderChain`).
* A record that the worker archives while enqueue still completes it is restored and worked on again
  (hence `overlaps` in `FinalStatusKept`); two disturbances can start Codex on two hosts (hence the
  bound in `OneWorker`).
* While a monitor stands before its first reply, an operator rejects the ticket and reopens it, and
  another monitor is granted the claim: both reply (hence `updates = 0` in `AckOnce`).
* The import of the provider key looks for a stored key and stores its own afterwards; a key saved
  in between is replaced. Two bootstraps may both count no account and create one each.

## 5. What is proved

Each theorem holds for every value of the constants that satisfies the assumptions of its module:
any number of requests, codes, administrators, binding calls, origins, audited operations, reports,
workers, hosts, operators, keys, supervisors, assets, devices, texts, uploads, roles, logins, tabs'
requests, and any bound. The assumptions give the constants their types and say
that `None`, the null of the databases, is not one of the values it stands beside (an id, a row, a
policy). `IsFiniteSet` is assumed where a cardinality or a minimum is taken: requests, logins,
evidence, teams, assignments. `RolesAssumption` says that stored policies have the shape
`normalizePolicy` gives them, `AuditAssumption` that the older serialization belongs to an enrollment
code, as the migration has it.

| Module | Theorem | Property | From |
|---|---|---|---|
| `ControlPlaneProofs` | `TypeCorrect` | `TypeOK` | `TypeInv` |
| | `ClaimIsExclusive` | `ClaimExclusive` | `ClaimInv` |
| | `Refinement` | `ImplementsContract` | `TypeInv`, `ClaimInv` |
| | `KeysHaveRows` | `NoOrphanKey` | `KeyInv` |
| | `RevocationClosesAccess` | `RevokedIsClosed` (not in a run of its own) | `RevokeInv` |
| | `InstallationsAreOnRecord` | `NoOrphanInstallation` | `DeskInv` |
| | `CompletionRevokes` | `CompletedIsRevoked`, `CompletedIsUninstalled` | `RevokeInv`, `DeskInv` |
| | `BindingCredentialIsStored`, `ActiveBindingIsVerified` | `CredentialIsStored`, `ActiveIsVerified` | `BindingInv` |
| | `RevocationTargetIsKept` | `ProvenanceFence` | `DeskInv`, `BindingInv` |
| | `AcceptedStaysUsable` | `SuccessIsUsable` | `ForwardInv` |
| | `RestoredCodesAreClean`, `RollbacksAreTruthful` | `RestoredCodeIsClean`, `RollbackIsTruthful` | `UndoInv` |
| `AuditChainProofs` | `AuditChainIsUnbroken`, `MutationsAreAuditedOnce` | `ChainUnbroken`, `AuditedOnce` | `AuditInv` |
| | `VerifyAcceptsHistory`, `VerifyLocatesTampering` | `VerifyAccepts`, `TamperingIsLocated` | `AuditInv`, `HistoryInv` |
| `ServiceProofs` | `SentAlertsAreDelivered`, `FailedAlertsAreExhausted`, `GenerationsAreReopenings` | `SentIsDelivered`, `FailedIsExhausted`, `ReopensOncePerResolution` | `AlertInv` |
| | `ActivationStaysTruthful` | `ActivationIsTruthful` | `ProviderInv` |
| | `FewGuesses` | `GuessesAreLimited` | `AccountInv` |
| `TicketProofs` | `TicketsSettle` | `SettledTicket` | `TicketInv` |
| | `MonitorsUseTickets`, `MessagesSurvive` | `ImplementsTickets`, `RecordSurvives` | `MonitorInv` |
| | `OneAcknowledgment` | `AckOnce` | `AckInv` |
| | `OutcomesAreKept` | `FinalStatusKept` | `FinalInv` |
| `WorkerProofs` | `OneWorkerAtATime`, for `Lease > 1` | `OneWorker` | `WorkerInv`, `AckInv`, `FinalInv` |
| `ConsoleProofs` | `TabComesToRest`, `OperatorViewsStayGuarded`, `SavedTicketsMatch`, `LateAnswersStayIgnored` | `RestIsReady`, `OperatorViewsGuarded`, `TicketSavesItsForm`, `LateAnswersIgnored` | `ConsoleInv` |
| `OrganizationProofs` | `PublishedAssetsAreReviewed`, `ReviewsFallOnTheLatest` | `PublishedIsReviewed`, `DecidedOnLatest` | `AssetInv` |
| | `BundlesStayApproved`, `VersionsCoverBundles` | `ActiveIsApproved`, `VersionCoversBundle` | `LearningInv` |
| | `OrderedUploadsChain` | `InOrderChain` | `WorkInv` |
| | `BundlesRestrict`, `VersionsNameBundles` | `MergeRestricts`, `VersionNamesBundle` | `RolesInv` |

None of the properties is inductive by itself.

*Control plane.* `TypeInv` adds which steps imply that the device row
exists (`RowSteps`), does not exist yet, or is gone (`undoCode`): without it `CreateToken` might
write a token without a row. `ClaimInv` adds that a request standing at one of `HeldSteps` holds its
code; only then does the stamp comparison of `UndoCode` release the requester's own claim, even when
two requests share a millisecond. `KeyInv` adds that at `undoDevice` the key is already gone.
`RevokeInv` says that a requested revocation outside `racing` meets a finished enrollment, so what
the call has read and revoked stays true until it completes. `DeskInv` ties every installation to
the captured target of its request, the record to the installation, and an administrator's snapshot
to both: an installation can neither appear behind a snapshot nor survive the "complete" step.
`BindingInv` says that references are fresh: a reference is in the row only after its own call has
committed, and a call removes only a reference it has itself replaced or never published.
`ProvenanceFence` then is inductive: binding mutations that change the row are disabled while any
device has provenance, and a reservation copies the row it sees under the same lock. `ForwardInv`
says what the try block has built at each of its steps and that only the request itself or a
revocation takes it down; `UndoInv` says that each flag of the catch block implies the state it
reports, now and later, and that a pending cleanup is reported only where the device row carries it or
will not be looked at again. That includes what keeps it true later: a key that a lost request may still
create belongs to a request that never audited its enrollment, so it never writes a rollback row
either, and `undoAudit` is entered only by requests that did.

*Audit chain.* `AuditInv` adds that the sequence numbers are exactly the positions below the number
of rows, so the last row is the one to link to, and that a call still running has committed nothing,
so a repeated attempt cannot append twice. `HistoryInv` is the shape of every history: unhashed rows
up to some position, perhaps one row of the older serialization there, and from it on only rows
whose digest covers their own identity and the digest before. What `verify` returns for such a
history, and for one with an edited, deleted or exchanged row, is shown by induction on the number of
rows it has read.

*Services.* `AlertInv` adds that generation and attempts as read by a delivery are
those of the row for as long as the row carries its claim: every action that changes them clears or
replaces the claim. `ProviderInv` adds that a revision never stands for two keys and that a
supervisor past its start knows the key and revision it read together. `AccountInv` counts the
refusals of an open window together with the logins that have passed the check and wait for their
verdict: a login is admitted only below the limit, so the sum cannot exceed the limit by more than
the other logins.

*Tickets and monitors.* `TicketInv` adds that a transition that has passed its checks carries the
version and steps its write needs, whatever the row has become since. `MonitorInv` adds what a pass
may rely on at its position: its file, the archive it has written, the transition it repeats. For the
acknowledgment, `AckInv` looks at the states before the first reply (`Unreplied`): a
host that may still reply has a request at Control or a grant younger than five minutes on one of its
copies, and at most one host can, because a grant outdates the tokens of the others and lasts
longer than a pass. After the reply the thread in Feishu shows it to everybody. For the outcome,
`FinalInv` follows the tokens: as long as the ticket is claimed, every copy with the latest token is
the owner's and knows that the ticket is finished, or carries the transition that finishes it; a
request at Control for which its monitor still waits is the owner's and takes no finished ticket back;
and a worker that still waits for an answer waits for the request its own pending transition names. A
time-out leaves a copy in the queue that repeats the same transition, and a request that runs on
unattended: what it writes either leaves a settled ticket settled or is the reopening `takenBack`
records, from which on the property is silent and `taken_back` shows why.

*One worker.* Two different things keep Codex on one host, and `WorkerInv` needs both. The first is the
thread: a host *owns* the message when one of its copies says that it acknowledged it itself, or that a
send is in flight (`Owns`); only an owner ever starts Codex (`RunsInv`). A second owner would have to
read an empty thread while the first is about to reply. Without an operator's update `AckInv` excludes
that; with one update and nothing else `RaceInv` does: until the first reply one host at most has a
grant it may still act on, the claim is its own or the ticket is finished for good, and no monitor's
request is on its way. So ownership is unique (`OneOwner`) until a send is cut off, by its fault or by a
crash, and its marker stays in the file: then the next pass of that host takes whatever reply it finds
for its own, and a second host may own the message too. From that moment the claim takes over. As that
cut-off was the one disturbance, no update and no overlapping pass comes with it, and `ClaimKept` holds:
each host that may start Codex without asking Control again has the latest token and a whole lease, and
a running Codex renews its claim before it runs out. The theorem assumes `Lease > 1`, which
`CLAIM_LEASE_MS` of three units satisfies: with a lease of one unit a claim would run out between two
renewals, and the host with the marker could be granted it while the other one runs. That a grant or a
step of another host leaves a host's rights alone, the lemmas on what each action does to the copies
(`StartGoes` to `CrashGoes`) state once for all the invariants.

*Console.* `LateAnswersIgnored` is about the four numbered panels. `ConsoleInv` says that a busy button
or a waiting cache has its request in flight, that the view on display is one its session may see, and
that the open form belongs to the open ticket.

*Organization.* `AssetInv` adds that a call whose stamp still is the row's has read the latest version:
every write to a row takes a new stamp, so an unchanged stamp means an unchanged latest version. For the
same reason a device whose asset was not written between its two reads is answered the version that was
reviewed. `LearningInv` adds that what is under review exists and stays. `WorkInv` adds, as long as
nothing has overlapped, that the link an upload has read is the newest stored session below those it
still has to store. `RolesInv` adds that a role's version fixes its content, now and in what has been
served. That a merged policy allows no more than any of its layers is shown by induction on the number
of layers.

Induction. `NatInduction` derives induction over the naturals for a *set* (`InductionOnSet`) from the
well-foundedness of `<`. `mergePolicy` and `verify` are written as functions on the number of layers
and rows, so the set of numbers for which the claim holds can be put in its place.

Each proof has one step per actor, and under it one per action that can disturb the invariant; the
frame lemmas (`EnrollFrame`, `RevokeFrame`, `BindingFrame` and their like) discharge the rest. Every
inductive invariant was model-checked on the instance of its component's run before it was proved.

`TypeOK`, the statement of `TypeCorrect`, and `RevokedIsClosed` have no run of their own: they are
conjuncts of the invariants above. What an intent outside `racing` closes stays closed by its
transaction alone, and the interleaving that opens it again is what `overtaken_token` shows.

Every safety property of the passing runs is proved. Only model-checked: `RevocationCompletes` and
`AlertSettles`, because liveness under fairness is outside what TLAPS can prove.

## 6. What is left out

* Expiry of a code is the parameter `unexpired` of the first read: the claim compares with the same
  `now`, so it cannot come out differently. Token expiry and the spend cap are not modelled.
* `activeForEnrollment` is a read whose result only goes into the answer; its failure is a
  `ReserveFails`. The audit rows of the binding mutations follow their commit and nothing reads them.
* The branch of the catch block that persists pending cleanup when no reservation was prepared
  (`enroll.service.ts:230-256`) is unreachable: with the bindings service injected, a
  `DeskProvisioningFailure` is thrown only after `onPrepared`.
* A database call either happens or fails; a commit whose acknowledgement is lost is modelled for
  `transact` only.
* `transact` is modelled once, for any mutation; the enrollment modules treat an audited transaction
  as one step that happens or fails, which `AuditedOnce` justifies.
* Crash reports: the in-memory rate limit, the texts and their sanitizing, and two processes whose calls
  begin in the same millisecond and claim the same row one after the other (it takes a reopening or a
  retry within that millisecond). A claim is re-checked against the present time instead of the time the
  call began; the next round of the same call would find the same row.
* Tickets and monitor: the texts and their sanitizing, the event rows, `nextAttemptAt` (a delay),
  pruning of archives. A pass takes less than a time unit of five minutes unless it runs Codex, and so
  does a request its monitor has given up on. The claim of a request is checked at its sending: a
  claim that holds when a delayed request arrives held when it was sent, since every grant draws a new
  token, and a request that is refused on arrival is one that was lost.
* Learnings: the scoring of evidence beyond the window and the limit. `VersionCoversBundle` is about the
  tables; the bundle's two reads, of the version and of the candidates, are not modelled apart. Assets:
  the body beyond "may be refused", embeddings, the ranking of search (which reads published rows by one
  statement). Work sessions: redaction and listings. Roles: names, prompts and the other texts of a
  role; the bundle's version is a truncated digest (`roles.service.ts:506-509`), taken as injective; a
  consent that a layer leaves out is no restriction for `MergeRestricts`. Accounts: hashing, signatures,
  token expiry; one client address. Provider: the test request and the model catalog. Console: markup,
  toasts, translations and the repaint after a change of language, `peopleByOrg` (people already read
  are read again), and the texts of the forms that only send a request and reload their panel.
* heartbeat, provisionDeskAgent, syncKeyModels, the organization tree, fleet and usage reads, the
  outbound request policy, deployment scripts: reads, pure checks or sequential scripts, or left to
  the plan.
* `logSystem` is one insert into a table nothing else reads.
* The key material, the envelope encryption and the answers' validation are one outcome each:
  usable or not.
* The components marked `not_modelled` in `PROJECT.json`, for the reasons given there.
