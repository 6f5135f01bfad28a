# K5 Vision: verification development

TLA+ modules, TLC runs and TLAPS proofs for the operator product of K5 Vision
(`src/src/k5vision`): a Windows service that records cameras through MediaMTX,
keeps the recordings within a storage policy, finds persons in the pictures,
hands those events to provider services, prepares audited MP4 exports, shows live
and recorded video in native windows, and serves all of it to signed-in operators.

`PROJECT.json` holds the machine-readable part: the components, the runs, the
lines each definition stands for, the mutants that show each property can fail,
the hazards and the theorems.

## 1. The system

| Component | State it keeps | Operations | What is hard in it |
|---|---|---|---|
| Recording storage `operator_recording_storage.py` | policy, per-segment observations, scan generation, progress cache | `inspect`, `prune`, `configure_policy`, `recording_progress` | deletes files another process is writing; the wall clock may step; scans are abandoned half-way; requests write the cache during a scan |
| Product service `operator_product_service.py` | sources, paths it believes in, ready, needs_reconcile, disk_full, two child processes | `start`, `apply_sources`, `apply_recording_preferences`, `configure_storage`, `_maintain`, `stop` | processes die, API calls time out after being carried out, `stop` does not take the lock |
| Exports `operator_exports.py` | jobs, leases, readers, cache files, audit flag | `create`, `get`, `open_file`, `aclose`, `_load` | preparing and verifying threads, crash between file, metadata and audit, limits while sizes are unknown |
| Recording export `operator_export.py` | export slots, validation threads | `export`, streaming | the file changes between validation and sending; a cancelled request leaves a thread |
| Integrations `operator_integrations.py` | connections, deliveries, inbox (SQLite); handshakes and leases in memory | `capture`, `pull`, `respond`, `ingest`, `retry`, administration | statement-by-statement commits, at-least-once delivery, three interacting limits |
| Storage settings `operator_storage_settings.py` | settings document, directories, target marker | `configure`, `prepare_storage_migration`, `finish_storage_migration` | a copy of minutes that a crash, a fault or an outside change can hit anywhere |
| Person events `operator_events.py` | sampler observations, native worker, event store | sample, infer, record, retain, close | late answers of a killed worker, settings that change meanwhile |
| Camera store and onboarding `operator_product_state.py`, `operator_product_api.py`, `services/device_registry.py` | registry, camera store, preferences, probe vault, worker slots | connect, reconnect, rename, remove, recording preference | two files and a service written one after the other with roll-backs |
| ONVIF probe `operator_onvif.py`, `operator_rtsp.py` | nonce counter, clock offset, budget | clock, capabilities, profiles, stream URI, DESCRIBE | stale nonces and clocks in mid-probe |
| Accounts and sessions `auth_sessions.py`, `operator_identity_security.py`, `services/user_registry.py` | sessions, factors, challenges, accounts | sign-in, `resolve`, `revoke`, enrolment, account changes | state read in a thread before an await and used after it |
| Role policy `operator_role_policy.py` | profiles, bindings | create, update, assign, remove | two administrators at once; the last one must remain |
| Federated sign-in `operator_oidc.py` | provider, links, pending flows and completions | `start`, `callback`, `complete` | minutes between its steps |
| Audit log `operator_audit.py`, `operator_audit_middleware.py` | chained rows, anchor, seal | `record`, attempt and outcome, retention | three stores and a crash between them |
| Component state and profile lock `identity_state.py`, `operator_profile_lock.py` | identity files, lock file, component anchors | create, admit, lease | two programs at once |
| Product application `operator_product.py`, `operator_launch.py` | composition, capture thread, live launches | start, serve, close; launch, stop | order of closing; slots of launches that are cancelled |
| Time administration `operator_time_admin.py` | request and answer files, broker, leases | host and camera settings, cancel, close | an elevated helper that is nobody's child |
| Operator recording `operator_recording.py`, `media/framed_recording.py`, `media/recording*.py` | segments, sinks, receipts, descriptors, catalogue | record, rotate, finish, recover | file threads outlive the await that started them |
| Playback `operator_playback.py`, `media/playback*.py`, `media/gstreamer_playback_decoder.py` | window, clock, control, decoder, slots | read, pace, decode, pause, seek, close | 32-bit timestamps, pauses inside waits and deadlines |
| Presentation `media/presentation_*.py`, `media/mixed_presentation.py`, `media/live_presentation.py`, `media/viewport_dispatch.py` | runtimes, sessions, stream tasks, generations | start, replace, stop, close | cancellation of some of many tasks, each with its own clean-up |
| Live view and media session `media/live_view.py`, `media/session.py`, `media/gstreamer_*.py` | leases, shared session, native pipeline | acquire, release, recover, deliver | native calls in threads nobody can interrupt |
| Windows operator UI `media/windows_operator_*.py`, `media/viewport_editor*.py`, `media/windows_viewport_*.py` | requests, history, generations, three nested locks, windows, surfaces | edit, undo, replace, resize, wait, close | two tasks that ask for the locks in opposite order |
| MediaMTX provider `media/mediamtx_provider.py` | admitted reads, shared snapshots | read, snapshot, close | threads that outlive a timeout |
| Native processes `operator_native_process.py` | job object or process group, gate | start, poll, stop | process numbers are reused; the owner may die |
| Analytics runtime `analytics_runtime.py`, `media/analytics_overlay_delivery.py` | native sessions, pending frames | open, submit, close | close may time out |
| Site server and tools | none of their own | | not modelled |

How they interact. The product application starts the services in one event loop:
the product service owns MediaMTX and asks recording storage whether there is room;
MediaMTX writes the segments that recording storage deletes and that storage
settings moves, the latter only before anything else has started. The person-event
sampler reads the same segments; its events go through the event store into the
integration journal, read by a capture loop in a thread. Onboarding writes the
registry and the camera store and then tells the product service. Exports, account
changes and audited requests commit an audit record before they are visible. The
operator UI builds a presentation of live views (over the MediaMTX provider) and
playbacks (of recordings), replaces it as a whole, and paints into native windows.
Request handlers are coroutines on the loop; blocking work (files, SQLite, password
hashing, native processes, GStreamer) runs in threads, so the hard behaviour is at
every `await asyncio.to_thread(...)`, every cancellation, every crash, and every pair
of stores that are written one after the other.

What makes each part correct:

* recording storage: nothing is deleted that may still be written, every directory
  keeps its latest footage, the saved policy is obeyed, progress is reported only for
  bytes that really arrived;
* product service: *ready* means the worker has the saved configuration, no native
  process outlives the service, it recovers from any finite run of faults;
* exports: limits hold while sizes are unknown, a file being read stays, what is offered
  was audited, what is served is what was prepared or verified, everything settles;
* integrations: no event in scope is lost, doubled, or delivered out of scope; a second
  delivery is announced; an answer is final;
* storage settings: footage follows the active directory, which never holds a
  half-written copy; nothing is overwritten;
* accounts, roles, federation: nobody holds a session of an authority, a password, a
  federation or a second factor that is no longer in force; no code is accepted twice;
  nobody gives what they do not have; an administrator always remains;
* audit: no request acts without its attempt on record, a lost log is noticed;
* person events: an answer belongs to the frame it was asked for, an event to bytes that
  arrived under the present settings;
* onboarding: registry, store and service agree, or the camera is known to be astray;
* time, start-up, probe: a prompt accepted late changes nothing, one program serves a
  profile, an honest camera is not refused;
* recording and playback: a published recording is whole, playback is on time, pauses
  included;
* presentation, live view, UI: a stop ends everything it started, viewports are handed
  frames one at a time and never after release, undo restores what can be restored;
* native work: slots and processes are counted exactly and never belong to two owners.

## 2. The modules

Every definition that stands for code names its lines in `PROJECT.json` ("map"). Most
modules have one kind of process location (`pc`, `tpc`, `xpc`, ...): one value per
suspension point of the coroutine, since on one event loop nothing else runs between two
of them. A thread is a separate place that ends in its own time, whatever becomes of the
coroutine that awaits it.

### Storage and service

`RecordingStorage` - `state, size, mtime` are the files; `obs` is `_observations`,
`slots/samples` the progress cache, `observed, ...` the scan in hand. A scan is many steps
because the recorder and the requests run beside it. Deleting is two steps, the last look
(`RecheckCandidate`) and the `Unlink`. The recorder is external and modelled from what the
code relies on. File times are arbitrary members of `Stamps`; ages of observations use the
monotonic clock `mono`.

`StorageMigration` - the running product (write, prune, stage, stop) and the start (`Boot`,
then `Prepare`, `Mark`, `TakeInventory`, copies, `Recheck`, `Activate`) with a fault or a
crash at every step. A copy is a temporary file, a hard link, an unlink. `Tamper` is
something outside K5 changing files.

`ProductService` - the worker's configuration is one of none / off / on for each path.
Every call of the worker's API is a step that can succeed, fail, or fail after it was
carried out. `_maintain` is a cycle of steps (`task`) under the asyncio lock; `stop` runs
beside it. History variable `lostUpdate` marks finding 1.

`ExportManager` - a job has three files (`.part`, `.mp4`, `.json`). One request at a time is
inside `_prune`; the preparing thread of each job and the verifying thread run beside it.
`Crash` forgets everything but files and audit log, `Load` is `_load`.

`RecordingReaders` - exports of a finished recording (reserve a slot, validate in a thread,
open, compare identities, stream) and the playback slots with their remote control.

`IntegrationJournal` - the person event store with its own retention, the journal with one
row per connection and event, the inbox, and the volatile handshakes and leases. Capture is
statement by statement (`phase`) since each commits by itself. `MCIntegrationJournal` adds
the symmetry of cameras and answers.

`PersonEvents` - the sampler that notices growing files, the one native worker with its
pipe (`pipe` holds answers not read yet), the service cycle, and close.

### Accounts, audit and administration

`AccountSessions` - one account: its row, its factor, its provider and link; the session
tables; epochs, challenges and enrolments. Each sign-in has a place and what it has proved
so far. `loop` says in which part of a turn that threads can observe the event loop is
(`"pop"`: written, session still there; `"notify"`: session gone, pending work not yet
ended; `"completing"`: code consumed, account not yet read again). The locks of the routes
are guards. Changes written in a thread and changes written in the turn that revokes are
different actions, because requests see the state between the former.

`AccountAdministration` - several accounts with role profiles and bindings: what an actor
may give, the guard that an administrator remains, the lease of the routes and what a
cancellation does with it.

`AuditLog` - log, chain digest, anchor and seal as three stores; the middleware's
attempt, request and outcome; retention at the limit; a crash or a lost file anywhere.

`CameraOnboarding` - registry and store as two files with one open transaction (`tx`), the
service's sources, the probe vault with claims, the connector's slots whose threads outlive
a cancelled request, roll-backs that may fail.

`CameraProbe` - the exchange with one camera; the camera is honest or answers anything.

`TimeAdministration` - requests under the lease, files, broker and elevated helper.

`StartUp` - exclusive creation of the identity directory, its admission, the profile lock
and the order of opening and closing the parts.

### Media

`PresentationPipeline` - runtime, controller, session, coordinator with one task per
stream, deliveries and dispatcher, with an owner (start, stop, close) and a waiter.
`ViewportContract` is what it promises the viewports: one frame at a time, none after
release, at most `MaxFrames`, over only when released. `KeepsContract` is the refinement,
`INSTANCE ViewportContract WITH` a mapping of the pipeline's state.

`PresentationSupervisor` - supervisor and host: generations that replace each other, calls
that overlap and are cancelled, and the totals.

`LiveView` - leases on one shared media session, its boundary and native threads.
`LiveDelivery` - a multi-view run: one task per slot, with maker, puller and closer threads
under the slot's native lock.

`RecordedPlayback` - reader (timestamps modulo `Modulus`), window and navigation, schedule,
pause control, pump and decoder, in virtual time.

`OperatorRecording` - segments, sink, attempt and descriptor, file threads (`jobs`) that go
on after an interruption, and the recovery of the catalogue.

`OperatorSession` - the session's loop S and the waiting task W with the three locks and
their queues, the request queue, layout history and generations.
`ViewportWindows` - native windows, surfaces, relayout and painting with exact geometry.

`MediaProvider`, `NativeProcess`, `OperatorLaunch` - bounded reads and shared snapshots; one
owned process tree on Windows or POSIX; launches with their analytics workers.

### Modules that only serve the runs

`MCRecordingStorage`, `MCAccountSessions`, `MCMedia` and `MCServices` put several components
into one run. The components in one of them share no variable and no action, so a behaviour
is about one of them: `part` names it. Nothing is lost: `part` is chosen freely at the start,
and the state space is the sum of the components', not the product. Each property they
state is a conjunction of the properties the components' modules state, such as "if this
behaviour is about the windows, then ...".

Some components keep their variables by name and rest in their initial state while another
part is checked (storage maintenance, accounts and administration, the move of the
recordings, the journal, audit log, time and start-up); the others are `INSTANCE`d with
`s1, s2, ...` for their variables. The constants of all of them are constants of the MC module, with named assumptions no
stronger than "bounds are naturals" and "the value that stands for nobody is nobody". Their
values are in the `.cfg` file, so that what a theorem says of these modules it says of every
instance, and the run evaluates the assumptions on one.

## 3. The runs

| Run | Instance | What it shows |
|---|---|---|
| `recording_storage` | 1 camera, 3 segments (2 from an earlier run), 2 wall-clock readings, clock to 2, 2 scans, policies with and without retention; and 3 cameras on 2 progress slots with a restart | `DeletedWasStable`, `DeletionsJustified` (retention honoured, latest footage and one segment kept), `ProgressHonest` (progress is real, nominations survive a scan, cache bound) |
| `product_service` | 2 paths, 2 requests, 4 faults, fair | `ServiceOwned` (no orphan), `ReadyMeansAppliedUnlessCleared`, `Recovers` |
| `product_lost_update` | 2 paths, 2 requests, 2 faults | violation of `ReadyMeansApplied` (finding 1) |
| `export_manager` | 2 exports, clips of up to 2 units in a cache of 2, 1 reader, 1 crash, 1 fault, fair | `CacheSound`, `OfferedWasAudited`, `ServedIntact`, `Settles` |
| `export_audit_refused` | 1 export, 1 crash, 1 fault | violation of `RefusedNeverOffered` (finding 2) |
| `integration_starved` | 1 connection, 2 cameras, window 1, fair | violation of `DeliveredAtLeastOnce` (finding 3) |
| `storage_retry` | 2 directories, 2 segments, 1 fault | violation of `RetryReusesCopies` (finding 4) |
| `account_sessions` | 2 sign-ins, 2 roles, 2 changes of anything, clock steps 0 and 1, 1 recovery code, restart anywhere; and 2 users with 1 profile, 2 overlapping requests, 4 calls | `SessionsSound` (authority, revocation, factor, code used once), `AdmittedCurrent`, `AdministrationSound` (an administrator remains, nobody gives what they lack) |
| `presentation_pipeline` | a live and a recorded stream, 2 frames, fair, deadlock checked | `RunClean`, `KeepsContract` (refinement of `ViewportContract`), `StopEndsTask` |
| `operator_session` | 2 plans, 2 generations, 3 edits, 3 requests, queue of 2, history of 1, 2 faults, fair | `SessionSound` (nothing left behind, generations counted once), `LayoutsAgree`, `SessionEnds` |
| `media_components` | storage migration: 3 directories, 2 segments, 1 crash, 1 fault, 1 outside change; the other components as instantiated in `MCMedia` | `HistoryFollows`, `NoPartialCopyActive`, `ActivatesExactCopy`, `NothingOverwritten`; `WindowsSound`, `RecordingsWhole`, `PlaybackFaithful`, `ReadersHonest`, `SupervisionSound`, `LiveRunsClean`, `WorkersOwned`, `LaunchesAccounted` |
| `services` | journal: 1 connection of each kind, 2 cameras, 2 events, all limits 1 or 2, crash anywhere; the other components as instantiated in `MCServices` | `JournalSound` (nothing lost, one row each, scope, bounds), `ReplayHonest`; `EventsSound`, `OnboardingSound`, `AuditSound`, `TimeSound`, `ProbeSound`, `StartSound`; `StepsHonest` |

Why these bounds are enough. Limits of the code (64 progress paths, 100 rows of a pull,
bytes of a cache, launches, reads, history) are constants set to 1 or 2, so that the code is
at its limit, one below and refused above in every run. Three segments give a directory one
that must stay and two that may go, in either order of their times. Three directories let a
move be staged, fail, and be staged elsewhere. Two changes let an account be disabled and
enabled again under a sign-in that started before; two sign-ins let one replace the session
or the challenge of the other. Two requests or calls per component are enough for every
pairwise race; three slots in `LiveDelivery` let one fail, one finish and one hang in native
code. In `RecordedPlayback` the origin is chosen so that timestamps wrap within the recording, and
one recording steps back. `OperatorRecording` allows six interruptions: more reach no new
state. `OperatorSession` allows two faults: the worst
end of a run needs one that makes the waiting task fail and a second, later, that leaves a
window open. Each counter of crashes, faults, requests, cancellations or outside changes bounds
*how often*, never *where*: it may fall at any step.

Deadlock is checked in `presentation_pipeline`. The other systems may stop (a stopped
service, a closed manager, a finished probe) or reach the bound of their clock or requests.

Symmetry: cameras and answers in `services`, sign-ins and roles in `account_sessions`,
segments and the directories other than `Default` in `media_components`. The modules and
properties treat these alike, and these runs check no liveness.

Fairness. `ProductService`: tasks of a running event loop and joined threads make progress
(weak fairness on the steps of `apply_sources`, `_maintain`, `stop`); nothing obliges a
request or a fault. `ExportManager`: threads run and a request inside `_prune` returns; what
waits for the loop stands in its first-in first-out queue, so no other request can overtake
it forever, which is strong fairness of a step that other requests disable for a moment.
`PresentationPipeline`: the task runs, a cancelled stream ends, decoders close within
their timeouts; a stream that delivers owes nothing, and no fairness helps a stop that is not
obeyed. `OperatorSession`: both tasks get their turn; requests and faults are not
obliged. `IntegrationJournal`: the capture loop runs, and the provider keeps shaking hands
and pulling; without the latter nothing is owed.

## 4. What is proved

Every safety invariant and every action property the passing runs check is stated by a
theorem; what stays with TLC alone is liveness (see the end of this section).

`RecordingStorageProofs`, for every number of cameras, segments and progress slots, every
clock and every policy:

* `WorkerTypes`: types of the files, the clocks and the maintenance worker;
* `DeletionSafety`: `DeletedWasStable`. The property speaks of a step long after
  the facts it rests on: the inductive invariant adds that no write is in the future
  (`WrittenBefore`), that an observation that still matches its file
  dates from after the file's last write (`ObservationsSound`), in the committed
  observations as well as in the scan in hand, and that the candidate in hand was looked
  at less than a step ago (`InHandSound`). An abandoned scan is the case that makes
  this needed: it leaves observations of mixed generations.
* `DeletionInvariant`, `DeletionsStayJustified`: `DeletionsJustified`. Between the scan that
  lists the candidates and the `Unlink` the recorder writes and the administrator changes the
  policy. The invariant (`DInv`: the one above, the types of the loop's locals and
  `DeletionInv`) says that every segment that may yet go leaves one that may not, and one
  that changed later (`Spared`), and that the bytes the loop believes in are no more
  than the files hold (`TotalSound`). The total is a sum over the segments; `TotalIsSum`,
  `TotalMonotone` and `TotalChange` are proved by least counterexample (below).
* `ProgressInvariant`, `ProgressStaysHonest`: `ProgressHonest`. A size outgrown since a
  complete scan was outgrown by a write after that scan began; a nominated path has its slot.

`MediaProofs`, for every set of directories and segments and any number of crashes, faults
and outside changes: `Types`, `FootageFollows`, `WholeCopiesOnly`, `ExactActivation`,
`OriginalsKept`. The inductive invariant adds `AttemptSound`, which says for each stage of an
attempt what is already known of both directories: the inventory still equals the source
unless something outside changed it, and what was verified equals what was inventoried.
Activation then follows from the last recheck alone.

The other parts of `MCMedia` have one inductive invariant each, kept in the section "What
makes them inductive" of their own module and checked by TLC before it was proved;
`MediaInvariant` says the one of the part a behaviour is about holds. From it:

* `WorkersStayOwned` (`WorkersOwned`): a slot belongs to the thread of the read, which
  outlives its caller, and a snapshot that is returned was begun after the question;
  of an owned process tree the invariant `NatInv` says when the job, the leader and the
  child exist, and that its number is not reused while a stop may signal it (`NumberReserved`).
* `LiveRunsStayClean` (`LiveRunsClean`): one call holds a view's lock and every native
  thread serves it, also after that call was cancelled; in a multi-view run each slot's
  makers, pullers and closers exclude each other and the counts add up.
* `ReadersStayHonest` (`ReadersHonest`): the leases are exactly the requests that validate
  or stream, and the file that is open is the one validated.
* `SupervisionStaysSound` (`SupervisionSound`, an action property): the call that holds the
  lock and what it has done to the host so far (`CallHolds`), and that a host that runs is
  the supervisor's (`HostHolds`).
* `LaunchesStayAccounted` (`LaunchesAccounted`): slots and native shares counted are those of
  launches and threads that are there, and the counters of an overlay balance.
* `WindowsStaySound` (`WindowsSound`): handles held are different from each other
  (`HandlesApart`) and are those created and not destroyed; the tiling of the client area
  by image and bars is proved from integer division, for every size.
* `RecordingsStayWhole` (`RecordingsWhole`): of each file thread, what it leaves on disk
  when it ends and who takes that away if the task has gone on (`ThreadSound`), and of the
  task what it may rely on at each of its places (`TaskSound`). What it promises of a
  recording `stuck` behind two interruptions is less, as the property says.
* `PlaybackStaysFaithful` (`PlaybackFaithful`), for every recording, rate, window, modulus and
  origin: what was read is the media time, because a difference of two timestamps below half
  their range determines the step (`StepFromStamps`, from the uniqueness of remainders);
  what was handed over is what was read of the window (`HandedSound`); a deadline and what
  is left of a suspended one add up with the work done (`DeadlineSound`).

`PresentationPipelineProofs`, for any viewports, plan and number of frames: `CleanRuns`
(`RunClean`) and the refinement `PipelineKeepsContract` (`KeepsContract`: initial states map
to initial states of `ViewportContract` and every step to a step or a stutter). The
invariant ties the consumer lock to the stream whose frame is at its viewport (`LockSound`),
decoders to streams that have something to close, and the dispatcher's gate to the
reported state (`GateSound`). `ReleaseSound` is the part one does not see at first:
consumers survive the end of a task only under a stop that cancelled it before it first ran,
and that stop still releases them.

`ProductServiceProofs`, for any paths, requests and faults: `NoProcessLeft`
(`ServiceOwned`) and `AvailableIsApplied` (`ReadyMeansAppliedUnlessCleared`). What makes
"ready" trustworthy is that a reconciliation is pending at every moment the worker and the
saved cameras may differ: during a request (`ApplyingSound`: every path with no call to come
is already as it should be) and between requests (`WorkerSound`), while an iteration that
got past the worker has cleared it (`IterationSound`).

`ExportManagerProofs`, for any number of exports, limits, crashes and faults:
`CacheStaysSound` (`CacheSound`), `OfferedAudited` (`OfferedWasAudited`) and
`DownloadsIntact` (`ServedIntact`). The bound on the cache is a bound on a sum over jobs, in
which a job in preparation weighs the most it may become; the lemmas on such sums (change of
one term, of the set, comparison of two) are proved by induction on the naturals stated for
a set, which the provers can use. A file that is being read is kept because whatever may
remove it (pruning, expiry, clean-up) looks at the readers in the same step in which it
removes.

`OperatorSessionProofs`, for any plans, limits, requests and faults: `RunsLeaveNothing`
(`SessionSound`) and `OneLayoutShown` (`LayoutsAgree`). The invariant says for each step of
the loop S which locks it holds, and for each step of the waiting task W which of the
media, runtime, host and application states it may find; the layouts agree because the
request in hand still fits the history it was checked against (`RequestFits`).

`AccountSessionsProofs`, for any sign-ins, roles, changes and codes: `NoSessionOutlivesAuthority`
(`SessionsSound`) and the action property `AdmissionsCurrent` (`AdmittedCurrent`). The
strengthening says of each place of a sign-in what its proof is worth: the epoch, role,
version and factor it read are the current ones, or a later check in the same sign-in refuses
it. And for any users, profiles and overlapping requests: `AdministrationStaysSound`
(`AdministrationSound`). Its invariant keeps for every route what it has checked until it
writes. That holds although routes overlap, because the changes run under the lease and
what goes on without it (creating an account, selecting cameras) neither removes an
administrator nor takes a permission from one.

`ServicesProofs`, for any requests, programs, rows, faults and crashes:

* `TimeChangesExclusive` (`TimeSound`) and `ConfirmedTimeInForce`: a request that was
  admitted has the mutations lock until it returns (`LeaseInv`), and once an admission was taken
  back the thread is past the place that writes the request file (`AdmissionInv`);
* `OneProgramWorks` (`StartSound`): the program that installs is the one that made the
  directory (`InstallInv`), and a program that works holds the lock until the lifespan has
  closed the last part, whose order `Left` spells out (`LockInv`);
* `AuditStaysSound` (`AuditSound`) and `NoneRunsAfterLoss`: the rows are linked by number and
  digest through every append and every retention cut (`Linked`, proved to be what
  `_verify_chain` accepts), the attempt of a request that runs is durable (`AttemptInv`), and a
  sealed log that is lost stays lost (`ProcessInv`).

* `JournalInvariant`, `JournalStaysSound` (`JournalSound`), `ReplaysStayHonest`
  (`ReplayHonest`), `AnswersStayFinal`: capture commits statement by statement, and the
  invariant says at each which rows, cursors and debts agree (`CaptureTurns`,
  `CaptureFollows`), which keys were answered (`Answered`) and that the history of what was
  handed out is that of the rows (`HistoryKept`);
* `ProbeStaysSound` (`ProbeSound`): the budget of an exchange and the nonces used so far;
* `EventsStaySound` (`EventsSound`): which question the answer in the worker's pipe belongs
  to, also after a timeout left it unread;
* `OnboardingStaysSound` (`OnboardingSound`), `CamerasStoredUnderClaim`: registry, store and
  service between any two steps of a route, its roll-back and its restart;
* `EveryStepHonest` (`StepsHonest`): the action properties of all of them.

The assumptions are the `ASSUME`s of the modules: bounds are naturals, limits of the code
that are at least one are at least one, `Default` is a directory, policies have their
fields, timestamps are natural and rates positive, and the value that stands for "none" or
"nobody" (`None`, 0) is no camera, sign-in, profile, request, consumer or program. No
assumption restricts the instance further. `TLC` evaluates each on the runs, and each
inductive invariant was checked by TLC before it was proved.

Induction over data. The library's induction theorems take an operator as a parameter and
cannot be instantiated. Where a fact about all sizes was needed - sums over directories and
exports, what retention keeps of the journal - it is proved from the least counterexample:
a set of naturals that is not empty has a least member (`LeastNatural`), so
a set that contains 0 and with each number the next contains them all (`EveryNatural`).

Proving changed the models in these places.

* `NothingLeftBehind` of `OperatorSession` was false: with a second fault a session may end
  `user_closed`, with its window stuck, when the waiting task has failed; with one fault TLC
  could not see it. The property now says so and the run allows two faults.
* `ReplayHonest` of the journal was too strong: an event that was answered can wait again
  when a crash left the cursor behind it and retention has removed its row since. With one
  connection the run could not see it; TLC with two refuted it. It now speaks of keys that
  were not answered (`settled`).
* `MediaProvider` kept no trace of which snapshots had been superseded; the history set `over`
  says it, and no guard reads it.
* `CameraOnboarding`'s answers to a claim were a `CASE` with overlapping guards, which TLC
  resolves and the semantics does not; it is a chain of `IF`s in the order of the code.
* Written in another way, with the same behaviours: the journal's retention keeps a
  subsequence (`Keeping`) and does not filter with `SelectSeq`; sums are over functions
  (`ExportManager`, `RecordingStorage`); a recording of `RecordedPlayback` is its media times,
  no longer partial sums of steps, and what a window wants is a set handed over in order; the
  new row and tail of `AuditLog` have names; the MC modules take all constants from the
  `.cfg`.
* The origin of the timestamps in `media_components` was moved: they had not wrapped inside
  the recording.

Only model-checked: liveness (`Recovers`, `Settles`, `StopEndsTask`, `SessionEnds`), which is
out of the prover's reach, as is `ENABLED`; and the four properties of the runs that expect
a violation, which are refuted.

## 5. What the runs found

1. `operator_product_service.py:302` - a storage change between a failed camera
   update and the next maintenance round clears the pending reconciliation; the
   service becomes ready with the old cameras. `ReadyMeansAppliedUnlessCleared`
   shows that this is the only way.
2. `operator_exports.py:691` - a crash between a refused audit and the clean-up:
   the next start offers the refused file, against
   `docs/OPERATIONAL_AUDIT.md:75`.
3. `operator_integrations.py:663` - rows of a removed camera can fill the window
   of a pull for good, against `docs/OPERATOR_INTEGRATIONS.md:101`.
4. `operator_storage_settings.py:474` - retention between two attempts makes a
   finished copy a conflict, against `docs/WINDOWS_STORAGE_ADMINISTRATION.md:50`.

Weaker promises the models had to make room for, each visible as a variable or a
disjunct of a property:

* `operator_product_api.py:933` - the roll-back of a recording preference calls
  `apply_recording_preferences`, which refuses when the worker is not ready
  (`operator_product_service.py:507`), before the desired sources are touched. Recovery
  then restarts with the refused preference, although the comment at line 543 speaks of
  the previous durable intent. `CameraOnboarding` counts such a camera as `astray`.
* `media/framed_recording.py:181` - a second interruption while the sink waits for its file
  thread leaves that thread behind; after four, the finalize thread too. `OperatorRecording`
  marks these recordings `stuck` and promises for them only that nothing half-written is
  published.
* `media/mixed_presentation.py:222` - a frame may be delivered just after a pause.
* `media/windows_operator_session.py` - a run that ends with the window closed by the user
  reports `user_closed` although the waiting task failed and a window could not be
  destroyed (`NothingLeftBehind` excludes that case by name).

## 6. Not modelled, and the plan

Not modelled and not planned: parsing and formatting (contracts, MP4 boxes, ONVIF XML,
command lines), cryptography (hashes, tokens and signatures are taken as sound), Win32 calls
themselves (their outcomes are environment actions), inference and decoding (third-party),
the witness and build scripts under `scripts/`, which drive an installed product and
record evidence, the `*_evidence` modules (counters), the site server and the data
contracts (no state of their own), the media gateway (a proxy without state).

Left out of modelled components: cancellation of the export manager's preparing task
(`operator_exports.py:670`) and of `set_camera_access` (`operator_admin_api.py:350`, which
alone among the changes written in a thread does not go through `_complete_critical`; camera
access is no part of what a session is checked against here); a second Ctrl+C while the
application closes (`operator_product.py:243`); WS-Discovery; the UI's catalogue and overlays,
which translate messages into the modelled requests; queries of the audit log; the RTP relay
and pull, which have the thread discipline of `LiveDelivery`; the one-shot `record()`.

Abstractions worth knowing: file identities never repeat; a directory replaced during a
scan counts as an abandoned scan; in `ExportManager` an audit commit is one step that
succeeds or fails (`AuditLog` opens it up); a refused call that changes nothing is no
action; foreign files in the export cache, which make the manager refuse to start, do not
occur; in `AccountSessions` one issuer and one subject stand for all.

The components of one run share no variable. Where two of them do interact, one module has
both sides: recorder and maintenance worker, service and worker, event store and journal,
registry, store and service, log and anchor, session loop and waiting task, supervisor and
host.

Next, in this order:

1. The two hazards without a property: cancellation of `set_camera_access` and the roll-back of a
   recording preference to the service, each as an action of the module that has its route.
2. A contract of the export manager and one of the recorder, abstract as `ViewportContract`
   is, and the proof that the detailed modules keep them.
