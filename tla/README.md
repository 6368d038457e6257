# A verification project for LangNext

LangNext is a Tauri desktop application for translation, OCR and speech: a React
front end and a Rust back end (`src-tauri/src/`) that keeps its configuration in SQLite,
its secrets in the operating system's credential store, and calls providers over HTTP,
through WASM plug-ins or through native workers. This directory models the parts of the
back end whose correctness depends on the *order* of steps: what is written where, before
what, and what happens when a step fails, the process dies, or two commands interleave.

Contents: the [inventory](#inventory), the [modules](#modules) and how they correspond to
the code, the [runs](#runs) with their bounds, the [fairness](#fairness) assumed, the
[proofs](#proofs), the [disagreements found](#disagreements-between-code-and-documentation),
[what is not modelled](#what-is-not-modelled) and the [plan](#plan).

To repeat: `tlc -config X.cfg M` for every row of the table under *Runs*, and
`tlapm M.tla` for every `...Proofs` module.

## Inventory

Paths are relative to `src-tauri/src/`. Tauri runs every command on a task or a blocking
thread of its own, so any two commands interleave; SQLite connections are opened per call.

| component | state | operations | interacts with | what is hard | what makes it correct |
|---|---|---|---|---|---|
| credential journal (`credentials/coordinator.rs`, `repositories/credential_operations.rs`) | rows `prepared` / `db_committed`, unique per owner and slot | insert, mark committed, finalize, preflight, recover all | providers, settings, integrations, import, vault | no transaction spans SQLite and the vault; crashes; vault outages | a bound secret exists; no secret is forgotten; a left-over never blocks an owner for ever |
| provider service (`services/providers.rs`) | provider rows: version, `credential_ref` | create, update (keep, replace, clear), set_enabled, delete, reorder | journal, vault, runtime binding | reads before transactions; failed commits | optimistic versions admit no lost update |
| settings and proxy (`services/settings.rs`) | one settings document, proxy `credential_ref` | update (keep, replace, clear) | journal, vault | as above, without a version | as above |
| vault (`credentials/vault.rs`) | keyring entries, sealed overflow files | set, get, delete | journal | unavailable; a delete that fails half-way | idempotent deletion |
| token grants (`services/token_grant.rs` and the two exchangers) | cached tokens, latest revision per scope, eviction generations | acquire, evict | integrations, every authenticated call | exchanges in flight during replace, clear, disable | no token of replaced credentials outlives its eviction |
| service integrations (`services/service_integrations.rs`) | rows: version, health; slot bindings with revisions | save, set_enabled, delete, validate | journal, vault, tokens, endpoint trust, lifecycle | validation spans a network call; several slots | health is true of the stored credentials |
| device state (`device_state.rs`) | durable, pending, generation, file | schedule, delayed flush, flush | windows, tray | debounce threads, write failures, exit | what is pending is written; the file never goes back |
| request sessions (`domain/cancel.rs`) | id → token map, flag and waiters | begin, cancel, end, cancelled | every capability command | lost wake-ups, reused ids | a running request can be cancelled, and ends |
| import and export (`services/import_export.rs`) | preview sessions in memory: baseline, bytes, claim | preview, claim, apply, consume; expiry, eviction | every table, journal | an expiry during an apply, a full store, a configuration changed since the preview | what is applied is what was previewed; a session is used once; the store never fills up with claims |
| endpoint trust (`services/endpoint_trust.rs`) | previews, reservations, approvals | preview, consume, commit/rollback, revoke | integrations, lifecycle, import | a save that rolls back after consumption, two saves with one preview | an approval is for the exact configuration and runtime, and was shown |
| provider runtime bindings (`services/runtime_providers.rs`) | binding rows, grants by package and revision, rollback snapshots, previews | attach, detach, roll back, discard, activate | provider saves, imports, router | previews built from several reads; grants shared by aliases, counted over bindings and snapshots | what is routed to, or can be rolled back to, keeps its grant; nothing overtaken is applied |
| runtime lifecycle (`services/runtime_lifecycle.rs`) | runtime pins, previews, rollback pins | activate, upgrade, rollback, revert | integrations, catalog, tokens | compare-and-set over several rows | a pin always names content that exists |
| provider and runtime routers | none | route | bindings, grants, catalog | | the route is one consistent read |
| streams (`services/stream_resources.rs`, `services/wasm_runtime/network_handle.rs`) | bounded buffer, terminal state, tokens; transport and pump tasks | send, finish, fail, receive, cancel, close, teardown | WASM host, HTTP | three parties that may each end first, notifications, timeouts | a guest is told the truth; nobody sleeps through a notification; no task is left |
| blobs (`services/blob_resources.rs`) | buffers in a call's table | create, append, seal, read | WASM host | limits | bytes within quotas |
| plug-in store, models, loader, catalog | archives, model files, catalog snapshot | install, remove, download, activate | lifecycle | download, digest, rename, row | a ready row has its file |
| WASM runtime, native workers | engine caches, child processes | execute | brokers, resources | deadlines, cancellation | bounded execution |
| brokers and bounded HTTP | none | request, stream | tokens | policy order | no request without its checks |
| capability services, profiles, history, models | CRUD tables | save, delete, record | SQLite | health of a call result vs. current instance | results are recorded for the instance that ran |
| windows, screenshot, shortcuts | window handles | show, capture | platform | callbacks | |
| front end, plug-in guests, build tasks | | | | | |

## Modules

| module | what it is |
|---|---|
| `CredentialJournal` | the journal, the rows of its owners, the vault, the commands and start-up recovery |
| `SecretStore` | the abstract specification of what the journal promises: owners and secrets as one store |
| `CredentialJournalProofs` | its safety, overlapping saves, what a start-up with nothing deferred has achieved, and that it implements `SecretStore` |
| `MCCredentialJournal` | symmetry of the model values, for TLC |
| `TokenGrants` | token cache, credential slots and health of one integration instance |
| `MCTokenGrants` | symmetry, for TLC |
| `TokenGrantsProofs` | soundness of the cache, of its index and of the health, for any number of actors |
| `DeviceState`, `DeviceStateProofs` | the debounced window geometry; the order of its writes |
| `RequestSessions`, `RequestSessionsProofs` | cancel tokens and their registry; no entry and no wake-up is lost |
| `ProviderBindings`, `ProviderBindingsProofs` | the runtime bindings of a provider with their grants, snapshots and previews |
| `MCProviderBindings` | two packages, one of them with two API types; symmetry |
| `ImportPreviews`, `MCImportPreviews` | the store of import previews around the import; documents and their rows |
| `ImportPreviewsProofs` | the store's accounting, the claims, and what an import overwrites, for any number of previews and documents |
| `IntegrationSaves`, `MCIntegrationSaves` | a save of several credential slots together with the approval of a custom endpoint |
| `IntegrationSavesProofs` | its slots, vault and journal agree and implement `SecretStore`, and its reviews are honoured, for any number of slots, saves and reviews |
| `BrokerStream` | one streamed response: transport, pump and guest |
| `StreamContract` | the abstract specification of what the guest is promised |
| `BrokerStreamProofs` | `BrokerStream` implements `StreamContract`; closing and waking |

How they compose: `IntegrationSaves` takes the journal's finalization from `CredentialJournal`
as one action per slot and adds the transaction over several slots, the approval and the
writes of import and runtime lifecycle; `CredentialJournal` and `ProviderBindings` have the
import's effect on their rows as an action, and `ImportPreviews` has what surrounds that
action; `BrokerStream` is a client of the cancel token that `RequestSessions` models, and
implements `StreamContract`, as `CredentialJournal` and `IntegrationSaves` both implement
`SecretStore`.

Every module also holds *mutants*, operators named after a plausible mistake (`ProbeIgnored`,
`NotifyPolled`, ...), each directly before the definition it could replace. They are used by
no specification; substituting one must break the property named for it in `PROJECT.json`.

### CredentialJournal

One action per SQLite transaction, per autocommit statement that matters and per vault call.
A command (`Op`) has a kind and an owner, and a program counter:

    preflight -> (bind -> cleanup -> drop) -> [probe] -> read -> prepare -> store -> commit
              -> (bind -> cleanup -> drop) -> reload -> ok | error

The parenthesised part is `finalize_operation` (`ReadBinding`, `CleanupVault` or
`CleanupFails`, `DropJournal` or `FinalizeFails`), entered from a preflight, after a commit,
as the compensation of a failed commit, and by the start-up recovery (`Boot`, which walks the
listed rows). `fin[a].then` is its continuation. What the code ignores (`let _ =
finalize_operation(..)`) continues; what it returns with `?` becomes `error`.

* A vault account name contains the operation's UUID (`provider_ref`), so a secret is named
  by the command that stored it and `None` is SQL NULL.
* `updated_at` is the identity of the command that wrote last; the proxy has no version. A save
  of a provider (`Update`: replace, clear or keep) carries the version its client saw when it
  was issued, and `Expected` compares it wherever the code does.
* `Init`: providers without a secret may exist from earlier; the vault and the journal start
  empty.
* `Known`: a client names an owner it has seen, so nothing is addressed to a provider that
  is still being created. `Fresh`: identifiers of new rows are new UUIDs.
* `Overlap = FALSE` restricts behaviours to one command per owner at a time: the user
  interface disables a form while its save is in flight. Commands on different owners
  interleave freely. `Overlap = TRUE` drops the restriction; nothing in the back end
  enforces it.
* A failed `vault.set` stores nothing; a failed `vault.delete` may have removed the secret
  (the overflow file goes before the keyring entry).
* `Crash` drops all commands (`lost`) and restarts the start-up recovery; SQLite and the vault
  stay.
* An import touches one owner per command: its document may name several, but each is an
  independent row with an independent journal row in one transaction.
* Other writes of a provider row's `updated_at` (synchronisation status) behave as
  `SetEnabled`.

### SecretStore

What the journal is for: SQLite and the vault cannot share a transaction, yet together they
should behave as one store, in which an owner turns from one secret to another in a single
step. Its state is the current secret of each owner, the secrets stored, and the secrets
*owed*: announced and not yet current, or replaced and not yet disposed of. `Announce` comes
before `Store`, `Change` turns owners, several at once if need be, only to stored secrets and
puts the old ones among the owed, `Settle` removes only what is owed, and drops a debt only
when the secret is gone. The refinement mapping reads `current` off the rows, `stored` off the
vault and `owed` off the journal (`Owed`: what journal rows name and no row is bound to);
`OneStore` is the abstract specification under it. Preflights, reads, answers and crashes are
stuttering steps. In `IntegrationSaves` the owners are the slots, a secret is a slot with a
command, and the transaction of a save, or a deletion, is one `Change` of all its slots.

### TokenGrants

One integration instance with the credential slots its manifest requires. `Acquire`,
`Lookup`, `LoadRow`, `LoadSlot`, `Exchange`, `Publish` are `TokenGrantService::acquire` and
the exchanger's reads, each autocommit statement its own action; `Save`, `SetEnabled`,
`Delete` commit to the database and `Evict` follows as a step of its own, as in the code;
`BeginValidation` ... `Stamp` are `validate_instance`, with `MarkRead`/`MarkWrite` for
`persist_validation_health` and `Stamp` for the transaction of
`persist_remote_validation_health`.

A credential is identified by its slot's revision. A grant and a cache entry carry, besides
the revision the code stores, the `keys` they were exchanged for: that is history for the
properties. `offered` and `proved` are history too. `AnyPair` says whether the token endpoint
accepts a pair of credentials that were never saved together (a user may pair an old API
key with a new secret key of the same account). A mutation is its commit here: the vault and
the journal are `CredentialJournal`'s subject. Evictions by the runtime lifecycle only remove
entries, as `SetEnabled(FALSE)` does.

### DeviceState

The UI thread reports (`Report`, `SetPending`, `Bump`), delayed threads awake and flush, the
tray's exit item flushes and ends the program. The mutexes guard single accesses, so each
access is an action; `write_lock` is `holder`, and each flush has the copy it took. A window event
carries a number, and the rectangle the window last had while normal, for the properties; `failed`
is the number of the last state that could not be written. `PendingIsWritten` promises nothing of
a schedule during a flush, which the flush clears unwritten: it starts from a moment at which no
flush is at work.

### RequestSessions

`begin`, `cancelled` and `end` of a call, `cancel` of a canceller. The map's mutex is held
across `CancelToken::cancel`, whose two steps (flag, then `notify_waiters`) are visible to a
waiter that holds no lock. tokio's guarantee that `notify_waiters` reaches every `Notified`
future created before is the `waiting` set.

### ProviderBindings

The binding rows of one provider, one per API type (adapter), the grants `<<package, revision>>`
it holds, the undiscarded rollback snapshots, and the preview sessions in memory. An attach is
`PreviewAttach`, `ProbeAlias`, `Revise` (three reads: the row, whether another alias holds the
package's grant, and that alias' revision or the next one) and the transaction `Attach`;
a rollback is `PreviewRollback` and `Rollback`; `Detach` and `Discard` are one transaction
each; an activation is `ReadPending`, `RevisePending`, `Activate`. `Save` and `Import` are what
`ProviderService::update` and `apply_plan` do to the rows. `Refuse` is any expiry or failed
application, after which the session is gone.

* A command is the identity of what it creates: its session, its snapshot set, the
  `updated_at` it writes. `born` is the order of the snapshots' `created_at`.
* `shared` in a row is history: the revision was taken from another alias. `ReferenceHasGrant`
  is stated for rows with a revision of their own; for shared ones it is false, see below.
* `Release` fails the transaction when the grant to be released is not there, as
  `release_provider_grant` does with `NotFound`.
* `TypeOK` bounds a revision by the number of commands: each takes at most one.
* A save that replaces or clears the credential leaves the rows as they are, since
  `ensure_default_binding` is given the new API type twice; one that keeps it moves the row.
* `overtaken` is history: the previews of attaches and rollbacks whose provider was written, or
  whose row was replaced or removed, since. The code has no such thing and compares values.
* Not modelled: snapshot sets of a whole provider, which only a migration writes, and removal
  of packages.

### ImportPreviews

`PreviewSessionStore` is `sessions`, `inFlight`, `order` and `total`, one action per critical
section: `Insert` (`insert_bounded`, with the pruning and the eviction that happen even when
the preview is refused in the end), `Claim`, `ClaimRefused`, `Consume`. `Preview` is the
read snapshot before, with the versions of the rows in the document's baseline; `Apply` the
transaction that compares them again and writes; `Change` any other write. A document is
the set of rows its baseline has, the set it writes and its size. Time passes for sessions in
the order of their creation (`Expire`), since all live equally long. The size of several
sessions is that of the set of their bytes (`Content`), and what leaves the insertion order
leaves it by a recursive function (`Without`), both of which the proofs can reason about.

### IntegrationSaves

A saving command's labels are those of the code:

    create:          prepare -> gate -> consume -> commit -> settle -> finish
    update: read -> [retain] -> preflight -> prepare -> consume -> commit -> settle -> finish
    delete: read -> preflight -> commit -> finish
    failing:         undo | abort -> release | release -> undo

`prepare` and `store` go over the slots of the save in any order; `retain` is the case of an
unchanged configuration, in which the approval is read and kept (`consume` is skipped). After a
commit `settle` consumes the review; after a rollback `release` gives it back, before the
secrets are cleaned up when updating and after that when creating, as in the code. `Gate` is the
catalog's default package, read only after the vault has been written.

* `Finalize` is `finalize_operation` as one action, with its outcomes: done, stuck before, or
  stuck after the secret is gone. That nothing else touches the slot meanwhile is `Alone`: the
  form is disabled during a save of credentials. `CredentialJournal` has the interleavings.
* A secret, an `updated_at` and a review are named by their command; one instance, whose
  identifier is drawn when the first review or create needs it (`Unknown`).
* `Upgrade` and `Rollback` are what `apply_upgrade` and `apply_rollback` of the runtime lifecycle
  do to version, configuration, pin and approval; `Import` what `apply_plan` does. An upgrade
  writes the configuration as the target's migration leaves it, and may be one to the same
  runtime (`refresh_active_grant_for_instance`). It keeps the approval when the new grant has an
  entry `UserApprovedInstance`, that is when the approval fits the new configuration and runtime:
  the grant is built at the preview, at the version the upgrade compares. A rollback writes a
  snapshot's configuration and keeps no approval; the model lets it be any.
* `CustomNeedsReview` is about saves that set another custom endpoint. Saving an unchanged one
  again goes by `Retain`, with the approval there is or without any, and is outside its formula;
  of that approval `ReviewsAreHonoured` says that it was reviewed.
* Two steps are left out where they would add nothing: a preview expires only while a command
  acknowledges it (an earlier expiry is refused at the same test), and the process ends only
  while a journal row exists (otherwise it loses what `Expire`, a failing command or one that
  has not begun lose as well).

### BrokerStream and StreamContract

`pump_stream_response` and `stream_resources.rs` for one response. The transport task
(`execute_stream` with its callback) appends events to the channel; the pump task takes them
and sends chunks to the buffer; the invocation reads. `pump` is at one of its awaits: `poll` and
`idle` (the `select!` over tokens, events and result), `result`, `drained`, `send`, `blocked`
(backpressure), `terminate`, `cancel`. `guest` is the invocation: `fetch` until the headers,
`giveup` (the guard before the headers), `open`, `read`, `wait`, `closing`, `closed`,
`dropped`.

* A critical section with the `notify_waiters` after it is an action; `woken` is who has been
  notified since it subscribed last. Subscribing and looking at the data is one action, since
  the subscription comes first: what happens between the two is then a notification received.
* Timeouts (`PumpTimesOut`, `ReaderTimesOut`, `JoinTimesOut`) may happen whenever somebody waits.
  The request's deadline comes after the tokens and before the events and sends, so it may also
  end the stream while events are in the channel.
* `refused` is an event at which the pump fails the stream: a chunk that is too large, or a second
  `Started`.
* `Join`, `JoinTimesOut` and `JoinLate` are `shutdown`, step by step, and with the pump's flag set
  from the start the shutdown before the headers: until the deadline the end of either task is
  taken in any order (`joined` has the two flags); after it the transport and then the pump is
  aborted and awaited, if it has no flag (`late` is the one awaited). `results` counts how often a
  JoinHandle has given its result; polling one again would panic.
* `Drop` is the end of a call at any await: the table, or the guard, aborts the tasks it still
  holds; `Abort` is when the runtime carries that out.
* `StreamContract` has the chunks the server has sent, how the response ended, the chunks read
  and the end that was told. The mapping is the identity, except that the end `missing` (no
  `Finished` event was seen) is told as `failed`. Everything else stutters.

## Runs

| configuration | module | constants and bounds | checks |
|---|---|---|---|
| `CredentialSerial` | MCCredentialJournal | 3 commands, one provider and the proxy, 1 crash, no overlap | `TypeOK`, `BoundSecretPresent`, `SecretAccountedFor`, `PreflightFreesOwner`, `AllClearStartupCleans`, `OneStore` |
| `CredentialLive` | MCCredentialJournal | 2 commands that may overlap, 1 crash, fair | `NoLostUpdate`, `StartupServes`, `EveryCommandAnswered` |
| `CredentialOverlapBound` | MCCredentialJournal | 3 commands that may overlap | `BoundSecretPresent`, violated: see below |
| `GrantPair` | MCTokenGrants | 2 slots, 1 scope, cache of 1, 2 savers, 2 acquirers | `TypeOK`, `CacheIsSound` |
| `GrantLive` | MCTokenGrants | 1 slot, 2 scopes, cache of 1, 1 saver, 2 validators, fair | `CacheIndexed`, `HealthIsEarned`, `ValidationEnds`, `StaleGrantsGo` |
| `DeviceState` | DeviceState | 2 rectangles, 3 window events, fair | `TypeOK`, `DurableIsInFile`, `WritesInOrder`, `PendingIsWritten` |
| `RequestSessions` | RequestSessions | 3 calls on 2 ids, 1 canceller, fair | `TypeOK`, `LiveIsRegistered`, `NoGhostSession`, `CancelIsSeen` |
| `ProviderBindings` | MCProviderBindings | 4 commands, 2 API types, a package with both and one with the first | `TypeOK`, `ReferenceHasGrant`, `PreviewIsCurrent` |
| `ProviderBindingsOrphan` | MCProviderBindings | as above | `NoOrphanGrant`, violated: see below |
| `ImportPreviews` | MCImportPreviews | 3 previews, 2 imports, 1 other write, 2 documents of sizes 1 and 2, 2 sessions, budget 3, fair | `TypeOK`, `Accounted`, `ClaimIsExclusive`, `SavesSurvive`, `ClaimsEnd` |
| `IntegrationSaves` | MCIntegrationSaves | 2 saves or deletions, 1 review, 1 import, upgrade or rollback, 2 slots, 1 custom endpoint, 2 runtimes, 1 crash | `TypeOK`, `SecretsAgree`, `ReviewsAreHonoured`, `CustomNeedsReview` |
| `BrokerStream` | BrokerStream | 4 chunks, channel of 3, buffer of 2, fair | `TypeOK`, `NobodyWaitsInVain`, `ClosedIsJoined`, `Contract`, `TasksEnd` |

Why these bounds show the interesting cases:

* *Credential runs.* Three commands on one owner are a left-over (a command whose clean-up
  failed or that crashed), the mutation whose preflight meets it, and one that starts from
  what that leaves. One crash suffices to put any of them, and start-up recovery itself, into
  any intermediate state. The theorems remove the bounds for the safety properties.
* *Grant runs.* A stale token needs one exchange in flight, one replacing save and an
  eviction; in `GrantPair` the second saver and acquirer put a newer exchange or a second
  eviction in between, and two slots allow a torn read of a pair. A cache of one entry is at
  its limit with every insertion, and in `GrantLive` two scopes make the victim another
  scope's entry; its two validators race the save for the health column, with one slot,
  since with two `ReadyIsProved` is false (see below). Theorems remove the bounds.
* *Device state.* A lost or reordered write needs an event before a flush's copy, one between
  copy and clearing, and one after; the exit flush races the delayed ones.
* *Sessions.* Reuse of an id needs a superseded call, its successor and a third that begins
  after the first's end; the second id is the one a call has to itself.
* *Bindings.* A preview is overtaken when the row it was made for goes and comes back: that is
  three further commands (detach, attach, and one that changes what it refers to). Two API
  types of one package make an alias; the other package makes a replacement.
* *Import previews.* The third preview meets a full store, by number and by bytes; two imports
  race for one session; one document's import writes a row that its baseline lacks.
* *Integration saves.* Two slots are what a partial failure needs; the second save is the one
  that meets left-overs or a reservation; the import, upgrade or rollback comes between a
  review and its use.
* *Streams.* A channel smaller than the response can be full, a buffer smaller than the channel
  makes backpressure with events still waiting; theorems remove these bounds.

Symmetry is used in runs without liveness only, over commands of a kind, slots, scopes and
pins; packages and API types in `ProviderBindings` are told apart. Deadlock checking is off
in every run, because every behaviour may simply come to an end: commands are one-shot (each
has its own identity), so a system stops when all have been answered. `EveryCommandAnswered`,
`ValidationEnds`, `CancelIsSeen`, `ClaimsEnd`, `TasksEnd` and `NobodyWaitsInVain` are the
statements that nothing waits for ever.

## Fairness

* `CredentialJournal`: weak fairness of each command's next step, of its finalization and of
  start-up: threads are scheduled, and vault and SQLite calls return, with or without success
  (SQLite has a busy timeout). Success is never assumed.
* `TokenGrants`: weak fairness of a save that has begun and of a validation; the network call
  of a validation is bounded by `INTEGRATION_VALIDATION_TIMEOUT`. Starting a command, an
  acquire of a capability call and the passing of time are not fair.
* `DeviceState`: the UI thread finishes a schedule it began, sleeps end, a flush goes on.
* `RequestSessions`: a task that was woken is polled; `Finish`, the work's own answer, is not
  fair. `End` takes a contended mutex and is strongly fair: cancels, which come from a user,
  do not keep it for ever.
* `ImportPreviews`: an insertion that was begun and an import that has claimed go on, to a
  success or a failure; neither a claim nor the passing of time is fair.
* `BrokerStream`: the pump task is polled when it can go on; a transport that has its answer sends
  it; an abort is carried out at the task's next await; `shutdown` is polled when a task has
  ended, and its timer fires. Nothing is assumed of the server, of the guest, of expiry or of the
  other timeouts, nor that the transport heeds its token: that is the premise of the second half
  of `TasksEnd`, needed for a call that is dropped inside `reader_close`. The first half, that a
  close or a failing fetch comes back, holds for a transport that ignores it: there the timer
  and the aborts are what carries it (with `AbortAndAwait` not aborting TLC refutes it).

## Proofs

For every set of commands, owners, slots and packages, every length and capacity, and every
bound on crashes:

| module | theorem | assumption | statement |
|---|---|---|---|
| CredentialJournalProofs | `TypeCorrect` | none | `Spec => []TypeOK`, overlapping commands included |
| | `BoundSecretsArePresent` | `~Overlap` | `Spec => []BoundSecretPresent` |
| | `SecretsAreAccountedFor` | `~Overlap` | `Spec => []SecretAccountedFor` |
| | `OwnersAreFreed` | `~Overlap` | `Spec => []PreflightFreesOwner` |
| | `AllClearIsClean` | `~Overlap` | `Spec => AllClearStartupCleans` |
| | `UpdatesAreNotLost` | none | `Spec => []NoLostUpdate`, overlapping commands included |
| | `JournalIsOneStore` | `~Overlap` | `Spec => OneStore`, the refinement of `SecretStore` |
| TokenGrantsProofs | `TypeCorrect` | none | `Spec => []TypeOK` |
| | `CachedGrantsAreSound` | none | `Spec => []CacheIsSound` |
| | `IndexNeverDangles` | none | `Spec => []CacheIndexed` |
| | `HealthIsTrue` | `OneSlot` | `Spec => []HealthIsEarned` |
| DeviceStateProofs | `TypeCorrect` | none | `Spec => []TypeOK` |
| | `DurableStateIsInFile` | none | `Spec => []DurableIsInFile` |
| | `FileNeverGoesBack` | none | `Spec => WritesInOrder` |
| | `PendingIsNeverStranded` | none | `Spec => []PendingHasFlusher`, the safety half of `PendingIsWritten` |
| RequestSessionsProofs | `TypeCorrect` | none | `Spec => []TypeOK` |
| | `LiveCallsAreRegistered` | none | `Spec => []LiveIsRegistered` |
| | `NoEntryOutlivesItsCall` | none | `Spec => []NoGhostSession` |
| | `NoWakeupIsLost` | none | `Spec => []NoLostWakeup`, the safety half of `CancelIsSeen` |
| ProviderBindingsProofs | `TypeCorrect` | none | `Spec => []TypeOK` |
| | `ReferencesKeepGrants` | none | `Spec => []ReferenceHasGrant` |
| | `NothingOvertakenApplies` | none | `Spec => PreviewIsCurrent` |
| ImportPreviewsProofs | `TypeCorrect` | none | `Spec => []TypeOK` |
| | `StoreIsAccountedFor` | none | `Spec => []Accounted` |
| | `ClaimsAreExclusive` | none | `Spec => []ClaimIsExclusive` |
| | `SavesAlwaysSurvive` | none | `Spec => SavesSurvive` |
| | `NoClaimIsLeftBehind` | none | `Spec => []ClaimsAreHeld`, the safety half of `ClaimsEnd` |
| IntegrationSavesProofs | `TypeCorrect` | none | `Spec => []TypeOK` |
| | `SecretsAlwaysAgree` | none | `Spec => []SecretsAgree` |
| | `ReviewsAlwaysHonoured` | none | `Spec => []ReviewsAreHonoured` |
| | `CustomAlwaysReviewed` | none | `Spec => CustomNeedsReview` |
| | `SavesAreOneStore` | none | `Spec => OneStore`, the refinement of `SecretStore` by several slots |
| BrokerStreamProofs | `TypeCorrect` | none | `Spec => []TypeOK` |
| | `CloseJoins` | none | `Spec => []ClosedIsJoined` |
| | `NoWaitInVain` | none | `Spec => []NobodyWaitsInVain` |
| | `GuestIsToldTheTruth` | none | `Spec => Contract`, the refinement of `StreamContract` |

They rest on the named assumption of each module (`ConstantsAssumption`, `GrantsAssumption`
and so on), which TLC evaluates in every run: actors are disjoint, null values are not members
of the sets they extend, capacities are positive.

*Credential journal.* The three safety properties are not inductive: whether deleting a target
is safe depends on how the journal row that named it came about. The invariant that carries
them relates, for every actor, its program counter to the rows: a journal row's owner has at
most one actor at work on it (here `~Overlap` is used); a `prepared` row's new secret is
bound only after its commit, and its old secret is the bound one until then; a row in
state `db_committed` names an old secret that is no longer bound; the target computed in
`ReadBinding` is the one `CleanupTarget` would compute now; and a secret is stored under no
name but that of the command that stores it. Each action then preserves each part, which is
how the proof is laid out: one lemma for the actions of finalization, one for a command's
steps before the commit, one for the commits, one for start-up and crash.
`AllClearIsClean` adds one invariant: until it serves, every journal row is one the recovery
has still to turn to, the one it is at, or a deferred one (`Remaining`). `JournalIsOneStore`
needs no further invariant: a clean-up's target is owed because the row it stems from matches
the binding (`JournalMatches`) and references belong to one owner (`References`); a commit
changes the debts exactly as `Change` does; and what leaves the debts without becoming current
must be gone, or `SecretAccountedFor` would fail in the next state. `UpdatesAreNotLost` needs
no `~Overlap`: its invariant (`VInv`) follows the versions instead of the journal. A version is
the command that wrote it, a command writes once, and whatever is in the table or was seen by a
client is of a command that writes no more (`VersionsAreOld`); so the version a committed save
has replaced never returns (`ReplacedForGood`), and a second save made from it is refused,
whether it replaces, clears or keeps the credential.

*Token grants.* The cache is sound because of what an exchange in flight knows:
`RequestsFit` says that an exchange which began before no eviction (its generation is still
the present one), while none is pending, has read only credentials the instance still has. A
commit makes an eviction pending, the eviction raises the generation, so `Publish` either
finds a newer generation or publishes current keys. `CacheFits` carries the index: an entry
leaves the cache only together with the index that names it. `HealthFits` and `ChecksFit`
carry `HealthIsTrue`: a validation that holds a grant matching its snapshot holds the
snapshot's keys, for which `OneSlot` is needed, since a grant reports one revision.

*Device state.* Whoever holds the write lock has a copy not older than the file, and what
memory calls durable is what the holder has written last (`FlushOwnsPending` and its
neighbours). `PendingIsNeverStranded` is inductive on top of that: a schedule that supersedes
the thread of another spawns its own before it ends; a failed flush either took what is still
pending, so that its failure is the one the property allows, or something newer came meanwhile,
whose thread has yet to flush; and the flush before exit always took what is pending
(`ExitTakesPending`). A successful flush leaves nothing pending, which is where a schedule during
it is lost.

*Request sessions.* A call that sleeps subscribed before it looked at the flag, so that a
cancel which set the flag since has its notification still to come, and holds the map
(`HolderNotifies`); an entry is of a call that has begun with that id (`EntryIsOfCall`).

*Provider bindings.* `ReferenceHasGrant` is preserved by a release because the release counts
active bindings and snapshots in the state after the removal; that the row a session restores
or replaces is the present one comes from the comparison of the whole row; and a grant taken from
a preview was computed from the connection the provider has because a write between would have
changed the version (`ReadInBetween`). `PreviewInv` carries the rest of `PreviewIsCurrent`: all
that is stored or was seen by a preview bears the stamp of a command that is done
(`StampsAreOld`), every command writes with its own stamp (`Writes`), so that what a preview has
seen never returns once it was replaced, and an overtaken preview differs from what is stored
(`OvertakenShows`). A new snapshot of an API type changes its row, so a rollback that was not
overtaken still goes to the newest one (`RollbackFits`).

*Import previews.* The invariant (`PInv`) is the three safety properties with what a preview
and an import have done so far (`Previewing`, `Claiming`): a session enters the store once, and
one that was claimed is never again there unclaimed. The work is in the operators. `Without` is
a recursive function, whose values the lemmas `WithoutIsLeft` and `WithoutIs` derive: the
elements are those left, and none is there twice if none was. They go by the least
counterexample (`NatMin`, from the library's theorem that `<` on the naturals is well founded),
since the induction theorems of the library take an operator and the provers cannot instantiate
them. Sizes are cardinalities of sets of bytes, so that the size of the rest is a difference
(`SizeOfRest`) and that of one session its document's (`SizeOfOne`); `AccountedDrop` shows once
that whatever leaves the store, its fields go on agreeing. `total_bytes.saturating_sub`
(`import_export.rs:131`) hence never saturates.

*Saves of integrations.* Two invariants. `SInv` is about credentials: until its commit a command
has in each slot either a prepared journal row of its own, with the secret it names in the vault
(`Prepared`), or nothing at all (`Unused`), and while it stores a secret exactly one slot is in
between (`SlotsFit`); a journal row agrees with what its slot refers to (`JournalMatches`); and of
two commands under way at most one touches credentials (`CommandsFit`), which is what `Alone`, the
disabled form, gives. The lemma `StepFits` shows once that a command's step leaves what is known
of the others alone, so that every action is left with its own slots. `RInv` is about reviews:
a version is written by one command and read only afterwards (`VersionsAreNew`), hence an update
that passes the comparison of versions has seen the configuration it keeps (`KeptFits`); a save
that holds a review is the only one (`ReservedFits`); and an approval, in the table or in a save's
hands, is of a review as it was shown (`Approved`). `CustomAlwaysReviewed` follows at the one step
that leads from `commit` to `settle`. The theorems are about the model's single instance and do
not cover what `Alone` excludes; `CredentialJournal` and the run `CredentialOverlapBound` do.
`SavesAreOneStore` rests on `SInv` alone. Three lemmas carry it: `Owing` and `Referring` say slot
by slot what is owed and referred to, `Settled` that a step which only removes owed secrets and
journal rows is a `Settle` (nothing owed is lost with a row, or `SecretAccountedFor` would fail
afterwards), and `Changed` that a transaction turning any number of slots is one `Change`. TLC
agrees on the constants of the run `IntegrationSaves`, with which `OneStore` takes another
minute; the run leaves it to the proof.

*Streams.* `ChannelInOrder` and `FlowInOrder` number the chunks from the server to the guest:
the buffer continues what was read, the chunk in the pump's hand the buffer, the channel that;
"finished" comes last in the channel and after everything sent. `NobodyWaitsInVain` is inductive
together with `Wiring`, which says how the states of the three parties fit together.
`CloseJoins` rests on `Supervised`: before a shutdown its flags are down; in its loop every flag
stands for a task that has ended and whose result was taken once; past its deadline the awaited
task is one without its flag, and when that is the pump the transport is over. The property is
sensitive to each part of the loop: TLC refutes it when the loop is left at the first end, when
the deadline aborts the transport whatever its flag says (its handle would be polled twice), and
when the pump is not awaited after the transport.

Only model-checked: liveness, which the prover cannot express. These are the eight properties
`StartupServes`, `EveryCommandAnswered`, `ValidationEnds`, `StaleGrantsGo`, `PendingIsWritten`,
`CancelIsSeen`, `ClaimsEnd` and `TasksEnd`. Where there is a safety half it is proved: that a
stale grant has an eviction still to come (`CacheIsSound`), that what is pending while no flush is
at work has a flusher (`PendingHasFlusher`), a cancelled sleeper its notification (`NoLostWakeup`), a claim its import
(`ClaimsAreHeld`), and that neither end of a stream waits in vain (`NobodyWaitsInVain`). Every
other property of a passing run is stated by a theorem, some under one of two assumptions that
the code alone does not give: `~Overlap` (the front end's disabled forms) and `OneSlot`.

## Disagreements between code and documentation

The numbered ones are runs whose property quotes a document, a comment or an assertion of the
repository and which TLC refutes; `PROJECT.json` has the lines under `findings`.

1. *A preflight finalizes a running command.* `preflight_owner_slot` takes the journal row it
   finds for a left-over. If a second command on the same owner starts while the first is
   between journal and commit, the row is the first one's: its secret is deleted and then
   bound (`CredentialOverlapBound`).
2. *A grant that nobody releases.* Detach a package, attach it again, discard the first
   snapshot: `release_provider_grant` keeps the snapshot's grant because the package has an
   active binding, although that one has the next revision. Nothing refers to the first grant
   any more, and nothing will release it (`ProviderBindingsOrphan`;
   `runtime_providers.rs:1082`, "discarding the final reference releases it so the package can
   be uninstalled").

The same models show further ones, of less weight or of the same cause, on which no run is
spent; each is reproduced by stating the sentence as an invariant or action property. Where a
definition is named, the module has it under its last heading.

Credentials and journal:

* `coordinator.rs:2`, "Journals are deleted only after idempotent vault cleanup succeeds": with
  the overlap of 1, a preflight can drop the running command's row before its secret is
  stored; the secret is then without a journal.
* `docs/analysis/storage-architecture.md:435`, "only one unfinished mutation exists per
  Provider or the global proxy": with the overlap of 1 there are two.
* `service_integrations.rs:208`: a deletion reads the bindings before its transaction. If a
  save commits a secret for a slot in between (the front end's form is disabled meanwhile,
  `Alone`), the cascade removes the binding and no journal row names the secret.
* `service_integrations.rs:664`, "A missing default fails closed without writing any row": the
  answer leaves the journal rows and the secrets it has prepared, until the next start-up
  (`MissingDefaultWritesNothing`).

Tokens and health:

* *One revision for two slots.* The Baidu exchanger reports the larger of two revisions, and
  validation compares it with both: a grant for one pair is taken for another (`ReadyIsProved`
  with `Slot = {s1, s2}`, `AnyPair = FALSE`, two savers and two validators;
  `phase-1b-google-cloud-translation.md:262`, "never stamp Ready from a stale secret"), and
  once the revisions differ, validation always answers that credentials changed
  (`ChangedMeansChanged`, `service_integrations.rs:37`).
* `token_grant.rs:380`, "Evict all cached grants for an integration instance (credential
  replace/clear/delete/disable)": a save that disables and changes no credential evicts
  nothing (`service_integrations.rs:1036`). A call on a disabled instance is refused before it
  asks for a token.
* `docs/plans/google-service-integrations/phase-1a-integration-core.md:180`: a validation that
  read a missing credential marks the instance unconfigured after a save supplied it
  (`service_integrations.rs:390`).

Window geometry and sessions:

* *Move, then maximize*, within the debounce: the maximized flag is folded into the durable
  state, and the rectangle of the move is lost (`NormalRectRetained`; `device_state.rs:116`,
  "the last normal rectangle is retained").
* *A schedule during a flush* is cleared together with what the flush wrote, even by the flush
  before exit (`ExitPersists`; `device_state.rs:148`, "Persist pending state immediately (e.g.
  before exit)").
* `cancel.rs:76`, "Returns false when the id is unknown / already finished": when two calls
  share an id, the end of the superseded one removes its successor's session. The front end
  draws fresh ids, and `LiveIsRegistered` is stated for a call whose id is its own.

Provider bindings:

* *A rollback to the wrong snapshot.* A preview that found no binding for an API type has nothing
  to compare later (`runtime_providers.rs:651`), and its snapshot's `created_at` is the preview's
  (`runtime_providers.rs:539`). When another attach and a detach come in between, the attach is
  applied, and the detach's snapshot counts as newer than its own, so that the next rollback does
  not undo it (`NewestIsLast`; `runtime_providers.rs:764`, "Newest undiscarded adapter-scoped set
  owning this API type wins").
* *An alias without its grant.* An attach preview finds another alias's grant to share
  (`runtime_providers.rs:476`); that alias is detached and its snapshot discarded, which
  releases the grant; the attach then activates a binding without one (`EveryActiveHasGrant`).
* `docs/plans/2026-08-03-multi-interface-provider-runtime-plan.md:137`, "exactly one grant
  bundle per active Provider/package": two pending aliases that are activated get a revision
  each. Line 394, "release it only after the final reference disappears", is the one that 2
  refutes in the other direction, and line 420, "reference-count before cleanup", its remedy.
* `import_export.rs:646`: an import over two aliases that share a grant, neither of which
  stays active, releases it twice; the second release answers NotFound and the import fails.
* `runtime_providers.rs:326`: an activation compares the binding, not the provider, so that
  a grant may be of a base URL that a save has just changed.

Imports and approvals:

* `import_validation.rs:1078`, "every local row and credential ownership the plan would touch":
  the baseline has no provider runtime bindings, so those attached after the preview are
  overwritten unseen (`NothingUnseenIsOverwritten`).
* `docs/plans/2026-07-31-trusted-custom-endpoint-plan.md:300`, "Origin/package/runtime change —
  revoke approval and require new review": an import that changes the configuration leaves
  the old approval's row. It does not fit the new configuration and is not used, but fits
  again when the configuration returns (`ChangeRevokes`).

Streams:

* `network_handle.rs:220`, "so a stalled upstream is failed (and the reader notified)": when
  the stream has expired by then, `terminate` leaves it alone and notifies nobody; the reader
  sits out its own 30 seconds (`ReaderHearsOfExpiry`).
* `stream_resources.rs:304`, "reader close does not leave detached tasks running": a call that
  is dropped inside `reader_close` has already taken the supervisor out of the table, so that
  its tasks are left to their token (`NoDetachedTask`).
* `network_handle.rs:427`, "Terminal precedence after headers is deterministic": a complete
  response whose result overtakes its last events at the pump is reported as failed or as
  finished, depending on which is polled when (`FinishedIsSeen`).
* `stream_resources.rs:483`, "or `None` after a terminal state has been observed": a receive
  after the terminal frame answers an error, since the reader was closed with it.
* `executor.rs:519` (not modelled): a chat delta that cannot be converted leaves the drain task
  by `?`, past the `bridge.discard()` that would wake a guest writer which waits for space.

## What is not modelled

* *Sequential functions of their input*, which belong to unit tests: migrations, plan validation
  of imports, schema validation, digests, JWTs, HTTP policy checks, the routers, all
  conversions, the CRUD of profiles, services, history and models, and the built-in handlers.
  They are most of `src-tauri`.
* *What is not the program's own logic*: generated bindings (`generated.rs`, `bindings.rs`:
  some 70000 lines), WASM execution under fuel and epochs, the native workers' sandboxes, which
  are the operating system's.
* *The other side of a protocol*: the front end (React components over the commands), the plug-in
  guests and the build tasks. The models take commands in every order a user can issue
  them, and a guest's calls in every order it can make them.
* *Within modelled components*: chat streams and local pairs, whose writer is the guest; the byte
  quotas over several streams; blobs; snapshot sets of a whole provider; capability health of
  an integration; AES-GCM overflow files.

The modelled share is where two actors, two stores or a crash meet; it is a small part of the
repository's lines, most of which are of the kinds above.

Hazards that are known and have no property: a cancel that reaches the back end before its
request's `begin` is answered false and the request runs on (the front end documents
cancellation as best effort); and those described in the paragraphs above whose sentence the
code does not keep.

## Plan

*Done*: `CredentialJournal` with `SecretStore`; `TokenGrants`; `DeviceState`; `RequestSessions`;
`ProviderBindings`; `ImportPreviews`; `IntegrationSaves`; `BrokerStream` with `StreamContract`;
and the theorems listed above.

The suite is kept to a dozen runs so that it can be repeated at every change: a new module
brings one run that checks its safety and its liveness together, and the run of a refuted
property gives way to a paragraph above.

1. `RuntimeLifecycle`: activation, upgrade, rollback and revert previews under compare-and-set;
   `Upgrade` and `Rollback` of `IntegrationSaves` are their effect on one instance.
2. `PluginModels`: download, digest, rename and row, with a crash between any two.
3. Chat streams and blobs: a guest writer, byte quotas over several streams, as a second
   instance of `BrokerStream`'s buffer.
4. Proofs: that an insertion evicts no more previews than it must and the oldest first; that a
   grant is released exactly when its last reference goes, under the condition that
   `NoOrphanGrant` lacks; that the transport and pump a closed stream joined have nothing left to
   send.
