# mailbot in TLA+

A formal model of [mailbot](../src/README.md), a personal mail agent: a worker
that syncs an Outlook mailbox into SQLite and classifies it, an API through
which a chat agent (Hermes) reads mail and proposes changes to it, a router
that decides which language model sees what and at what cost, and a gated
pipeline by which a proposed change eventually reaches Microsoft Graph. The
modules are translated from the Python source; TLC checks them on small
instances and TLAPS proves the theorems for every value of the constants.

1. [The system](#the-system) - inventory of its parts
2. [Modules](#modules) - how state and actions correspond to the code
3. [Runs](#runs) - what each run checks, its bounds, and the fairness assumed
4. [Proofs](#proofs) - what is proved, and by which argument
5. [Where the code and its documentation disagree](#where-the-code-and-its-documentation-disagree)
6. [Not modelled](#not-modelled)

To check a run: `tlc -config AQSends.cfg MCActionQueue`; to check the proofs:
`tlapm ActionQueueProofs.tla`, and so for each module named `...Proofs`.

## The system

Three processes share one SQLite file (`mailbot_api/db/connection.py`: every
`execute_write` is a transaction of its own, so a step between two awaits is at
most one write):

* the **API** (`main.py`, `mcp_server.py`) serves the verbs and the chat
  boundary, and runs the LLM router for them;
* the **worker** (`worker.py`) runs the sync loop, ingest (with a router of its
  own), the drainer, the cooling-off ticker and the health tasks, all in one
  asyncio loop;
* the **operator's CLI** (`scripts/mailbot.py`, one process per command) and
  the re-authorisation script `scripts/refresh_outlook_oauth.py`.

A fourth, the Hermes container, runs two cron scripts that deliver
notifications through the API. In the table, *hard* names the behaviour that a
test would hardly reach; paths are relative to `src/mailbot_api/`.

| Component | State | Operations | Hard behaviour | Correct when | Module |
|---|---|---|---|---|---|
| Action registry `actions/types.py` | none (a table) | tier, family, grant requirement of a type | - | every type has one tier | `ActionTypes` |
| Action queue `actions/propose, cancel, cooling_off, drainer, replay` | `pending_actions`, `action_history` | propose, cancel, tick, drain (13 statements), replay | verbs, ticker, several drainers and the CLI move the same row; crash between any two statements; batch and pause snapshots go stale | one dispatch per row, one owner per claimed row, no send before its window, closed rows stay closed, claims are decided | `ActionQueue`; its promise: `ActionLifecycle` |
| Grants and confirmations `actions/authorization.py, user_confirmation.py` | `action_grants`, `user_confirmations` | record, mint (3 transactions), validate, revoke | two mints on one confirmation; death between consume and insert; promotion by type only | a Tier-2/3 row is applied only under a grant that covers it, and a grant has one confirmation of its scope | `ActionQueue` |
| Reverter `actions/reverter.py` | `action_history.reverted_at` | check, placeholder, claim, queue the inverse | two reverts of one action, replay in between | one inverse per action, of an action that took effect | `Reverter` |
| Graph write adapter `actions/outlook_adapter.py` | a token cell | one request with retries on timeout, 429, 5xx, and a refresh on 401 | an answer lost after the effect; a token replaced or expired under the call | repeated effects only after lost answers; no failure for a stale token | `GraphWrites` |
| Kill switch `router/pause.py` | `pause_state` row and a mirror per process | pause, resume, snapshot, pause-if, resume-if | mirror of one process stale after a write of another | a pause stops the drainer; an automatic pause ends | `ActionQueue`, `OAuthPause` |
| OAuth `sync/oauth.py`, `scripts/refresh_outlook_oauth.py` | `oauth_state`, `worker_health` | load, exchange, count failures, pause, resume | worker and script refresh at once, restart between row and mirror | enough failures pause; health is not reported while the pause stands | `OAuthPause` |
| Mail sync `sync/sync_worker.py` | `emails`, `sync_state` delta link | fetch page, upsert, soft-delete, resync | death between pages, a link that dies in a round, two rounds at one time | what the link says was seen is in the table; the link catches up | `MailSync`, `Reverter` |
| Resurrect `actions/resurrect.py` | `emails.deleted_at` | clear a soft delete | - | - | `ActionQueue`, `MailSync` (as `--force`) |
| Ingest `ingest/*.py` | derived fields, idempotency keys | select a batch, tasks with keys, process one, re-derive | body and prompts change under a run; two runs on one message; death between value and key | a key stands for the value beside it; the queue drains | `Ingest` |
| Sensitivity classifier `sensitivity/*.py` | the label of a message | model's label with a floor, pattern override | the override is a second write, over a body read anew; the sync rewrites bodies | what the patterns force on the body they were held to stays, and that body never reaches a paid model | `Ingest` |
| Escalation handshake `user_confirmation.py`, `sensitivity_tokens.py`, `main.py` | refusals, confirmations, the arm, dispatch grants, tokens in memory | yes, mint, consume, lapse, relabel | mint verb, tool call and draft look for the same evidence in several statements; labels are rewritten under a call | each opening spends evidence a yes has written; nothing the gate read as sensitive is shown without one | `Escalation` |
| LLM router `router/*.py` | pause, degraded mode, `router_calls`, cache, budget counter, one-shot, slots | `ask_router`, `dispatch_tool_call`, `dispatch_embedding` with gates, retry, escalation, audit | calls at one time over one counter, one-shot and class; failure after payment | money is accounted for, slots and locks come back, the one-shot survives refusals, crossing the cap degrades | `Router` |
| Routing policy `router/policy.py`, `set_model_persistent` | two files, a snapshot per process, the watcher | edit, break, delete, reload, set and poll | a half-written file, a watch that dies with its file, two setters | edits that load reach the router | `RoutingPolicy` |
| Notifications `notifications/*.py`, their verbs, the Hermes scripts | `notifications_outbox`, mutes, posture | send with gates and dedup, pull, claim, print, acknowledge, recover, digest | an acknowledgement after the sweep, two deliverers, a collapse onto a row being claimed, an acknowledgement before the post | an accepted urgent event is posted unless Hermes drops it; an acknowledged row was printed; noise is bounded | `NotificationOutbox` |
| Worker and scheduler `worker.py`, `observability/scheduler.py` | `worker_health`, alarm flag, token cell | intervals, heartbeats, alarm, token refresh | the alarm edge is memory, its send may fail, the process restarts | a failing sync is heard of | `Worker` |
| Audit, status, logging, prompts, read verbs | append-only rows | report | - | - | not modelled |
| Benchmark, evals, operator scripts | offline files | statistics | - | - | not modelled |

How they interact: the chat boundary writes confirmations, `mint_grant`
consumes them and promotes parked rows, the drainer reads grants, emails and
the pause row, writes rows and history, calls the adapter and enqueues
notifications; the reverter queues ordinary rows; sync writes the emails that
propose, drain and ingest read; ingest and the chat call the router, whose gate
reads the label ingest wrote; a failing token refresh pulls the kill switch
that the drainer and the router obey; the sync's health alarm and every
failure notice end in the outbox.

## Modules

```
ActionTypes <- ActionQueue <- Reverter                      (MCReverter)
                    ^-- ActionQueueRefinement -> ActionLifecycle (MCActionQueue)
OAuthPause                                                  (MCOAuthPause)
RoutingPolicy <- Escalation <- Router                       (MCRouter)
NotificationOutbox, GraphWrites <- Worker                   (MCWorker)
MailSync <- Ingest                                          (MCMailStore)
```

An arrow is EXTENDS: the module on the right composes the one it points to,
shares its variables and adds the actions in which they meet.

`ActionTypes` is the registry of `actions/types.py`: three tiers, the send and
move families, who needs a grant. Tier-0 capabilities are refused by propose
and never become rows, so they are absent.

**`ActionQueue`** is the life of a `pending_actions` row. Its variables are the
columns the code branches on (`row`, `history`, `grants`, `confirmations`,
`email`, `paused`), the place of a message in Graph (`place`, external), the
clock, and the locals of the coroutines: `drainer[d]` is where drainer `d`
stands in `run_tick` / `_process_claimed_row`, `minter[m]` where a request
stands in `mint_grant`, `replaying` the rows a CLI replay has checked and not
yet reset. One action is one statement or one Graph call:

| Code | Actions |
|---|---|
| `propose_action`, `cancel_action` | `Propose`, `Cancel` |
| `record_grant_confirmation`, `mint_grant`, `revoke_grant` | `Confirm`; `MintFind`, `MintConsume`, `MintInsert`; `Revoke` |
| `cooling_off_tick` | `CoolingOffTick` |
| `run_tick` | `TickStart` (pause gate), `Select` (batch), `Claim`, `PauseCheck` (second snapshot and release) |
| `_process_claimed_row` | `CheckGrant`, `CheckTarget`, `CheckSendCap`, `CapturePreState`, `InsertHistory`, `Dispatch`, `MarkApplied`, `Repair`, and the exits `Park`, `MarkFailed`, `NotifyFailure` |
| the catch-all of `run_tick` | `Recover` (points `error`, `late_error`) |
| `replay_action` | `ReplayCheck`, `ReplayReset` |
| `PauseState.pause` / `resume` (row only) | `Pause`, `Unpause` |
| sync, resurrect | `Upsert`, `SoftDelete`, `Resurrect` |
| faults | `Crash`, `ApiCrash`, `DbError`, `PauseUnreadable` |

Abstractions, each with its reason:

* Propose reads the marker and inserts in one step: the row is judged only by
  what that read returned, so a delay of the INSERT is a delay of the proposal.
* `PauseCheck` merges the second pause snapshot with the release write; between
  them the row is owned and only the pause flag can change, and only to a value
  that the next tick reads again.
* An exception of the adapter and a refusal by Graph are the same failed
  dispatch; so are the failures of the pre-state read. What happens inside one
  dispatch is `GraphWrites`.
* The batch is a set from which the first row in the order of
  `SELECT_DRAINABLE` is taken; ties come in any order.
* An exception in the claim or the select abandons the tick, which is `Crash`.
  A tick refused because the pause row is unreadable is a tick that does not
  start; unreadable at the second snapshot is `PauseUnreadable`.
* `Resurrect` is unguarded, as with `--force`: it may bring back any
  soft-deleted message.
* Only confirmations of scope `grant` are here; those of sensitivity are in
  `Escalation`.
* Several drainers: the deployed worker starts one, but the claim statement is
  written for more, and its comments promise safety for them.

**`ActionLifecycle`** says what the user is promised of an action and nothing
of how: it is open until applied, failed or cancelled, is sent at most once,
a cancelled one never was, an applied one was and never opens again; only a
failure is retried. One disagreeable step is in it because it is in the code:
`Disown`, an applied action that the catch-all of `run_tick` reports as failed
when the book-keeping after the success raised. `ActionQueueRefinement` maps a
row's status to the phase and the length of `attempts` to the count of sends.

**`Reverter`** extends the queue with `revert_action` as its statements
(`RevertCheck`, `RevertPlaceholder`, `RevertClaim`, `RevertInsert`), a CLI that
may be killed between them, and the split of a delta page into `FetchDelta` and
`ApplyDelta`. `RInitLegacy` starts from a database in which an older version
applied a mark without history. The inverse is an ordinary row, so the whole
drain pipeline of `ActionQueue` runs beneath it, with the two exceptions the
drainer makes for a reverted move (a soft-deleted target is accepted; the local
row is repaired after the dispatch).

**`OAuthPause`** is the refresh of `exchange_and_persist` in the worker and in
`refresh_outlook_oauth.py`, statement by statement, with the `pause_state` row,
the mirror each process keeps of it, the failure counter and the health row.
The worker's mirror is seeded at boot (`Restart`), the script's never is
(`Reauth`), and the API's decides only the wording of a reply and is left out.
The identity endpoint answers with tokens, with a failure that is counted, or
with a 200 that is not JSON, which raises past all the bookkeeping. Token
contents, rotation count and the texts of errors are left out.

**`GraphWrites`** is one call of `OutlookGraphWriteAdapter` at a time (the
drainer makes them in turn): `_request_with_retry` with its manual attempt
counter, the one free refresh on a 401, the cell of the worker's memory the
token is read from, the hook and the interval task that refill it, and a Graph
that may carry out a request and lose the answer. Building the request changes
nothing; whether there is one to make is the choice of `Apply`.

**`NotificationOutbox`** is `send_urgent` / `send_important` with posture,
mutes, the dedup count and its collapse, one action per statement; the Hermes
script `pull_and_deliver.py` with the verbs it calls (candidates, claim, fetch,
write out, acknowledge, and acknowledgements that arrive late or never); the
recovery sweep; the operator's mutes; the daily digest. Time appears as three
facts that may become true at any moment (a claim is over 60 s old, a row is
over an hour old, a bounded mute has expired). The message of a row is the set
of events it stands for, since the collapse rewrites it. The script flushes a
row's message to its stdout (`printed`) and acknowledges the row at once, always
with "ok" (`pull_and_deliver.py:110-131`). The Hermes container posts that
output to Discord afterwards (`HermesPosts`) or fails to (`HermesDrops`, a
fault; `docs/operations/cron-jobs.md:15,228`), and tells neither script nor
table; both are external. The report of a failed delivery (`PostFails`) is in
the contract of `ack_notification`; the shipped script never makes it.

**`Worker`** composes the two: the sync interval task with its two heartbeats
and the alarm (`CheckAlarm` starts an urgent notification and `AlarmSent` sets
the in-memory flag only when it returned), the drainer's task with its
heartbeat, and `Restart`, which takes all memory of worker and API. The calls of
the adapter stop when the drainer's task has ended.

**`MailSync`** is `run_once`: a round takes pages from the stored link, writes
each message of a page, and stores the new link after the last. Graph's changes
are numbered, a link is the number up to which it has seen them and a message's
marker the number of its last change; pages show messages as they are when they
are fetched. Links expire, requests are throttled with retries, messages come
without an id, the process dies anywhere, and `sync-now` runs a round beside
the worker's.

**`Ingest`** extends it with `run_batch` and `execute_rederive` as one cursor
per process: the label (model, floor, then the owner's patterns in a second
write), the chain of tasks with their idempotency keys, the refusal of the
router to show a paid model what is not normal, and the operator's
`--email-id` and `rederive`. A body is the change marker of its row. The owner's
patterns match sender, subject and body, so what they force is a set of bodies
of a message (`ForceConfidential`, `ForceSensitive`). The pattern pass reads the
row again (`pipeline.py:244`): it may be held to another body than the one the
label or the prompts of its run are made from, and `judged` records to which. A
cursor has two prompt versions: the policy's, which the router asks with, and
the one values and keys are stamped with, which `--prompt-v` sets. A value
remembers both (`made` and `version`), and `foreign` what was re-derived while
they differed.

**`RoutingPolicy`** has `policy.yaml`, the overrides file, the snapshot of each
process, the API's watcher with its announce-once rule for a deleted file, and
`set_model_persistent` with its two-second poll. Of an entry the model keeps the
model, the escalate flag and whether answers are cached. Either file may be
broken (half written, unparsable, invalid). Broken overrides are passed over; a
broken `policy.yaml` raises, so a reload swaps nothing although its notification
is consumed (`policy.py:744-762`), and a process does not start.

**`Escalation`** has the rows and tokens by which a "yes, escalate" opens a
sensitive email: the refusal shown in chat, the confirmation made from it, the
arm, the dispatch grants, the tokens of the API's memory; and the mint verb in
its two lookups. The ten minutes an entry lives are the action `Lapses`.
`Classify` writes a label over any other: the pipeline writes the model's and
then the patterns' (`classifier.py:250`, `pipeline.py:281`), `rederive` another
one of the model's (`rederive.py:193`).

**`Router`** extends both: a call is a record with a program point that ends
where the code awaits. `Begin` is any caller; `ReadPause`, `ReadDegraded`,
`ReadClass` (with `PeekGrant`, `UseConfirmation`, `TakeArm`, `RecordGrant`
beneath it), `Admit`, `Acquire`, the answers, `Spend`, `EnterDegraded` and
`Record` are the gates and awaits of `ask_router`, `dispatch_tool_call` and
`dispatch_embedding`, with their differences. A paid answer costs 1. Gates that
look only at clocks or sizes (rate, loop, price of one call, rendering, missing
adapter) refuse or do not. Calls, counters, slots and the one-shot belong to a
process and go with it (`Restart`).

Eight modules hold the theorems: `ActionQueueProofs` (types, claims,
dispatches), which `ActionQueueRefinementProofs` (the abstract lifecycle),
`ActionQueueOutcomeProofs` (grants, outcomes, windows, daily cap) and `ReverterProofs`
rest on; `OAuthPauseProofs`; `WorkerProofs` (adapter and outbox);
`MailStoreProofs` (sync and ingest); `RouterProofs` (policy, escalation and
router). The `MC` modules instantiate for TLC. Definitions called `Mut...` are
not part of the model: each changes one definition the way a plausible bug
would, to show that a property notices.

## Runs

All numbers are TLC's distinct states.

| Run | Question | Properties | States |
|---|---|---|---|
| `AQSends` | two sends, one drainer, one mint, cancel, pause, replay, one fault, two days; drainer and ticker fair | `TypeOK`, `SendsCoolOff`, `SendCapWithSlack`, `ClosedIsFinal`, `ClaimResolves`, `PendingDrains`, `ImplementsLifecycle` | 543 568 |
| `AQDrainers` | two drainers, two rows of Tier 1 and 2 or a reverted move and its queued inverse, pauses, one replay, one fault | `ClaimOwnership`, `AtMostOneDispatch`, `PauseStopsBatch` | 731 364 |
| `AQGrants` | a Tier-2 or Tier-3 row over two messages, two mint requests over one confirmation, grants revoked, expiring, sync running, one fault | `AppliedUnderGrant`, `FailureAnnounced`, `GrantsBackedByConfirmations` | 2 117 440 |
| `RVReverts` | two reverts of a mark or a move, three rows, replay, delta feed, one fault | `OneInversePerAction`, `InverseOfApplied`, `RevertedHasInverse` | 1 307 343 |
| `OARefresh` | worker, operator and script, threshold 2, three rejections, one fault | `OTypeOK`, `ThresholdPauses`, `HealthyMeansResumed`, `AutoPauseEnds` | 323 207 |
| `RTCalls` | two calls at a time in API and worker, in three scenarios: money, a yes on sensitive mail whose labels are rewritten, the policy files | `SpendAccounted`, `NothingLeaks`, `CrossingDegrades`, `SensitiveUnderYes`, `EvidenceSpentOnce`, `EditsReachRouter`, `RefusalKeepsOneShot` | 856 836 |
| `WKHealth` | two senders, two delivery scripts, failing syncs, a Hermes that may drop what it was handed, mutes and the digest, one Graph call with expiring tokens, in five scenarios | `NoiseBound`, `OneDeliverer`, `AckedWasPrinted`, `RepeatsOnlyLostAnswers`, `UrgentHeard`, `SyncFailureHeard`, `NoStaleTokenFailure` | 321 199 |
| `MSMail` | two syncing processes over an inbox whose links expire, then the pipeline and the operator over the same rows, while bodies and prompts change | `StoreFollowsInbox`, `PatternsStick`, `ForcedNotExposed`, `KeysBacked`, `CatchesUp`, `QueueDrains` | 1 125 392 |
| `AQReplayInert`, `OAHold`, `MSForced`, `RTYes` | a sentence of the repository against what the code does | `ReplayedRowDrains`, `HoldSurvives`, `ForcedStaysConfidential`, `OneYesOneEmail`: each violated | - |

What they show, beyond the names:

* **`AtMostOneDispatch`** rests on the primary key of `action_history` and not
  on the row's status: with two drainers, a crash and a replay a row may be
  drained again, but its second `InsertHistory` fails. The same key is why a
  replay is inert (below).
* **`ClaimOwnership`**: the terminal writes have no status condition. They
  are safe because the claim is conditional, except where a fault, a replay and
  a second drainer meet: the invariant names exactly this exception.
* **`ImplementsLifecycle`**: the whole pipeline, its crashes and its replays
  included, is one of the histories of `ActionLifecycle`.
* **`SendCapWithSlack`**: the count runs before the dispatch, and misses rows
  stuck in `draining` and rows reset by a replay; the bound states the slack.
* **`GrantsBackedByConfirmations`**: the conditional UPDATE in
  `_consume` is what keeps one yes from paying for two grants.
* **`ClosedIsFinal`** and **`PauseStopsBatch`** cover cancel and pause racing a
  batch that was read before them. The first names two ways out of `applied`:
  a revert whose local repair raised is failed by the catch-all, and the race
  that `ClaimOwnership` leaves open.
* **`RevertedHasInverse`** needs its fault disjunct: a crash between the
  reverter's claim and its insert loses the revert for good.
* **`AutoPauseEnds`**: restarts between the pause row and its mirror are
  survived because the worker seeds its mirror from the row at boot.
* **`SpendAccounted`** follows each charge through retries, an escalated leg,
  lost writes and restarts; **`CrossingDegrades`** is stated for a counter the
  process itself took over the cap, which is what the code reacts to.
* **`SensitiveUnderYes`** and **`EvidenceSpentOnce`** say what the handshake
  does keep: a paid model sees an email that the gate read as sensitive only after
  an opening for that task, one read as confidential or without a label never,
  and each opening used up evidence that a yes wrote. Labels are rewritten at any point of a call.
  The class is the one the call's own gate has read: a label
  written while an admitted call waits for its slot does not stop it, and a
  label taken to `normal` opens the mail without a yes. That one yes may write two
  pieces of evidence is `RTYes`.
* **`EditsReachRouter`** excepts what the code ignores: a broken file (whose
  notification is gone; the next change is taken), and, when the overrides file
  was deleted, the dead watch and the announce-once rule.
* **`RefusalKeepsOneShot`** is about text calls only: a tool call takes the
  one-shot before its gates.
* **`StoreFollowsInbox`** survives deaths between pages since the link moves
  last; what a resync cannot know (who left while no link was held) is listed.
* **`PatternsStick`** and **`ForcedNotExposed`** name the windows the second
  write leaves: two runs on one message, a death before it, a re-derivation, and
  a body that is not the one the pass was held to. The last one is wide: a body
  that the sync brings after the pass is never held to the patterns, and one it
  brings between the pass and the reading for the prompt was not either.
* **`KeysBacked`**: what the pipeline skips by a key was made from the key's body
  and with its prompt. Of the messages and tasks that `rederive --prompt-v` went
  through for a version that is not its policy's, only the body and the stamp
  agree: the value was made with the policy's prompt.
* **`OneDeliverer`**, **`AckedWasPrinted`**: an acknowledgement does not say which
  claim it answers, so one that comes after the sweep may close another's claim;
  the properties hold for every other row.
* **`UrgentHeard`**, **`SyncFailureHeard`**: from the table to Discord through
  dead scripts, lost answers and collapses, given up on a reported failure at the
  attempt cap, on an acknowledgement that crossed claims, and on what Hermes
  drops. The last is no corner: the acknowledgement is out by then, so nothing
  in the system tries again. Only up to the script's stdout is delivery
  at-least-once.
* Some properties say less than their names. **`FailureAnnounced`**,
  **`CrossingDegrades`**, **`RevertedHasInverse`** and **`SyncFailureHeard`** excuse
  a fault, so they show the order of two statements and not that the second
  survives the loss of the process. **`PendingDrains`** and **`QueueDrains`** run
  with no more waiting rows than a batch holds, so the starvation of old rows by
  a full batch of newer ones, which the code allows, does not occur.
  **`NoiseBound`** is run with one sender at a time; the race between a count and
  another sender's insert is left to the theorem `NoiseIsBounded`.
* **`RepeatsOnlyLostAnswers`**: one dispatch may take effect more than once, but
  only for lost answers, and within `MaxRetries + 2` requests.

### Bounds

The bounds are constants of the modules and every one is a guard. Two rows are
enough for a batch with a stale element, for the send cap (1) to be reached and
for a grant to be tried against the wrong message; `Reverter` needs three (an
action, its inverse, and a second inverse that must not appear). One message is
enough where messages do not interact, two where a grant, a yes or a pattern
must not reach the other. One fault suffices because each property constrains
one row or one pair of actors and every crash point is tried; one replay is
enough to reopen a row. `MaxNow` lets every window open and close once
(`CoolingOff`, `GrantWait`, `ReplayWindow`, grant lifetime = 1 or 2 ticks) and,
with `DayLength = 2`, a UTC day to change. `RVReverts` and `AQDrainers` have
`MaxNow = 0`: no property of theirs depends on the clock. Rows, messages,
drainers, mint requests and undoers are interchangeable in the safety runs
(`Symmetry`), never where liveness is checked. The OAuth threshold is 2 instead
of 3: one failure below it and one at it; three rejections then let the count
pass it.

The adapter's retries (2 for 3), the dedup threshold (1 for 5), the attempt cap
(2 for 5), the page (1 for many), a batch (2 for 100), provider slots (1 for 4) and the monthly cap
(two paid answers) are the smallest numbers at which the limit is met, and met
again. Two labels written (`MaxLabels`) are the model's and the patterns', or one
of them and a re-derivation. Of the three bodies the first message of `MSMail`
takes one is forced confidential, the next not at all and the last sensitive, so
that a change of the body both adds and removes what the patterns ask. Two callers are two calls at one await; three tokens of Graph (none, the
one in the cell, a newer one) are the cases of the hook.

`MCRouter`, `MCWorker` and `MCMailStore` start each behaviour with its bounded
events already spent on all concerns but one (`OnSpend`, `OnYes`, `OnPolicy`;
`OnOutbox`, `OnSend`, `OnSync`, `OnNoise`, `OnGraph`; `OnSync`, `OnDrain`,
`OnCommand`): the parts meet where the modules say, but their product would
only repeat them. Each such start is a state the system passes through: in
`MCWorker` the drainer's heartbeat is written or not yet, in `MCMailStore` the
rows are labelled, derived and judged as a run of the pipeline leaves them.

Deadlock is not checked: with every id, event and job used up, the clock at its
bound and the queues empty the system rightly has nothing to do.

### Fairness

`AQSends` assumes weak fairness of each drainer (the loop `run_loop` calls
`run_tick` for ever, and every step of it is enabled until taken), of
`CoolingOffTick` (an interval task of the scheduler), of a mint request that has
started (an API handler runs to its end) and of the clock. Nobody is obliged to
propose, confirm, cancel, pause, resume or replay. `PendingDrains` therefore
excuses a paused queue, and `ClaimResolves` a fault: after a crash a row does
stay in `draining`, and nothing in the code looks for it. `OARefresh` assumes
that the worker keeps refreshing (`sync_loop`) and that an access token
expires; no fairness for operator or script. `WKHealth`: a send, a pull and an
acknowledgement that have started go on, the cron script and the recovery sweep
run again and again, a claim nobody serves gets old, the sync task goes through
its heartbeats; Hermes gets to everything printed that it does not drop;
nothing forces a digest, a mute to expire or a token to come.
`MSMail`: the worker's rounds and its batches go on; not the operator's. In all
of them that faults, rejections and expiries come to an end is their bound.

## Proofs

The theorems hold for any sets of rows, messages, folders, drainers, mint
requests, scripts, senders, models' answers and calls, any windows and any
bounds. They rest on the named assumptions about the constants, which TLC
evaluates in every run: `TypesAssumption`, `NullAssumption`,
`WindowAssumption`, `BoundAssumption`, `PauseAssumption` and
`CountAssumption` (queue);
`ThresholdAssumption`, `OAuthBoundAssumption`, `ProcessAssumption` (OAuth);
`GraphAssumption`, `OutboxAssumption`, `WorkerAssumption`; `SyncAssumption`,
`IngestAssumption`; `EscalationAssumption`, `RouterAssumption`. Finiteness is
assumed only where a property counts: the rows and drainers of the daily cap
(`DAILY_SEND_CAP = 20` of `actions/drainer.py:121`, assumed positive), the
senders of `NoiseBound`, the messages
of a batch (whose size, `BATCH_SIZE = 100` of `ingest/backpressure.py:25`, is
assumed positive), the calls and emails of the router's sums. `NULL` is never a
row, a message or a caller.

The action queue:

* **`TypeCorrect`** (`ActionQueueProofs`): `Spec => []TypeOK`. Types alone are
  not inductive: a drainer's `id` is NULL or a row, and a step writes
  `row[id]`; a move's target is read as a folder; a mint request inserts its
  type into a grant. `TypeInv` adds `RowShape`, `DrainerShape` and
  `MinterShape`: a drainer at a point where it holds a row has a row's id, a
  move has a target, a mint request in progress has a type.
* **`DispatchedAtMostOnce`** (`ActionQueueProofs`): `Spec =>
  []AtMostOneDispatch`. `OnceInv` adds: a row without history was never tried;
  a drainer about to dispatch has logged its row and the row was not tried; no
  two drainers dispatch one row. Only `InsertHistory` and `Dispatch` touch
  these facts; every other action is `Quiet`.
* **`ClaimsAreOwned`** (`ActionQueueProofs`): `Spec => []ClaimOwnership`.
  `OwnInv` adds what the catch-all needs: a drainer between its terminal write
  and the end of the iteration holds a closed row unless disturbed, and the
  point `late_error` is reached only through a fault. Every step is one of five
  shapes (`Outside`, `Inward`, `Taking`, `Leaving`, `LateWrite`); each keeps
  `OwnInv`.
* **`GrantsArePaidFor`** (`ActionQueueOutcomeProofs`): `Spec =>
  []GrantsBackedByConfirmations`. `BackedInv` adds the mint under way: what it
  found is a confirmation of its type and emails, and one that has consumed it
  is alone in that, with no grant on it yet.
* **`AppliedWithGrant`** (`ActionQueueOutcomeProofs`): `Spec =>
  []AppliedUnderGrant`. `GrantInv` carries the grant from the check to the
  terminal write: whoever has passed `CheckGrant` with a row that needs a grant
  holds one that covers it. It stays covering because grants are only appended
  and revoked (`GrantsKept`) and no step changes what a row proposes
  (`ProposalsKept`).
* **`PauseStops`** (`ActionQueueOutcomeProofs`): `Spec => []PauseStopsBatch`.
  `PausedOnce`: a drainer that has made its call under a pause is past the
  dispatch, and only an unpaused `PauseCheck` commits it to another.
* **`ClosedRowsStay`** (`ActionQueueOutcomeProofs`): `Spec => ClosedIsFinal`,
  from `OwnInv` (nobody at a terminal write holds a closed row) and `LateOpen`
  (the late catch-all does, only for a failed row or a reverted one whose local
  repair raised).
* **`SendsAreCooled`** (`ActionQueueOutcomeProofs`): `Spec => []SendsCoolOff`.
  `CoolInv` adds that the window of a send is over as soon as its row is in
  motion; only the ticker sets it in motion, and neither park, replay, pause nor
  crash takes the proposal's time with it.
* **`FailuresAreAnnounced`** (`ActionQueueOutcomeProofs`): `Spec =>
  []FailureAnnounced`, inductive by itself: a row fails in `MarkFailed`, which
  goes on to the notice, in the catch-all, under its own name, or after a fault.
* **`SendsAreCapped`** (`ActionQueueOutcomeProofs`): `Spec =>
  []SendCapWithSlack`. The bound is far from inductive, for a step sees only the
  count of closed rows. `CapInv` names what the count misses: a send of today is
  counted, in the hands of a drainer that will enter it, or a stray, and strays
  are no more than faults and replays together; and what was sent today plus the
  sends that have passed the cap and are still to go stays within the cap and
  its slack. The step that matters is `CheckSendCap`: the count it reads is below
  the cap, and what is cleared, in hand or passing now are different drainers,
  so they add at most one to the cap for each further drainer. A crash, a
  database error or a replay makes one stray (`LosesOne`); every other step
  makes none (`KeepsCap`); a new day starts with no send (`TickKeepsCap`).
* **`QueueImplementsLifecycle`** (`ActionQueueRefinementProofs`): with one
  drainer, `Spec => ImplementsLifecycle`. Beside `OnceInv` and `OwnInv` the
  mapping needs `LifeInv`: a row that a drainer is at is open, or decided where
  the drainer has decided it (`HeldRowsMove`); a row at rest before its dispatch was
  never tried (`RestUntried`); the drainer that writes `applied` has made the
  one try (`SuccessTried`). The assumption `OneDrainer` is what the worker does,
  and is needed: with two drainers a `late_error`, met by two replays, can fail
  a row that another drainer has applied, and then reopen it.

The reverter, whose theorems are of `RSpec`, so of the queue with reverts,
inverses, the delta feed and the local repair in it (`ReverterProofs`). `RInv` is
what the queue keeps (`QueueInv`: the invariants above, which inverses do not
disturb), types, `ClaimInv` (a reverter about to insert has the mark in
`action_history`, is alone with it, and no inverse is there yet; an inverse in
the queue has its action marked), and two facts that hold while no fault has
struck: what a reverter works on stays applied (`UndoesApplied`), and what has
an inverse does (`InverseOfApplied`):

* **`RevertedOnce`**: `RSpec => []OneInversePerAction`; two reverts race for the
  conditional UPDATE of `reverted_at`, and nothing hands the mark back.
* **`RevertsAreQueued`**: `RSpec => []RevertedHasInverse`.
* **`InversesUndoApplied`**: `RSpec => []InverseOfApplied`.
* **`RevertsDispatchOnce`**: `RSpec => []AtMostOneDispatch`: `OnceInv` survives
  the composition, inverses being ordinary rows.

OAuth and the kill switch:

* **`OTypeCorrect`** (`OAuthPauseProofs`): `Spec => []OTypeOK`, inductive as it
  stands.
* **`HealthyIsResumed`** (`OAuthPauseProofs`): `Spec => []HealthyMeansResumed`.
  `HealthInv` adds that the worker's own pause is mirrored except while the
  mirror is being written and is gone past the resume, and that by the time the
  worker pauses its last report is no longer "ok".
* **`FailuresPause`** (`OAuthPauseProofs`): `Spec => []ThresholdPauses`.
  `ThresholdInv` adds that a script runs with an unpaused mirror until it has
  itself paused (`ScriptsUnpaused`), and that the worker's mirror is an excuse
  only until its own resume is under way (`ThresholdSeen`).

The adapter and the worker:

* **`RepeatsAreLostAnswers`** (`WorkerProofs`): `GraphSpec =>
  []RepeatsOnlyLostAnswers`, for any number of retries. `ChainInv` counts:
  the requests made are the attempts, the refresh and the one under way, and
  before the last one every effect is a lost one.
* **`StaleTokensDoNotFail`** (`WorkerProofs`): `GraphSpec =>
  NoStaleTokenFailure`. `TokenInv`: tokens expire in the order of issue, and
  after the hook the cell is as new as what the hook was offered, or both are
  refused.
* **`WorkerDrivesAdapter`** (`WorkerProofs`): `WorkerSpec => GraphSpec`:
  the worker with its outbox, alarm and restarts takes the adapter only through
  steps of its own, so the corollary `WorkerCalls` has both properties of the
  worker.

* **`RowsHaveOneDeliverer`** (`WorkerProofs`): `WorkerSpec => []OneDeliverer`.
  `HoldInv`: a row that a script holds is not waiting, unless the sweep took it
  back; so nobody else can claim it.
* **`AcksArePrinted`** (`WorkerProofs`): `WorkerSpec => []AckedWasPrinted`.
  `AckInv`: what a script has in hand, or a late acknowledgement carries, is an
  attempt that was made, and has the content the row has for as long as that
  attempt is the current one; what is acknowledged was printed.
* **`NoiseIsBounded`** (`WorkerProofs`): `WorkerSpec => []NoiseBound`, for any
  threshold and any number of senders. The dedup count is read in one step and
  acted on in another, so the invariant looks ahead: `OrderInv` says that the
  rows of a tier never pulled are the last ones, and `RoomInv` that at every
  place of the table the fresh rows behind it, together with the senders that
  are about to insert or would collapse onto a row at or before it, stay below
  the threshold plus the senders.

Sync and ingest (`MailStoreProofs`):

* **`SyncLosesNothing`**, **`StoreLosesNothing`**: `StoreFollowsInbox` in
  `SyncSpec` and `IngestSpec`. `StoreInv`, for as long as no two rounds ran at
  once: up to the target of a round, a row differs from the inbox only if its
  message is still to be fetched or on the page being written.
* **`KeysStandForValues`**: `IngestSpec => []KeysBacked`. `KeyInv`: two cursors on
  one message are in the history (`Alone`), a cursor about to write a key has
  written the value the key stands for (`KeyReady`), and value and key differ only while a
  cursor is between the two writes (`Backed`). The prompt a value was made with
  is that of its stamp unless the cursor that wrote it was asking with another,
  which puts its message and task among the `foreign` ones.
* **`PatternsPrevail`**: `IngestSpec => []PatternsStick`, whatever the bodies and
  whatever the patterns force on each. `PatternInv`: as long as the patterns
  were held to one body of a message only, the label they force on it holds, or
  a cursor that is about to write it is pending.
* **`ForcedStaysLocal`**: `IngestSpec => []ForcedNotExposed`, from `Alone` and
  `PatternInv`: a cursor that asks a paid model is past its label, and no other
  cursor is on the message.

Policy, escalation and router (`RouterProofs`), all of `RouterSpec`; `RTyped` is
the type invariant with the facts that make a program point determine which
fields of a call are set:

* **`EditsReachRouterHolds`**: `[]EditsReachRouter`; a snapshot differs from the
  files only while the watcher has been notified, a file is broken, or one of
  the exceptions of a deleted overrides file holds.
* **`NothingLeaksHolds`**: `[]NothingLeaks`. `SlotsCounted` and `LockOwned` count
  over calls; each step moves one call, so the cardinality changes by one.
* **`CrossingDegradesHolds`**: `[]CrossingDegrades`. `CrossInv`: a flag in memory
  means the row is set, and a counter taken over the cap has set the flag, or the
  lock is held to set it.
* **`RefusalKeepsOneShotHolds`**: `RouterSpec => RefusalKeepsOneShot`.
* **`SensitiveUnderYesHolds`**: `[]SensitiveUnderYes`. `YesInv` follows a yes to
  where it is used: a call past its gate is on an email of a class it may show
  or holds an opening (`GateInv`), a token stands for an opening not yet shown
  (`DraftInv`), and what was shown had one (`ShownInv`). The class is that which
  the call's gate has read: the theorem is about every order of labels and gates.
* **`EvidenceSpentOnceHolds`**: `[]EvidenceSpentOnce`. `Evidenced` counts what
  was opened, the confirmations left, the arm, and the grants about to be
  written against the evidence that a yes wrote: every statement moves one.
* **`SpendAccountedHolds`**: `[]SpendAccounted`. `BillInv`: the charge is the
  ledger, what was lost and the sum of the costs the calls still carry; for each
  process the month's counter and what its calls have yet to add stay within
  the charge. The two sums run over an arbitrary finite set of calls. Since
  induction over an operator is not available, `Total` is defined by choosing
  elements, and its laws (empty set, one element more, a change at one place)
  follow from the well-foundedness of strict subset on the finite subsets
  (`FS_StrictSubsetOrderingWellFounded`, `WFMin`): a least set on which a law
  fails leads to a smaller one.

Only model-checked: liveness (`ClaimResolves`, `PendingDrains`, `AutoPauseEnds`,
`UrgentHeard`, `SyncFailureHeard`, `CatchesUp`, `QueueDrains`), which is out of
the prover's reach, with everything under fairness.

## Where the code and its documentation disagree

The first four have a run whose counterexample is the story.

* **A replayed row that had been dispatched cannot be drained** (`AQReplayInert`).
  `replay_action` leaves the history row in place and `_insert_history` is a
  plain INSERT, so the second drain ends in `drainer_internal_error`.
  (It also prevents every duplicate dispatch.)
* **An operator's hold can be taken over** (`OAHold`): whether to pause is
  decided by the worker's mirror, which knows nothing of a pause made in the
  API. The refresh overwrites the reason, and its next success resumes.
* **Re-deriving sensitivity drops the owner's patterns** (`MSForced`):
  `_rederive_one_sensitivity` writes the model's label and runs no override, so
  a message forced confidential may become normal and go to a paid model.
* **One yes opens two emails** (`RTYes`): it becomes a confirmation for the
  refused email and an arm that any other takes; and each later request of the
  turn arms again.

Seen while modelling and recorded here without a run of its own. In the write
path:

* A mint can be lost: the drainer sees no grant, the grant is minted and finds
  no parked row to promote (`authorization.py:110-115`), the drainer parks the
  row. It stays parked beside its grant.
* A Tier-3 row nobody grants waits for ever: it is parked in `pending_grant`,
  which the drainer does not select, so the grant-wait window of
  `drainer.py:418` is only looked at when a mint promotes it.
* A delta page fetched before a revert and applied after the local repair
  soft-deletes the message again (`drainer.py:733-736`).
* The send cap is not hard (`drainer.py:118-120`): see `SendCapWithSlack`.
* `docs/DATABASE.md:431` says a failed Tier-1 action can be reverted since it
  has a history row; `revert_action` refuses every row that is not `applied`.
* A failed local repair turns an applied revert into `failed`
  (`drainer_internal_error`) although Graph has done the move.
* The re-authorisation script never resumes (`docs/auth-recovery.md:106`,
  `pause.py:149`): the resume is decided by its own, never-seeded mirror; its
  rollback deletes the row whatever has become of it meanwhile. After an
  operator's resume the worker's mirror still says paused, and the automatic
  pause does not fire again until a success or a restart clears it
  (`ThresholdPauses` states the exemption).

In the router:

* The monthly cap (`budget.py:6`) is counted per process; the cost of failed
  attempts is not added; a process that starts above the cap never crosses it.
  A degraded router still escalates a tier, and `/budget reset` does nothing if
  it was the worker that entered degraded mode.
* A confirmed draft of a sensitive email still fails at its first leg
  (`orchestrator.py:200-206`): the tone call carries the email and no token.
* `dispatch_tool_call` takes the one-shot before its rate and cost gates; two
  calls at one time may share one one-shot.
* Refusals of drafts and ingest are recorded under caller origins for which no
  yes can claim them.
* `set_model_persistent` reports success although the worker never reloads; a
  changed baseline is ignored while a deletion is held announced.

In sync, ingest and notifications:

* A resync after a dead link leaves the rows of messages that left meanwhile.
  `sync-now` beside a worker's round may leave the link ahead of an older row.
  The thread's message count grows with every delivery of a message.
* A changed body is not classified again, and not held to the owner's patterns
  again: it keeps the label of the body before it, under which `--email-id` or
  `rederive` may ask a paid task with it (`PatternsStick` and `ForcedNotExposed`
  state the exception). `rederive sensitivity` clears the
  derived values and nothing runs their tasks again (`queries.py:527-529`); a
  failed `rederive embedding` leaves no vector under a new stamp; `--prompt-v`
  stamps and keys a version the router did not ask with (`rederive.py:241,257-273`;
  `KeysBacked` states the exception); a re-derived coarse class leaves the
  fine one. A task that fails after the label was written is not picked up
  again. A batch of the newest messages without an answer starves older ones.
* An urgent row is acknowledged before Hermes posts it, and Hermes does not
  report back: a post that fails after the script's flush is lost behind the
  status "ok" (`pull_and_deliver.py:12-14`; `UrgentHeard` states the exception).
* A `policy.yaml` caught half written is not looked at again until something
  touches a watched file: the reload that fails has used up the notification
  (`policy.py:744-762`).
* The digest marks everything queued as delivered, rows it did not show
  included (migration `021:6-8`).
* The sync's health row is written "failed" by the iteration and "ok" by the
  scheduler right after it (`worker.py:214-215` says both write the same
  outcome).

## Not modelled

* **Of modelled components**: daily limits, anomaly detection and the cache
  warmer of the router (gates on clocks and counters that no other state
  depends on); sender enrichment, backpressure counters and cost ceilings of
  ingest; the probe by which `resurrect` asks Graph before it clears a
  deletion; signals and the order of a clean shutdown.
* **Model providers, Graph, the identity endpoint**: their answers are
  inputs of the actions. Of Hermes only whether it posts what a script printed.
* **Read verbs, status, audit, prompts, formatting, logging**: no state others
  read.
* **Database connections and the migration runner**: SQLite's serialization of
  writes is assumed, its recovery is not modelled.
* **Benchmark, evaluation and set-up scripts, vendored and generated files**:
  offline, not part of the running system.
