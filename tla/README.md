# Verification of wagw-shimmy

TLA+ specifications of the shim between GOWA (a WhatsApp gateway) and an agent,
TLC instances that check them, and TLAPS proofs about them. Paths below are
relative to the repository's root (`src/forward.rs` is the shim's worker).

    tlc -workers 2 -config fq_queue.cfg MCForwardQueue.tla     one run
    tlapm ForwardQueueProofs.tla                               the proofs

## 1. Inventory

### The system

One box per WhatsApp account. GOWA posts signed webhooks to the shim; the shim
decides whether a message is for the agent, stores it on disk, answers 200, and
a worker posts it to the agent. The agent (for instance the Hermes adapter)
posts replies back to the shim's send API, which sends them through GOWA.

    GOWA --webhook--> [verify, classify, mention, dedup?, policy, label]
                      [enqueue -> pending/] [mark dedup] --200--> GOWA
                      pending/ --worker, tasks--> agent      (or dead/)
    agent --/send*--> [bearer, validate, limiter] --> GOWA --id--> sent ids

Shared state: the queue directory (handlers write, worker and tasks read and
remove), the `Notify` that wakes the worker, the dedup set and the sent-id cache
(handlers of both directions), the limiter's bucket, the configuration (read
only). Only the queue directory survives a restart.

### Components

| component | state | operations | what is hard | what makes it correct |
|---|---|---|---|---|
| Webhook handler, `src/server.rs` 185-286 | none of its own | one request: verify, classify, dedup look-up, policy, label, enqueue, mark, 200 or 500 | requests of one id overlap (GOWA retries after 10 s); look-up and mark are apart; enqueue can fail half way | a 200 means the message is stored; a duplicate is not forwarded twice |
| Durable queue, `src/forward.rs` 34-100 | `<hex>.json.tmp`, `<hex>.json`, dead letters | `new` (reaps tmp files), `enqueue` (create, write, rename, notify) | crash between two system calls; two writers of one tmp file | what is listed is whole; nothing stored disappears |
| Drain worker, `src/forward.rs` 103-300 | where the loop is, `in_flight`, the semaphore, the listing | startup drain, wake by notify or 30 s tick, drain, shutdown | a stale listing; a notify while the file is in flight; shutdown at any point | one task per file; no file is stuck; shutdown ends |
| Forward task, `src/forward.rs` 291-364, 431-452 | attempt count | read, post, back off, remove, dead-letter, leave | the agent's 2xx and the removal are apart; every file operation can fail | no early dead letter; at least one forward |
| TTL set, `src/dedup.rs`; sent-id cache, `src/sent_ids.rs` | map from id to instant | `insert_new`, `record`, `contains`, `sweep` | the clock is read before the lock is taken; equal instants; eviction at capacity | a recent id is not forgotten, an old one not remembered |
| Process, `src/main.rs` | up, closing, draining | start, SIGTERM, graceful stop, drain with a 15 s limit | crash or timeout anywhere | nothing answered 200 is lost |
| Inbound classification, `src/model.rs` 255-390 | none | `into_inbound` for messages, reactions, calls | order of the drops; missing fields | own messages and status posts never reach the agent |
| Mention and policy, `src/server.rs` 220-270, `src/policy.rs` | reads sent ids, configuration | is the bot addressed; is the sender allowed | a mention depends on an id another handler may not have recorded yet | no message outside the allowlists is forwarded |
| Channel router, `src/channel.rs` | label -> client | label at ingress, client at forward | configuration changes between the two (restart) | a queued message always has a client |
| Send API, `src/server.rs` 288-541, `src/gowa.rs` | none of its own | send, reaction, presence, media | await on GOWA between the token and the recorded id; client disconnects drop the handler | an accepted send is recorded; the rate is bounded |
| Rate limiter, `src/ratelimit.rs` | token bucket | `try_acquire` | burst plus refill | no more sends than the bucket allows |
| Agent client, `src/agent.rs` | none | `forward`, `ping` | every non-2xx and transport error is an Err | Ok only for 2xx (or the debug sink) |
| Hermes adapter, `deploy/hermes-adapter/adapter.py` | seen ids, sessions file, a lock per session | webhook, turn thread, typing thread, reply with retries | acks before the turn; replies are sent outside the lock; a lost answer is retried | one turn at a time per session |
| Fleet scripts, `deploy/fleetctl` and the scripts it runs | tenants' YAML, secrets, the box's `/etc`, what the shim was started with | provision, pair, remove, rotate | each step may fail; the box, its file and its shim drift apart | a pairing is addressed and backed up; the shim runs what is rendered |
| Fleet view, `fleetview/src` | loaded fleet, selection, scroll, sizes of the last draw | reload, move, scroll | list, lines and panel shrink under the selection; routes derived apart from the shim's | what is shown exists, and is what the shim does |
| Configuration, `src/config.rs` | read once | parse, validate, fold group channels into the allowlist | unreadable secret files, labels with no endpoint | every label in use has a client |
| Media proxy and token, `src/media.rs` | none | sign at forward, verify and fetch | a link outlives the configuration it was made under | a link opens what it was made for, nothing else |
| Transcription, `src/transcribe.rs` | none | clip to text, in the worker | runs again on every retry | each transcript once |
| Health endpoints, `src/server.rs` 143-178 | none | probes | (stateless) | not modelled |

`PROJECT.json` lists the hazards of this code at their lines, with the
properties that cover each.

## 2. What is modelled now

### ForwardQueue: from GOWA's delivery to the agent

`ForwardQueue.tla` models `webhook_gowa` from the dedup look-up on (steps 5, 8
and 9 of `src/server.rs`), the whole of the queue and the worker in
`src/forward.rs`, and the life of the process in `src/main.rs`. A webhook handler
has no await after the body has been read, so it runs on one thread of the
runtime from its look-up to its answer: it is not cut off when GOWA hangs up,
but it interleaves with other handlers and with the worker between any two
system calls or uses of a shared map. Each of those is an action.

| variable | in the code |
|---|---|
| `handler[h]` | a running `webhook_gowa`, by where it is: `check` (dedup look-up), `create`, `write`, `rename` (in `enqueue`), `mark` |
| `fd[h]` | the directory entry of the file a handler has open: it follows renames, and is `gone` once the file has been replaced or removed |
| `dedup` | `AppState.dedup`, the ids that are marked |
| `disk[dir][id]` | `<hex>.json.tmp` and `<hex>.json` in `pending/`, `<hex>.json` in `dead/`; absent, torn (shorter than the message) or whole. hex is one to one, so an id is its file |
| `notify` | the one permit of tokio's `Notify` |
| `worker`, `stopping`, `entries` | where `worker_loop` is, whether it has left the loop, what is left of the directory listing |
| `inflight`, `task[t]` | `Worker.in_flight`; a spawned task by where it is in `process_file`, its attempt, and how often the agent has refused |
| `forwarded[id]` | history: how often `forward` returned Ok |
| `sends`, `acked` | GOWA: deliveries made, answers 200 received |
| `proc`, `faults` | the process, and the faults so far |

`Check`, `Create`, `Write`, `Rename`, `EnqueueFails`, `Mark` are the handler;
`Wake`, `Tick`, `Break`, `List`, `Spawn`, `Drained` the worker; `Acquire`, `Read`,
`PostOk`, `PostFails`, `Retry`, `LeavePending`, `Remove`, `Bury`, `Leave` a task;
`Boot`, `Sigterm`, `Cancel`, `ExitDrained`, `ExitTimedOut`, `Crash` the process.

`Delivery.tla` is the abstract specification: what is `promised` to GOWA is held,
delivered or buried; a message is handed over only while it is held, released
only after the agent took it. `ForwardQueue!Refinement` is that specification
under the mapping promised <- acked, held <- pending/, delivered <- forwarded at
least once, buried <- dead/. It is an at-least-once promise: the same id may be
stored and handed over again.

### TtlSet: the dedup and sent-id sets

`TtlSet.tla` models `src/dedup.rs`. An operation is two steps, because the code
reads `Instant::now()` before it takes the mutex: `Call` reads the clock,
`InsertNew`, `Record` or `Contains` does the rest under the lock. A caller may so
insert a stamp older than the map's, sweep with an old instant, or move a stamp
back. `Swept` gives the key sets `sweep` may leave; between equally old keys the
hash map's iteration order decides, so the key just inserted may be the one to
go. `last` and `latest` are history.

`Promised(key)` is what a user may count on: recorded less than the TTL ago, and
fewer than Capacity other keys were ever stamped at least as young.

### Outbound: the agent's sends, and the replies to them

`Outbound.tla` models the send API of `src/server.rs` (288-541), the limiter, the
outcome classes of `src/gowa.rs`, the sent-id cache and the one place that reads
it, the reply branch of the mention check. A handler here does await: on GOWA. It
runs unbroken up to the request (`Post`: the limiter and the send) and from GOWA's
answer to its own (`Answer`: read, record, reply); in between everything else
happens, and if the agent hangs up the handler is dropped there.

| variable | in the code |
|---|---|
| `request[r]` | a call by where it is: `posted` (awaiting GOWA), `sent` (GOWA has acted, the answer is on its way), its kind, the id of its message |
| `tat` | the limiter's bucket, as governor keeps it: the instant at which it is full |
| `sentIds` | `AppState.sent_ids` |
| `delivered` | GOWA: the messages it has sent |
| `told`, `ignored` | history: ids the agent has been answered with; ids whose reply was not taken for a mention |
| `opened`, `granted`, `clock` | an observer's window: since when, and how many sends and reactions went through. `OpenWindow` may begin one at any time |

`EndUnrecorded` is every way a call ends without its id in the cache: refused,
timed out, broken off, answered without a readable id, or dropped. `Restart`
empties what is in memory, the bucket included, and begins a new window: the
bounds are per process.

### Ingress: what a message becomes, and where it goes

ForwardQueue says when a message moves; this half says what it is. Three modules
of pure operators translate the code function by function, under the code's names:

- `Config.tla`: `src/config.rs`. `Valid(env)` is every way `from_env` refuses an
  environment, `from_env(env)` what it makes of the others. A raw value is unset,
  garbled or one of those the variable may have; a secret is given directly, in a
  file, or in a file that cannot be read.
- `Inbound.tla`: `src/model.rs`. `into_inbound` for messages, reactions and calls;
  `extract_media`; `body_mentions_number`, a search over characters of which "@",
  the digits and the blank are told apart; `agent_body`.
- `Routing.tla`: `src/policy.rs`, `src/channel.rs`, `src/media.rs`, and what
  `src/agent.rs` sends.

`Ingress.tla` puts them to work over restarts:

| variable | in the code |
|---|---|
| `env`, `booted` | the environment file as it is, and as it was at the last start |
| `up` | the process |
| `sent`, `seen` | `AppState.sent_ids`, `AppState.dedup` (gone at a stop) |
| `pending` | the queue's files: the `Inbound` with its label, and as history the event, the environment it was let in under, the bot's ids known then |
| `work` | copies in the worker's memory, transcripts added |
| `delivered` | what agents were sent: url, bearer, body |

`Edit` is the operator, `Start` (only when `Valid`) and `Stop` the process,
`Webhook` the handler, `Take`, `ForwardOk`, `ForwardLost`, `MoveToDead` a task. The
handler and the file operations are one step each: their interleavings are
ForwardQueue's subject, on messages without content.

The properties do not use the operators they judge. They read the environment's
text and the event's own fields: `OnlyInvited` says who is named in which
variable, `Summoned` and `TagsAreHeard` read the tags of a body as whole runs of
digits and `WA_SELF_NUMBER` as the number written in it, `RightAgent` looks the group up in
the text of `WA_GROUP_CHANNELS` as it was when the message was let in.

### HermesAdapter: the agent's side

`HermesAdapter.tla` models `deploy/hermes-adapter/adapter.py` between a shim that
sends a message until it reads a 200, and Hermes.

| variable | in the code |
|---|---|
| `file` | the shim's queue: ids it has read no 200 for |
| `dedup` | `_dedup`; `Expire` is `DEDUP_TTL` passing |
| `thread[t]` | a turn: `waiting` for its session's lock, `running` Hermes, `ran`, `replying`; the session it resumes, how the run ended, the attempts to reply |
| `lock[k]` | `_session_locks`; k is the profile and the chat (`session_key`) |
| `sessions[k]` | `SESSIONS_FILE` |
| `history[s]` | Hermes: the prompts its session s has answered |
| `replies[id]` | replies that reached the chat |
| `faults`, `excused` | the faults so far, and which message met which |

`Accept` and `Decline` are `do_POST` (each may lose its 200); `Acquire`,
`RunHermes`, `TimeOut`, `Conclude` the locked section of `run_turn`; `ReplySent`,
`ReplyFails` an attempt of `send_reply`; `Restart` the process. A run ends in one of
five ways: well; aborted after its output; failed; without a text; with "No
session found". Faults are not excused wholesale: each property names the faults
that may break it, for the message or conversation that met them.

### Fleet: the operator's side

`Deploy.tla` is the deploy directory and the environment that the scripts make of a
tenant's file; `FleetCtl.tla` models `deploy/fleetctl` and what it runs on the box;
`FleetView.tla` the terminal view. `Fleet.tla` composes them, with an operator who
edits, and holds the view against `Config` and `Routing` of the shim that runs.

| variable | in the code |
|---|---|
| `index`, `files` | `fleet.yaml`, `tenants/*.yaml` |
| `etc` | the environment on the box: from which file, for which device, with transcription or not |
| `running` | what the shim was started with |
| `jid`, `backups` | the device GOWA has linked, those in a snapshot |
| `cmd` | the command, by the step it is at (`rendering`, `linking`, `saving`...) |
| `mishaps` | what went wrong: a command interrupted, a backup failed, a rendering refused or skipped |
| `fleet`, `view` | `App.fleet`; the selection, the scroll, the sizes of the last draw |

Each step of a command is an action, and `Interrupted` may end the command between
any two (`set -e`, or the operator gives up). A value with a comment behind it is
kept whole by the scripts' text tools: `render_remote` then loses the rest of its
line, and the shim refuses what `provision` renders of it. A draw follows every
event, with a panel height of its own choice (`Heights`).

### Abstractions, and what they assume

- A crash is the crash of the process. After a power loss the rename may not
  have reached the disk (the directory is not synced): outside the model.
- A write is one step, and leaves the file torn until then; a crash or an error
  before it leaves a torn tmp file. Every delivery of an id has the same payload.
- A listing that breaks off yields some of the entries, and a start whose reaping
  fails leaves some of the torn tmp files: `List` and `Boot` under `Fault`.
- Governor's limiter is external: a bucket of `per_minute` tokens, refilled one
  every 60/`per_minute` seconds, its check and update one step. What passes is
  counted at the limiter, not when it reaches GOWA, which may be up to 30 s later.
- In Outbound a recorded id stays until the process ends; `TtlSet` says for how
  long it really does (6 h, 10 000 ids).
- `read_dir` is a snapshot. Files are listed in any order.
- In ForwardQueue a dedup mark lasts until the process ends. `TtlSet` is why: a
  mark is kept for 600 s unless 50 000 younger ids push it out, and GOWA's retries
  of an id take far less (`src/server.rs` 47-50). The two are not composed yet.
- In ForwardQueue only ids the policy lets pass appear: those it drops touch no
  state.
- In ForwardQueue the transcription of voice notes and the choice of the client
  happen inside `Read`/`PostOk`/`PostFails` and change no queue state: Ingress has
  them.
- The debug sink counts as an agent that always accepts.
- The environment can deliver at any time while the process is up, up to
  `MaxSends` times per id; the agent may accept or refuse at will.
- Tasks are unbounded in the code. `Tasks` must be no fewer than the ids, since
  by OneTaskPerFile no more are ever alive; `Spawn` would block otherwise.

- Ingress: a text is short, and its characters are those the search tells apart;
  MIME types, file names, participant names and `from_me` are left out. A clip is
  heard or not: the engine is external, and may fail on each clip for itself.
- HermesAdapter: bearer and JSON checks answer without effect. Threads are
  unbounded in the code; `Threads` bounds those alive at a time. A session id that
  Hermes prints is the one it resumed, or a new one.
- Fleet: one box and one tenant are acted on, another tenant is in the directory; secrets
  are constant, so that rotating is rendering again. `/etc` survives `remove`, as
  in the code. A key given twice in a YAML file is not modelled. The view's rows and
  flags are sets of rows with their places: their order on the screen is not modelled.
  Each entry of a channel map names a group and a label (`FileOK`): the scripts leave
  out one that does not, the view shows it.

## 3. Runs

Bounds: `MaxSends` deliveries of an id (GOWA makes 6; two are enough for a
redelivery to race the first, three for one after a restart), `MaxFaults`
crashes, shutdowns and I/O errors together, one permit with more tasks than
permits, one retry. `Overlap` says whether a handler may outlast GOWA's 10 s
timeout, so that the next delivery of its id runs beside it. An answer may be lost
in any case.

| run | instance | shows |
|---|---|---|
| `fq_queue` | 2 ids, 2 handlers, 3 tasks, 1 fault, no overlap | `NoLoss`, `OneTaskPerFile`, `NeverHalfWritten`, `OnceUnlessFaulty`, `BuriedOnlyWhenRefused`: two messages compete for a permit, answers are lost and a fault hits any step |
| `fq_races` | 1 id, 2 handlers, 3 faults, overlap | `IInv`, `Refinement` though handlers of one id interleave at every system call and crash, shutdown and I/O error follow each other |
| `fq_live` | 1 id, 2 handlers, 2 faults, overlap | `QueueDrains`, `ShutdownCompletes`: a notify lost to a file in flight does not strand it |
| `fq_torn` | 1 id, 2 handlers, no fault | finding: `NeverHalfWritten` is violated |
| `fq_twice` | 1 id, 2 handlers, no fault | finding: `OnceUnlessFaulty` is violated |
| `ttl_set` | 3 keys, capacity 2, TTL 2, 5 instants, 2 callers | `RemembersRecent`, `AnswersTrue`, `IInv`: a third key forces an eviction, two callers enter the lock in either order, entries expire |
| `out_calls` | 2 calls, 2 ids, 2 tokens, 2 ticks a token, 9 ticks | `WindowBound`, `DeniedOnlyWhenSpent`, `ToldIsRecorded`, `IInv`: windows of more than two minutes, beginning anywhere; calls interleave with GOWA, replies, hang-ups and restarts |
| `out_mention` | 1 call, 1 id | finding: `ReplyIsMention` is violated |
| `ingress` | 13 events, 8 environments, 1 edit, 1 id let in up to twice | `IInv`, `OnlyInvited`, `Summoned`, `TagsAreHeard`, `RightAgent`, `RoutesResolve`, `TranscribedOnce`, `MediaServed` |
| `hermes` | 4 messages, 2 threads, 2 faults | `IInv`, `OneTurnPerSession`, `Continuity`, `TurnOnce`, `ReplyOnce`, `NothingLost`, `Settles` |
| `hermes_crash` | 3 messages, 2 threads, 2 faults | finding: `AbortIsSuccess` is violated |
| `fleet` | 1 box and 2 tenants' ids, 4 files, 2 devices, 3 commands, 1 mishap, 1 edit, 2 heights | `IInv`, `ScrollInside`, `DeviceFollowsPairing`, `PairingBackedUp`, `RunsWhatIsRendered`, `ViewShowsRouting`, `GapsAreShown` |

The events of `ingress` include a longer number that begins with the bot's, alone
and before the bot's own; a reply and a reaction to the bot; the bot's own message;
a status; clips at and above the size limit; calls of a person and a group. Its
environments differ by one change each: another agent for the group, the channel
gone, groups off, another secret, an unreadable token, a reserved label (the last two
are refused at boot). One message at a time is enough: messages share nothing but the
configuration and the ids of the bot's own, and the same id may be let in again
after a restart. One edit suffices for every pair of environments.

The messages of `hermes` are two of one conversation (one by its channel, one by
the default), one of the same chat on another channel, and a voice note nobody
transcribed. Two faults are what it takes to have a turn answered and then disturb
it. The commands of `fleet` are enough for provision, pair and a second provision,
rotate or remove, in any order; the files are one that renders, one with an undefined
channel, one without the URL of a channel, and one with comments.

One id is enough where the question is what one file goes through: ids share
only the permit, the worker's loop and the fault budget, which `fq_queue` covers
with two. Two handlers are enough for a race on a tmp file. Symmetry (ids,
handlers, tasks; keys, callers; calls, message ids) is used in safety runs only.

Each property has a mutant: an operator next to the definition it replaces,
marked `mutant`, that changes it the way a plausible mistake would (the mark
before the enqueue, `in_flight` not released, the file written in place, the 30 s
tick removed, `<=` for `<`, the newest evicted). TLC finds the property violated
with it.

### Fairness

`FairSpec` assumes: a handler that can take a step takes one, as does a task past
its permit and the worker (WF: threads run, `forward` and the backoff end, both
being timed); `select!` polls its branches in random order, so `Break`, once
cancelled and polled again and again, is taken (SF); tokio's semaphore is first
come, first served, so a queued task gets a permit that becomes free again and
again (SF on `Acquire`); a process that is down is started (WF on `Boot`:
systemd's `Restart=on-failure`, or the operator after a stop). Nothing is assumed
of GOWA, of the agent's answers or of faults. The 15 s timeout counts as a fault,
so `ShutdownCompletes` says that a shutdown ends without it in the end, not that
it ends within 15 s. It also leans on the peers: a graceful stop waits for
every connection, so `Cancel` (WF) assumes that clients finish their requests. A
client that reads a `/media` stream slowly delays the drain.

In HermesAdapter `FairSpec` has the shim deliver what it still holds (WF on
`Deliver`: its worker retries, and an operator resubmits what it buried), and the
threads run (WF on `Turn`: Hermes is killed at `TURN_TIMEOUT`, the HTTP calls have
timeouts). Nothing is assumed of how runs and calls end. The other modules state no
liveness.

### Findings

All contradict what the code or its docs say. `fq_torn` and `fq_twice` need a second delivery
of an id while the first handler runs, which takes a handler that stalls past
GOWA's 10 s timeout (a slow disk), and so are unlikely.

- `fq_torn`: the handlers of one id share `<hex>.json.tmp`. The second truncates
  what the first is about to rename; the first renames an empty file into the
  queue, and the worker may dead-letter it before the second has written.
  `src/server.rs` 253-254 calls the race idempotent.
- `fq_twice`: the worker is woken before the id is marked, and the second handler
  may have passed its look-up; a fast worker forwards and removes the file before
  the second enqueue, and forwards again. The readiness document (line 113) asks
  not to wake the worker before the mark, and (line 125) for one forward.
- `out_mention`: README lines 86-87 promise an answer to a reply to the bot's own
  message. Its id is recorded only once GOWA's answer has been read; a reply that
  is faster finds it unknown, and if the answer is lost every reply does.

- `hermes_crash`: a run of Hermes that prints its reply and then aborts is to be a
  success (`adapter.py` 246-249). When it resumed a session, line 229 takes it for
  a stale one first and runs the turn again in a new session: Hermes answers
  twice, and the conversation has lost what came before.

Met on the way, with no run of their own:

- README 86-89 and the comment of `src/sent_ids.rs` 4-8 say that a fresh @mention
  does not summon the bot. It does, when `WA_SELF_NUMBER` is set
  (`src/server.rs` 217-237), as `docs/GROUP-ADDRESSING.md` says. `Summoned` follows
  the code.
- `fleetctl` 67-68 has it that a re-rendering never resets anything to a default:
  `render_remote` leaves out `TRANSCRIBE_*`, so pair and rotate turn transcription
  off (`Rendering` has it).
- `provision.sh` 2-3 says that it restarts cleanly; `enable --now` (132) restarts
  nothing that runs. `RunsWhatIsRendered` excuses this by name ("not restarted").
- The view shows a missing `dm_policy` as off (`fleetview/src/model.rs` 400) where
  the shim takes allowlist, has an `agent_inbound_url`, a number and a debug sink that
  the scripts never hand on, counts a group mapped to "default" as a gap though
  the shim accepts it, and lists routes that `group_policy: off` closes. So
  `ViewShowsRouting` is about lists, and `GapsAreShown` is one-way.
- `WHATSAPP_WEBHOOK_EVENTS` (`render-env.sh` 59) leaves out `call.offer`: on a box of
  the fleet the shim's handling of calls never runs.
- `WA_DM_ALLOW` with a space inside a JID, or `WA_SELF_NUMBER` with a device, boots
  and matches nobody. `transcribe_max_secs` is parsed and never read.

In the queue `NoLoss` and the refinement hold all the same: a torn entry ends
in `dead/`, under the message's own id.

## 4. Proofs

Every safety property the passing runs check, invariant or action property, is
proved for every value of the constants: any ids, handlers, tasks, permits, retries
and bounds; any keys, TTL and capacity; any rate; any environments and events, with
texts of any length; any messages, profiles, threads and outcomes; any tenants'
files, panel heights, devices and command bounds. Assumed are only the modules' own
assumptions, which TLC evaluates for the instances:

- `FQAssumption`, `TtlSetAssumption`, `OutboundAssumption`, `HermesAssumption`: numbers are
  numbers, the idle id is no id;
- `ConfigAssumption`, `IngressAssumption`: JIDs are of people, groups or the rest, texts
  are sequences, the blank id is none of the bot's;
- `IdsAssumption`, `HeightsAssumption`, `FleetAssumption`: `fleet.yaml` is a list, a panel's
  height a number, a tenant's file has its keys and lists (`FileOK`), and no device is
  the blank one.

Three theorems of the queue have a hypothesis, `~Overlap`: no handler of an id still
runs when GOWA delivers that id again. It is the case that `fq_queue` checks, and
GOWA's timeout of 10 s makes it the rule; without it none of the three holds, which
`fq_torn` and `fq_twice` show.

The lemmas that several modules need are in `ConfigProofs` (lists, numbers in
order, the configuration of a valid environment); `FleetViewProofs` builds on
`FleetProofs`, as the view shows what the commands have left.

| theorem | in | states |
|---|---|---|
| `TypeCorrect` | ForwardQueueProofs | the type invariant |
| `Invariance` | ForwardQueueProofs | `IInv`, the inductive invariant |
| `NothingAckedIsLost` | ForwardQueueProofs | `NoLoss` |
| `TasksAreExclusive` | ForwardQueueProofs | `OneTaskPerFile` |
| `NothingIsHalfWritten` | ForwardQueueProofs | `~Overlap`: `NeverHalfWritten` |
| `NothingIsForwardedTwice` | ForwardQueueProofs | `~Overlap`: `OnceUnlessFaulty` |
| `NothingIsGivenUpOnEarly` | ForwardQueueProofs | `~Overlap`: `BuriedOnlyWhenRefused` |
| `QueueImplementsDelivery` | ForwardQueueProofs | `Refinement`: the queue implements Delivery |
| `Invariance` | TtlSetProofs | `IInv` of the set |
| `RecentIsRemembered` | TtlSetProofs | `RemembersRecent` |
| `AnswersAreTrue` | TtlSetProofs | `AnswersTrue` |
| `Invariance` | OutboundProofs | `IInv` of the outbound half |
| `RateIsBounded` | OutboundProofs | `WindowBound`, for every rate and window |
| `DenialIsDeserved` | OutboundProofs | `DeniedOnlyWhenSpent` |
| `ToldIsRemembered` | OutboundProofs | `ToldIsRecorded` |
| `IngressInvariant` | IngressProofs | `IInv` of Ingress |
| `MappedGroupsResolve` | IngressProofs | `RoutesResolve` |
| `AgentsReadOnlyTheInvited` | IngressProofs | `OnlyInvited` |
| `OnlyTheSummoned` | IngressProofs | `Summoned` |
| `TagsReachTheAgent` | IngressProofs | `TagsAreHeard` |
| `NotesAreReadOnce` | IngressProofs | `TranscribedOnce` |
| `LinksOpen` | IngressProofs | `MediaServed` |
| `MessagesKeepTheirAgent` | IngressProofs | `RightAgent` |
| `HermesInvariant` | HermesProofs | `IInv` of the adapter |
| `TurnsTakeTurns` | HermesProofs | `OneTurnPerSession` |
| `TurnsOnce` | HermesProofs | `TurnOnce` |
| `RepliesOnce` | HermesProofs | `ReplyOnce` |
| `NothingIsLost` | HermesProofs | `NothingLost` |
| `ConversationsContinue` | HermesProofs | `Continuity` |
| `DeviceIsFollowed` | FleetProofs | `DeviceFollowsPairing` |
| `PairingIsBackedUp` | FleetProofs | `PairingBackedUp` |
| `RunsTheRendering` | FleetProofs | `RunsWhatIsRendered` |
| `ViewKeepsASelection` | FleetViewProofs | `IInv` of Fleet |
| `NothingIsDrawnPastTheEnd` | FleetViewProofs | `ScrollInside` |
| `ViewShowsTheRouting` | FleetViewProofs | `ViewShowsRouting` |
| `RefusedMapsAreGaps` | FleetViewProofs | `GapsAreShown` |

`NoLoss` is not inductive. A duplicate is answered 200 because its id is in
`dedup`, so every marked id has to be stored too; and a handler answers 200 one
step after its rename, in which time the worker may already have forwarded and
removed the file. Hence `Backed`: acked, marked, and about-to-be-marked ids are
in pending/, in dead/ or delivered. A step can break it only by taking a file
out of pending/. `Remove` does so, but only after an Ok (`TaskOwnsFile`: a task at
`remove` works on a delivered id); `Bury` moves it to dead/. `TaskOwnsFile` in
turn says that a task past its read still has its file, which needs that no other
task takes it: `OneTaskPerFile`, and that is inductive only together with
`in_flight` naming exactly the files with a live task, for `Spawn` looks there and
nowhere else. `OpenFiles` says what a write through an open file can hit: a name
that exists, so that a write never creates an entry. `DownIsIdle` says that a
process that is down serves no request, so a start finds no open file.

Without `Overlap` a handler has its id, and so its tmp file, to itself (`Alone`).
`Staged` then says what it has made of the file so far (whole before the rename, and
nothing torn where the worker looks), `Counted` that a task's refusals are its
attempts, and `Once`, before the first fault, that what is stored or handed over is
marked or about to be (`Known`), and leaves the queue when it is both: a second
delivery finds the mark of the first. `ApartInv` is their conjunction with `IInv`.

The refinement maps: `Rename` to Store; `Mark` and the duplicate's 200 to Promise,
by `Backed`; `PostOk` to Handover, `Remove` to Release, `Bury` to Bury, by
`TaskOwnsFile`; everything else, a crash and a start too, to a stutter.

For the TTL set the argument is about one insert: a promised key that `sweep`
drops leaves Capacity keys in the map that are all at least as young, and by
`Stamps` they are all in `Younger(key)`, which has fewer: a contradiction. Keys
that are not inserted keep their promise from before, since `Younger` only grows.
Expiry is no way out: a stamp that is young at the clock's present is younger
still at the instant the caller has read, which `Stamps` puts in the past.

The limiter's two properties do not mention `tat`, and neither is inductive:
`Bucket` says how `tat` ties them to the calls. Each call moves `tat` on by at
least one refill from no earlier than the window's beginning, and the limiter
keeps it within a minute of the clock, which bounds `granted` from above; it moves
`tat` by no more than one refill from the window's beginning plus a bucket, or
from the clock, which bounds it from below when the limiter refuses.

In Ingress a delivery is judged long after the handler decided, under another
configuration. `IInv` carries the decision along: `Vetted(p)` says that the entry
still has the chat, the sender and the label of its event, and that the policy in
force then, `from_env(p.vetted)`, admits it. The steps that copy an entry (a retry, a
stop, a transcription) leave these fields alone, `EvaluateReads` and `ChannelReads`
say that nothing else of a message is read, and a delivery adds `client_for` its
label. The theorems then only unfold `from_env` at two environments, against what
the property reads in their text: the channel map is a function because valid
labels and groups are not given twice (`ChannelMap`, `GroupMap`), and a JID that is
somebody's is none of the entries that normalise to `Nobody`.

What a message contains is a second invariant, `ContentInv`: a file on disk has no
transcript (`Untold`), so that a copy that is read again is told of each clip once,
however often it was before; the clips heard are put in order, each with a rank of
its own (`InOrder`); and a delivery is `InboundForward` of its entry, so that
`BodyOnce` speaks of what the agent reads. Its media have no leading slash, which is
what `verify` and GOWA's store ask of a path.

`Summoned` and `TagsAreHeard` are about a search whose definition is recursive.
`MentionInv` says that a stamp is honest: what is marked as a mention was summoned by its
event (`SummonedBy`). The rest is `SearchFinds`: the search finds the number exactly
when some match ends where the number ends. Two matches never overlap, since "@"
is no digit (`NoOverlap`), so that going on behind a match misses none, and the
closed form satisfies the search's equation; that every solution of the equation
gives this answer follows from the last position at which one would not. The
tag at a match is the number and nothing longer (`TagIs`), and a whole tag is a match
(`TagMatches`). Induction is replaced throughout by the least element of a set of
numbers (`LeastNumber`).

In the adapter `HoldsLock` is the mutual exclusion: a thread is in its locked
section exactly when the lock of its conversation names it. `TurnsOnce` and
`RepliesOnce` rest on `OneThread`: an id without a mark expired or lost has at most
one thread, and none if it has no mark. From there the reply count
and the history can only be raised once per id, except by the faults the property
names. `NothingIsLost` needs the other half, `Underway`: a message that is marked or off
the shim's queue has its reply, or a thread at it that will not end without one.

`Continuity` takes two invariants. `Owned`: every session of Hermes has the messages of
one conversation only, those in the file and those that turns resume included. It
gives no more than disjointness; that there is one session per conversation is
`OneSession`, which follows the turn that runs. While it runs, it has resumed the session
in the file; when it has run, its own is the only one of the conversation, and it
is about to be saved; between turns the one in the file is. `HoldsLock` makes
this a statement about one turn at a time, and the faults that fork a conversation
are those after which the run's session and the file's differ.

In Fleet each property that excuses mishaps is inductive only step by step through
the command: `Followed` says that file, box and shim have the linked device, except
while pair is recording it (none of them) or rendering again (the file only);
`Backed` that all linked devices are in a snapshot, but for the one being paired;
`Ran` that the shim runs what was rendered, or is about to be restarted. A mishap stays
on record (`ExcusesStay`), so that a state without an excuse was reached without one.

For the view, `TurnOK` is the point: whatever an event does, it is followed by a
draw, and `Drawn` clamps the scroll to the lines just counted; `Selected` has to be
kept by the event itself. `ViewShowsTheRouting` compares two derivations of one file: the view's
rows, straight from it, and the shim's maps, through the rendered environment,
`Valid` and `from_env`. `EnvGroups` and `EnvChannels` say what the environment keeps of the
file; `MapIsFollowed` that the shim's map is a function with the view's pairs,
since an environment that names a group twice is refused; `RowsAre` that the list
has the rest. `RefusedMapsAreGaps` then needs that the gaps counted at the top are
finitely many.

### Only model-checked

Liveness (`QueueDrains`, `ShutdownCompletes`, `Settles`): the prover has no ENABLED.
The four findings, which are counterexamples. No safety property of a passing run.

## 5. Plan

Done, in this order: `Delivery` and `ForwardQueue`, `TtlSet`, `Outbound`; `Config`,
`Inbound`, `Routing`, `Ingress`; `HermesAdapter`; `Deploy`, `FleetCtl`, `FleetView`,
`Fleet`; then the proofs of each. `Ingress` EXTENDS the operators' modules in a row,
`Fleet` reuses them for the shim on its box. What could come next:

1. The action property of `TtlSet` that says for how long an id is remembered, in the
   terms of `ForwardQueue`: its `dedup` as a refinement of the set, with expiry.
2. `Ingress` as a refinement of `ForwardQueue` without its handlers' steps.
3. The steps between the fair actions of `FairSpec`, as safety: that each of them
   brings a file nearer to `remove` or `bury`.

## 6. Not modelled, and why

- The health endpoints: probes that change nothing.
- HMAC, base64, JSON, HTTP: libraries. A signature that does not verify, or a body
  that does not parse, changes nothing (`src/server.rs` 186-206).
- The transcription engine (`src/transcribe.rs`, decoding and Whisper): data
  processing whose failures are all skipped.
- The view's colours, widths and `--dump`, the search for the deploy directory, and
  the names it reads from YAML comments (`parse_group_labels`): layout.
- The restore drill of `backup.sh`, the preflight of a host, `tailscale-up.sh`, where
  secrets are kept: outside the program's own state.
- ForwardQueue is not composed with TtlSet, so that a mark does not expire there; a
  mark is kept for 600 s, GOWA's retries end long before.
