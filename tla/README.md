# Pi Piper in TLA+

Pi Piper lets a phone watch and drive interactive `pi` sessions. This directory
holds TLA+ models of its concurrent parts, the TLC configurations that check
them, and proofs, checked by TLAPS, of nearly all the safety properties that TLC
checks on the small instances. Paths are relative to the repository.

## The system

Three programs talk over WebSockets.

```
 pi process                         Hub (Rust, one process)                phone page
 ----------                         -----------------------                ----------
 index.ts /rc --> HubClient  ==/agent==>  reader, writer --+
                                          SessionRegistry  +--- control --=/ws/control=> Sessions
                                          status watchers  +--- events  --=/ws========> Chat
 headless child  <--stdin/stdout-->  PiProcess ------------+                       (router)
```

| part | source | state it keeps | operations |
|---|---|---|---|
| registry | `src/registry.rs`, `src/session.rs` | map id -> handle under an RwLock; per handle a status, a meta, a watch on "connected"; one broadcast channel of control frames | `register`, `unregister`, `update_meta`, `publish`, `get`, `get_default`, `list`, one `watch_status` task per registration |
| /agent connection | `src/server/agent.rs`, `src/rpc/remote_agent.rs` | the reader's `session_id`; the writer's queue; the handle's event channel | register, meta_update, event, response, end; send, close |
| /ws bridge | `src/server/ws.rs` | a handle, two receivers | look up, upgrade, forward events, take commands |
| /ws/control | `src/server/control.rs` | one receiver | snapshot, relay, lag |
| GET /api/sessions | `src/server/sessions_api.rs` | none | the list, once |
| headless process | `src/rpc/process.rs`, `src/rpc/mod.rs`, `src/main.rs` | child and stdin, each under a mutex | send, wait, shutdown, read stdout |
| HubClient | `extensions/hub-client.ts` | socket, `closed`, retry timer, status, info | connect, close, updateInfo, the socket's events, retry |
| /rc | `extensions/index.ts` | the client, its generation, the active contexts | start, stop, status, rename, session_start, session_shutdown |
| handoff | `extensions/handoff.ts` | one file shared by all pi processes, which nothing locks | mark, has, drop |
| token | `agent_token.rs`, `auth.rs`, `token.ts` | one file, made by the first Hub that finds none | load or create at start-up; read at every dial |
| command dispatch | `extensions/command-dispatch.ts`, `context-cache.ts` | two cached contexts | one pi call per command; new, switch and fork replace the session |
| page, connections | `assets/app.js` | route, control socket, chat socket, timers, session list | renderRoute, start, stop, open, close, the sockets' events |
| page, transcript | `assets/app.js`, `markdown.js`, `attachments.js` | bubbles, streaming flag, composer | fold of the session's events |
| the rest | `config.rs`, `state.rs`, `static_files.rs`, `sw.js`, `deploy/` | none of their own | arguments, routes, embedded files |

What interacts with what: `register` marks and shuts down the handle it replaces,
so a connection changes the state of another; `unregister`, `publish` and
`update_meta` go by session id and not by handle, so a connection may act on a
handle that is not its own; a bridge is bound to a handle for its whole life; the
watcher, the bridges and the control tasks hear of an end through channels whose
receivers may come too late, lag or be dropped; the extension and the page both
reconnect by timers that race the late events of the sockets they closed; a
response to one phone goes to every phone of the session; the page's list is written by
the frames of one connection and the responses to its fetches, which nothing orders; pi processes meet in the
handoff file, Hubs in the token file.

What makes it hard: registrations of one id that overlap; locks released between
a change and its announcement; a watch channel that drops a send nobody listens
to; bounded broadcast channels; a lock kept across a wait; callbacks that act on
what a variable holds by the time they run; the Hub that goes and comes back; files
read, emptied and written in steps; a view rebuilt from a snapshot in the middle of
the events that go on.
What makes each part correct is stated by the properties of its module.
`PROJECT.json` lists each hazard at its line.

## Modules

| module | models | abstract or composed of |
|---|---|---|
| `Channels` | tokio's broadcast and watch channels, from their use | |
| `SessionDirectory` | what the registry promises its readers | abstract |
| `SessionRegistry` | registry, handles, /agent readers, status watchers | implements `SessionDirectory` |
| `PhoneBridge` | /ws bridges and the /agent writers | extends `SessionRegistry` |
| `ControlClients` | /ws/control tasks, GET /api/sessions and the list the page makes of both | extends `SessionRegistry` |
| `HeadlessProcess` | the child process and `main`, from start-up to shutdown | |
| `AgentClient` | HubClient, /rc start and stop, the token, against a Hub that goes and comes | uses `SessionDirectory` for the Hub |
| `Handoff` | the handoff file, session replacement, typed and remote | RC of `AgentClient` on or off |
| `Page` | the page's router and connections, the identity header | |
| `ChatTranscript` | a session's events and answers, and what the page folds them into | one connection of `Page` and `PhoneBridge` as one wire |
| `SessionRegistryProofs`, `PhoneBridgeProofs`, `ControlProofs` | theorems about the Hub | `SessionRegistry`; the other two extend the first and `PhoneBridge`, `ControlClients` |
| `HeadlessProofs`, `AgentClientProofs`, `HandoffProofs`, `PageProofs`, `ChatProofs` | theorems | each extends the module it is about |
| `MC...` | constants for TLC | |

Definitions named `...By...`, `...Early`, `...Silently` and the like under a
comment "Fault:" are deliberate faults, each a plausible bug of the definition it
precedes. No specification uses them. They record, in `PROJECT.json`, which
property notices which bug.

### SessionRegistry

A handle is named by the connection that registers it, since the extension sends
one register frame per socket (`RegistersFirst` in `AgentClient` checks that of
the client). `pc[c]` is where the reader of connection `c` is; a call of the
registry is cut into steps where the code lets go of a lock or of the task:
`Register` / `Summarize` / `Announce` are `register`; `UpdateMeta` / `SendMeta`
are `update_meta`, between which the read lock is held, so `Register` and
`Remove` wait (`NoReadLock`); `Remove` / `Mark` / `Retract` are `unregister`.
`watcher[h]` is where the handle's `watch_status` task is; it reads the event,
the summary and sends in separate steps. `kick` is the task that `register`
spawns for the handle it replaced.

A tokio fact matters and is in `Channels`: `watch::Sender::send` fails and keeps
the value when there is no receiver, and a new receiver counts the present value
as seen.

Left out: activity times (they only grow), the wording of metadata (a meta is the
number of its patches; `Preview` values stand for what `extract_preview` returns),
second register frames on a connection, a panic while a lock is held.

### PhoneBridge, ControlClients

A bridge's look-up, its start, its forwarder and its reader are separate steps.
The writer has a queue of acknowledgements, commands and Close; the reader's end
aborts it, and what it holds is lost. Sends may fail: the one of an event to the phone
ends the forwarder and leaves the reader (`ForwardFails`; the bridge is "broken" from
then on), the one of a frame to the extension ends the writer. The reader's end only
asks for the abort of the forwarder, which goes on until the runtime carries it out
(`ForwardAborts`). On /ws/control the FIFO socket and the page
are one step (`Fold`): how far a phone lags is what its receiver holds. The
snapshot is taken after the subscription, as the code does. `List` reads the whole
map in one step though the summaries are read one by one under the read lock:
each summary reads other locks, and with one session per phone view the difference
is a status that an announced update corrects.

The page's list (`sessions` in `app.js`, `view` here) has a second writer,
`fetchSnapshot`: a `Call` is asked, answered by the Hub with the list of that moment,
and replaces the page's when it returns, or fails. `start` opens the connection after its
own call; the other call is one that nobody waits for, that of a page loaded at a chat or
of a second start, and may return beside the open connection. `stale` records that a
response undid a frame folded since it was answered.

### HeadlessProcess

Commands are lines of `Chunks` pieces through a pipe of `PipeCapacity`; two
mutexes have holders. `WaitLocks` keeps the child lock until the child exits. The
child reads, prints, stalls or exits as it likes, from the moment `main` has spawned
it: `Registers` and `Binds` are later steps, and either the spawn or the bind may
fail (`StartFails`). The stdout task reads on after the exit, until the stream ends.

### AgentClient

One JavaScript callback is one action. A client is named by its generation and
outlives its replacement as long as its socket does. A socket is two FIFO wires to
a Hub that reads one frame per step. The Hub is `SessionDirectory`, which the
registry is proved to implement, with `unregister` by id as in `agent.rs`. A Hub
that goes down forgets everything; it starts late or never. The closing timeout of
30 s in the `ws` library and the length of delays are left out. Events, commands
and responses change no state of the client and are not in this module; with one
command and its response the instance below is out of TLC's reach.

The token file is the Hub's: a Hub that starts reads it, and makes and writes a
token when it finds none, in two steps between which a second Hub may do the same
(`raced`). The client reads the file at every dial, the Hub knows only what it read
or made when it started.

### Handoff

One process runs one callback at a time; an operation on the file is its read, the
truncation by `writeFileSync` and the write, between which other processes come
and any process may be killed. `at` is the callback a process runs, `io` the step
of its operation. A runtime ends and the next begins in one step (`NewRuntime`),
since nothing of either happens between; what the new one has of the old is
`previous`, the file that `session_start` is told. A client that was closed still has a
socket for a while (`closing`), whose commands the handler runs: a command from the
phone needs a context of this runtime and not that RC is on (`CommandArrives`). `asked`
records whether RC was asked for, by `/rc` or by a phone's command that replaces the
session, and not ended since, by `/rc stop`, by quitting or by a replacement that pi
refused; a stop that crosses a phone's replacement leaves the phone's request standing.
The properties compare it with what RC is.

Left out: reuse of process numbers, sessions without a file, the message `/rc` that a
remote replacement sends to itself getting lost. A second command that replaces the
session while one is under way is left to pi, and one that comes on the old runtime's
socket after the replacement finds a stale context.

### ChatTranscript

One chat view and its session, with all that lies between as one FIFO wire: the
session stays registered, the page does not lag (`SessionRegistry` and
`PhoneBridge` have what happens when not), and a lost connection takes the wire
with it. A message is its number, its role and the number of its deltas; a text is a
sequence of (message, delta), so that text shown twice, in the wrong bubble or out
of order is told apart. `current` is the place of `currentAssistantBubble` in the
transcript, or `Detached` when a redraw took it out of the document. The page's
handlers are one action per type of frame. `AnswersOther` is the response another
phone asked for, which `agent.rs` broadcasts to all.

### Page

One callback is one action. The change of the hash and the `hashchange` that
renders it are one step. A closed socket's events come later, at any moment; a
socket given up before it was open reports within the shortest retry delay
(`NoneFailing`: that needs no network and the delay is at least a second; without
it two sockets may close each other for ever). A page that is not authorized gets
a 401 from the fetch and is refused every socket; whether it is depends on the
headers of its requests (`is_authorized_tailscale`). A load without a hash renders
the list twice, as the code does. What the responses to its fetches do to the list, and
the fetch of a page loaded at a chat, are in `ControlClients`.

## Runs

TLC, two workers, each under three minutes. Every passing run sets
`CHECK_DEADLOCK FALSE`: with bounded numbers of connections, commands and moves
the systems come to a rest, and a system nobody uses does rest.

| run | instance | states | shows |
|---|---|---|---|
| `registry` | `PhoneBridge` on the registry: 2 connections, 2 ids, 1 bridge, 1 event each, rings of 1; symmetric | 567k | the registry lists live handles only, no zombie, is a directory, and retires no handle behind its running watcher; an open bridge on a registered handle is subscribed; no receiver outlives its bridge, but until its abort |
| `bridge_live` | 2 connections, 1 id, 1 bridge, 1 command, no events, fair | 422k | accepted commands arrive, forwarders stop, replaced connections end |
| `control` | 1 connection, 2 events of 3 kinds, 1 rename, 2 fetches, ring of 2, fair | 709k | a phone at rest agrees with the registry on sessions, names and status, unless a frame overtook a response; it is told of the end; the watcher stops |
| `headless` | 2 bridges, lines of 2 pieces, pipe of 1, 2 lines of output, fair | 37k | whole lines, all well formed output relayed, also after the exit; the exit, however early, unlists and frees |
| `agent_client` | 3 sockets, 3 generations, 1 rename, 1 fault of the Hub, fair | 307k | one live socket, true footer and name, the token the Hub knows, reconnection, /rc stop unlists |
| `page` | 2 sessions, 3 sockets, 2 moves, 1 loss, fair | 140k | no view stranded, one socket per view if the page may settle, both views come alive |
| `handoff` | 2 processes, 3 session files, 4 moves, 1 failed write; symmetric | 1.7M | no entry outlives what it stands for; RC is on where it was asked for, followed by one of the two ways only, and ready for the next replacement |
| `transcript` | 2 messages of 2 deltas, 1 tool, 2 losses, 1 other phone, 3 frames under way | 1.8M | at rest the page shows the session's messages, whole and once, and the truth about its agent and tools |

Why the bounds are enough for the questions asked: an overlap needs two
connections, and what `registry` checks of the registry is proved for any number; a
lag needs a ring one shorter than the sends, as those of `registry` are for a handle on which
a replaced connection publishes beside its own, and that of the phone in `control`; a mixed line
needs two writers and a pipe shorter than a line; a client needs one socket that
lingers, one that takes its place and one that retries; a page needs a socket that
closes late, its successor, and a control channel beside them; an entry needs its
owner and one who takes or overwrites it, and the longest story with a point (/rc,
replacement, resume in a second terminal, replacement there) is four moves; a
transcript needs a message finished before a loss and one torn by it, and a second
redraw. `MaxWire` only bounds how far the session is ahead of the page: a session
that waits differs in nothing the page can see.

One connection is enough in `control`: the properties exclude ids that two
connections used, and connections with different ids share nothing but the ring and
the read lock. A phone has a call that `start` waits
for and one it does not, as a page loaded at a chat has at desktop widths; a third
would do nothing that the second cannot. Larger instances that pass as well, too slow to be kept: `agent_client` with 2 faults, safety only (1.5M); `page` with four sockets
and one move, and with three pending timers;
`transcript` with 3 messages and 1 loss (4.4M) and with 2 tools (4.9M). Where a bound
is hit the liveness properties of `AgentClient` and `Page` excuse it by `Out`.

Four runs expect a violation: the code does not do what a document, a comment or
a test says.

| run | what happens |
|---|---|
| `survivor` | c1 and c2 register one id; c1 is asked to close, its reader ends and unregisters *by id*, which removes c2. c2 stays connected and unlisted until it reconnects (`agent.rs:116`). |
| `ghost` | a `session_update`, its summary read before the end of the session, is sent after `session_disconnected`; phones show the session as connected for good (`registry.rs:219`). |
| `shutdown_hangs` | Ctrl+C needs the lock that the waiting task keeps until the child exits; a child that ignores EOF is never killed (`process.rs:139`). |
| `chat_mixes` | from chat A to chat B to another: A's late close event opens a second socket to B, which nothing closes, and B's messages show in the next chat (`app.js:532`). |

Behaviour the models have and no property forbids: a handle retired before its
watcher first runs keeps that watcher; a bridge upgraded after its handle was
marked never notices; its socket stays open after the session's end; a status
changed during a rename may stay old on the phone; a page whose route is rendered
twice while the fetch is under way holds two control channels; a re-run of /rc that
overlaps its last connection ends up "connected" and unlisted; two Hubs that make a
token at once leave one that no extension can reach until it starts again; pi
processes that use the handoff file at once lose entries, so RC does not follow
(`handoff.ts:7-8` keys the file by session for that reason, which does not help
a read and a write that another write comes between); a session open in two
terminals gives RC to whichever replaces it first; a bridge whose phone refused an event
goes on taking its commands; the response to a fetch that the Hub answered before a
session ended may come after the page has shown the end, beside an open control channel,
and shows the session as connected for good (`app.js:215`; `ARCHITECTURE.md:115-119`
wants the list to "stay current", and `app.js:1087-1089` says that a page loaded at a
chat never runs `start`, which `renderRoute` does at desktop widths, `app.js:147`); a
phone's new_session, switch or fork on its way when `/rc stop` is typed still runs on the
closing socket, replaces the session and turns RC on again (`hub-client.ts:107`,
`command-dispatch.ts:345`; `pi-piper-agent/README.md:36` says that `/rc stop`
disconnects); a replacement that a phone asked for and pi refuses leaves RC off, as it
was stopped first (`command-dispatch.ts:346`; `index.ts:34-35` has the sequence end with
`/rc`); a redraw that another phone's request causes while a
message is being written takes its bubble out of the page, and that message is
missing until the next redraw (`app.js:758`; `ARCHITECTURE.md:111-112` has the phone
match responses to its requests, which the page does not). The passing properties
name these cases in their premises (`Shared`, `skipped`, `overlapped`, `hurried`,
`raced`, `spoiled`, `shared`, `stale`, `torn`, ...), and the hazards give their lines.

Two sentences of the documentation go further than the code without a run here.
`process.rs:3-8` calls the exit of the child fatal for the Hub, while `main.rs` only
unregisters the session. `pi-piper-agent/README.md:69-71` says that RC follows a session
across a restart of pi and `/resume`; `session_start` looks up only the session it was
switched from (`index.ts:127`), and the look-up prunes the entry of a process that is
gone (`handoff.ts:57`). `RcAsAsked` says what the code does: RC comes on in no session
resumed after a crash, where nobody asked for it again.

## Fairness

- Hub: the tokio runtime does not idle while a task can take a step (weak fairness
  of all task steps together, which is enough where each task's work is bounded).
  Nothing is assumed of extensions and phones except that the peer of a Close
  answers it, as both WebSocket libraries do, and that a socket which refused a frame
  has nothing more to read. No fetch need return. What the liveness properties here speak
  of happens once and is then over for good, so they say that it is over in the end
  (`<>[]`), which is what a leads-to would say and costs TLC less.
- `HeadlessProcess`: weak fairness per task, and strong fairness for those that wait
  for a mutex, because tokio's mutexes are FIFO. Nothing is assumed of the child.
- `AgentClient`: the two event loops do not idle. Nobody has to type, and the Hub
  need not start or stay up.
- `Page`: each socket's events are delivered, fetches return, timers fire.
- `Handoff` and `ChatTranscript`: none. Their properties speak of states at rest;
  that a rest comes is for nobody to promise, as users and sessions go on.

## Proofs

Every theorem holds for every value of the constants, from the assumptions their
module states of them. The bounds (`MaxSockets`, `MaxMoves`, ...) may have any
value, so a theorem is about executions of any length and any number of the things
bounded. Besides being numbers, the bounds are assumed as large as the
initial states need: `Page` starts with a socket to a chat and may have two starts
under way (`MaxSockets >= 1`, `MaxPending >= 2`), and a user's message has a part
(`MaxParts >= 1`); with less the types of these modules would be wrong. Of `None` and
the other marks it is assumed that they are none of what they stand beside (in
`ChatTranscript`, that null is no message).

Each property is proved from an inductive invariant, a theorem of its own
(`...Correct`). Where it says something beyond types, TLC checked it, as an invariant
of the instances above or smaller ones, before the proof (`Exact` of the transcript
with its `past` as a history variable).

| theorem | proves | in |
|---|---|---|
| `OnlyLiveEntries`, `MissingShared`, `DirectoryImplemented`, `RetirementsNoticed` | `EntriesLive`, `MissingOnlyIfShared`, `ImplementsDirectory`, `RetirementIsNoticed` of the registry alone | `SessionRegistryProofs` |
| `BridgesSeeLiveEntries`, `BridgesLoseNoSession`, `BridgesSeeDirectory`, `BridgesLeaveNotice` | the same four with bridges and writers | `PhoneBridgeProofs` |
| `BridgeTypes`, `BridgesHear`, `ReceiversGo` | `BridgeTypeOK`, `OpenBridgeHears`, `NoLeakedReceiver` | `PhoneBridgeProofs` |
| `PhonesListExactly`, `PhonesSummarizeExactly` | `ListExact`, `SummaryExact` | `ControlProofs` |
| `HeadlessTypeOK`, `LinesWhole` | `TypeOK`, `WholeLines` | `HeadlessProofs` |
| `ClientTypeOK`, `FooterIsCurrent`, `TerminalHasOneSocket`, `ConnectionsRegisterFirst`, `ClientsTakeTurns`, `HubShowsTheName`, `ConnectedClientIsListed` | `TypeOK`, `ShownIsCurrent`, `OneLiveSocket`, `RegistersFirst`, `NoSelfOverlap`, `NameCurrent`, `ConnectedIsListed` | `AgentClientProofs` |
| `HandoffTypeOK`, `EntriesAreOwned`, `HookFollows`, `EntriesReady`, `RcIsAsAsked` | `TypeOK`, `EntriesOwned`, `HookOnlyFollows`, `EntryReady`, `RcAsAsked` | `HandoffProofs` |
| `PageTypes`, `ViewsAreServed`, `SocketsHaveOneOwner` | `TypeOK`, `NotStranded`, `OneOwner` | `PageProofs` |
| `ChatTypes`, `ActivityIsTrue`, `TranscriptIsExact` | `TypeOK`, `ActivityTrue`, `TranscriptExact` | `ChatProofs` |

### The registry

`TypeOK` is not inductive: a frame is well typed only if the task that builds it
knows its session id. `Locals` adds what the local variables of a task hold at
each step, and that an entry's handle registered under that very id; `TypeInv` is
both. The safety properties need `Bookkeeping`:

- `Entries`: the handle of an entry is unmarked and its connection has not come to
  the removal in `unregister`;
- `Fresh`: a handle that was never registered is unmarked, so `register` enters an
  unmarked one;
- `Departing`: the handle an `unregister` has removed and not yet marked is
  registered and no longer listed. Without it `Mark`, which runs with no lock
  held, might mark a handle that is listed;
- `Unlisted`: a serving connection is missing only if another took its id.

The one step that matters is `Remove` by a connection whose id has been taken over:
the entry that goes is of another connection, whose reader may be anywhere. It is
why `MissingOnlyIfShared` is the strongest that can be said, and `survivor` shows
that the stronger one fails. For the refinement, `Register` is `Enter`
(`Fresh` handles only), a `Remove` that finds its id is `Leave`, and every other
step stutters. `RetirementsNoticed` adds `Subscribed`: a running watcher is a
receiver of its handle's watch, so a mark is never dropped.

The lemmas on channels (`SendType`, `ReceiverType`, `WatchType`) say what a send, a
receive and a drop preserve.

### Bridges

A step of `PhoneBridge` is a step of the registry, a step of a writer, which changes
nothing the registry's invariant is about, or a bridge that subscribes to a handle,
receives or leaves. That the last keeps `RegistryInv` and `Subscribed` is one lemma
(`Listening`): no value of a handle changes and no subscription but the bridge's own.
What a bridge promises needs `Attached`: a bridge whose forwarder runs has a reader and
listens to the events and to the state of its handle; nobody but such a bridge does;
and one that is open, without a failed send, and has no forwarder has seen its handle
marked, which is for good, so that no entry is its handle (`Entries`). A forwarder told
to abort listens until it is gone, and its bridge is closed. `OpenBridgeHears` and
`NoLeakedReceiver` follow at once.

### The session list

`ListExact` and `SummaryExact` compare a phone at rest with the registry. The
invariant `ListInv` says what must be so before that. What a phone will
show of an id, when it has read its queue, is what the last frame about the id in
that queue says, or what it shows by now if there is none. `Told` says when such a
frame or view is right: it agrees with the handle, except as far as a task that owns
the id has yet to announce a change. That an announcement is right when it is sent
needs what the task has in hand since it looked (`InHand`): the status in the frame
of a registration is still the handle's, since the watcher is not spawned before the
send; the one in the frame of a rename need not be, which is why `SummaryExact` says
nothing of the status of a renamed session. `Quiet` says that a session whose
extension forwarded nothing has no `session_update` under way, which is why
the premises of `ListExact` exclude the others (`ghost` shows what happens there). A
snapshot is right because `List` reads the handles the registry lists at that moment
(`Listing`); a change announced before the phone subscribed is in it, and one
announced later comes after it in the queue. The response to a fetch is a view that is
still to come: `Told` says the same of the page's list and of each list that was
answered and that no frame overtook since (`Lists`). A list read from the registry is right
for the same reason a snapshot is, and a phone whose list a response took back (`stale`)
is not spoken of (`Heard`).

### The child's stdin

`WholeLines` alone is not inductive: that the next piece follows the last one of its
command needs `Writer`, which says that a bridge in the middle of a command holds the
lock, has pieces left and wrote the last piece there is, and that one that has not had
the lock has written none. A command that fails half-way leaves its pieces, which is
why the first piece of a line may follow anything.

### The extension's client

The invariant is built in layers, each inductive on top of those before.

- `TypeInv`: the types; that a socket is listed only after the Hub read its register.
- `WireOK`: what may be on the two wires of a socket in each of its states, such as
  that a socket is open only while no Close has been put on its wire, and that the
  first frame of an unregistered one is its register. `RegistersFirst` is part of it.
- `HeldInv`: every client but the active one is closed and its sockets are on their
  way out; the active one has at most the socket it holds, and a retry ahead only
  without it; a socket of the active client that is closed has been read to its end
  by the Hub. From this follow `OneLiveSocket` and `ShownIsCurrent`.
- `HubInv`: `NoSelfOverlap`, and that a registration which no other of the session
  overlapped is the one listed. A client dials again only when its last socket has
  closed, so by `HeldInv` the Hub has read the end of it.
- `NamedInv`: the last frame with a name on the wire of an open socket has pi's name,
  or else what the Hub lists has it.

The lemmas named `...Does` say once what an action does to each socket and client;
the layers cite them and not the actions.

### The handoff file

`EntriesOwned` is not inductive: an entry may be in the file, or for the time between
truncation and write only in the hands of the process that writes. `Owned` says that
every entry in either place is held, that at most one process has one in hand
(`Exclusive`), and that what it has is what the file was (`Copied`). It holds until two
operations overlap (`spoiled`). `Placed` says which session each callback has in hand,
from which it follows that an operation that ends without writing found nothing of its
own. `Begun` carries every callback that begins, `OwnsOn` every step that changes one
terminal.

What RC does needs more (`FollowInv`). `Contents` is the file as it was before it was
emptied, if it is. `Apart` says that two live processes have no session in hand in
common but those open twice (`shared`), so that nobody else writes or drops an entry.
`Kept` then says that the entry of a session with RC stays until the `session_start`
that follows, `Follows` that an entry which `session_start` finds is of a runtime that
had RC on, and `Told` that RC is as it was asked for,
or on its way there, at each callback that may be under way. A command that comes after
the stop is why RC on its way must count as asked for even where the terminal ended it.

### The page

`NotStranded` is inductive with `Held`: what the variable of the control channel
holds is a socket to the control endpoint, what that of the chat holds is none, and
there is no chat where the list is shown. `OneOwner` is about a user who does not
hurry (`~hurried`) and needs `Calm`: of a start under way, a timer and a socket the list
has one at most, and so has the chat view; a socket that no variable holds is already
closing, for a view that is no longer shown. No event of an old socket is then late
for its variable.

### The chat view

`ActivityTrue` is about a page that has nothing more to read. `ChatProofs` says of a
page with anything on its wire: once its get_state was answered, the last frame on the
wire that speaks of the agent tells whether it runs, or the page shows it already if
there is none (`Streams`); and from the answer to its get_messages on, the last
frame that touches a tool which is not under way is not its start, and if there is none
its card does not spin (`Spins`). What was lost with a connection does not matter, as
both answers are asked for after it. `Heard` says that an answer comes only from a
bridge that has subscribed, so that no event after it is missed.

`TranscriptExact` needs more: what each frame says depends on what the session was when
it was sent, and at rest the page has what all the frames since the redraw made of it.
The invariant `Exact` has three parts beyond the activity's:

- `Behind(past)`: there is a sequence `past` of states of the session, one for each frame
  under way and the present one last, and each frame leads from one to the next
  (`Then`): a delta adds the next part to the message being written, a `message_end` has
  its whole text, an answer to get_messages has the finished messages as they were.
  Sending a frame appends the new state to `past`, and reading one drops the first.
- `Page(past[1])`, once the page's get_messages was answered and no other redraw is to
  come (`Fresh`): the page shows what the session was when it had sent all the page
  has read. If a message was being written then, `Writes` says where its bubble is:
  there is none yet, or a redraw took it out of the document, or it is the last of
  the transcript and has the message's text so far, unless it is torn. Every bubble
  before is a finished message's.
- `Texts`: the types, that `currentAssistantMarkdown` is empty when there is no current
  bubble, and that a view that was left has none.

At rest the wire is empty, `past[1]` is the present, and `PageExact` reads the property
off `Writes`. `Fresh` is why the property needs the redraw: what was lost with a
connection is in no frame, and until the answer has come nothing is claimed. The redraw
of another phone's answer makes the page stale again and fresh when it is read, and the
bubble it takes out of the document is the torn message that `Untorn` leaves out.

Both sides of `TranscriptExact` are built by `Picked`, a recursive function, so the proof
needs what it does with one more element (`PickedAppend`), that it depends on no other
(`PickedSame`) and its type (`PickedType`). Each is an induction on the length, and is
proved by the least exception: `LeastNat` takes the least number of a set from `WFMin`
of the library, whose parameters are sets; the function agrees with what is claimed
just before it and so, by its definition, there too. That the recursive definition
defines a function at all is proved in the same way (`FillsExist`).

### What TLC alone checks

- All liveness: TLAPS 1.4.5 proves neither `ENABLED` nor properties under fairness.
- The four disagreements between code and documents, which are counterexamples.

No module has a `RECURSIVE` operator. What a recursive function computes is proved, for
`Picked` of `ChatTranscript`, by its least exception, as told above: the induction
theorems of the library take an operator as a parameter, which the provers cannot
instantiate.

## Not modelled

- Events, commands and responses through `AgentClient`: the response of a command
  that outlives a /rc stop or a reconnect is sent on whatever socket is open by then.
  `sendFrame` and the message handler change nothing of the client for them, and with
  them the instance is out of TLC's reach.
- The rest of command dispatch: one call of pi's API per command, no state.
- Of the transcript: thinking bubbles, which a redraw only drops, messages of other
  roles, toasts, dialogs, the text of tool cards, and a page that lags behind its ring.
- Rendering and markdown; the composer and its attachments, which hold what the user
  types and nothing of the session.
- The service worker, static files, routing, arguments and deployment: no concurrent
  state of their own.
- SIGTERM, which ends the Hub at any point as a crash does.

## Plan

Every safety property a passing run checks is proved. What could still be done:

1. The steps of `AgentClient`'s Hub and of `SessionRegistry` related as refinements of one
   description of a connection, so that `ConnectedIsListed` speaks of the Hub's code.
2. Shorter proofs of the layers of `AgentClient` and `Page`, whose actions have many
   cases alike.
