# Synak: formal models of the synchronisation daemon

Synak keeps directories on several hosts in sync. Its daemon, `syncd`
(`syncd/syncd`), watches a directory, keeps an index of its files with one
vector clock per path, and exchanges files with other nodes in sessions over
TCP. `syncui` is a web interface to its configuration. These modules model the
daemon and the editor of the configuration in TLA+, check them with TLC on small
instances, and prove part of them with TLAPS for every instance.

Paths below are relative to the repository; `providers/` stands for
`syncd/syncd/sync/providers/`.

## 1. Inventory

| Component | State | Operations | Modelled |
|---|---|---|---|
| Vector clock (`sync/vector_clock.py`) | counter per node | increment, update, happens_before, equals, concurrent_with | `VectorClock` |
| File index (`sync/file_index.py`) | entries, corrupted set, `.synak/index.json` | load, save, scan, scan_one, mark_deleted, mark_dir_deleted, verify_one, apply_remote | `FileIndex`, `LocalIndex`; save in parts: `Provider` |
| Sync engine (`sync/sync_engine.py`) | none (conflict copies on disk) | reconcile, resolve_last_write_wins, resolve_keep_both | `SyncEngine`, `SyncSession` |
| Provider base (`providers/_common.py`) | tasks, pause event, pending deletes | _init_index, stop, pause, resume, _watch_loop, _verify_loop; _compute_needed, deletions, renames, serve, accept | `LocalIndex`, `Provider`, `SyncEngine`, `SyncSession`, `StreamTransfer` |
| p2p provider (`providers/p2p.py`) | one loop, one server, state, error | start, trigger, _sync_loop, _sync_with_peer, _handle_connection | `SyncSession` (sessions), `Provider` (life) |
| client-server provider (`providers/client_server.py`) | the same, by role | start, trigger, _client_loop, _run_client_session, _handle_client | `SyncSession` (sessions), `Provider` (life) |
| Wire protocol (`sync/protocol.py`) | a byte stream | messages; send_file_data, recv_stream_to_disk | `SyncSession` (messages), `StreamTransfer` (bytes) |
| Subprocess provider (`providers/subprocess.py`) | child process, lock, two pipes | start, stop, pause, resume, trigger, status | `SubprocessIpc`, `Exchange` |
| Manager, registry (`sync/manager.py`, `registry.py`) | pair id to provider | start_all, stop_all; per-pair calls | `Daemon`; `Provider`, `SubprocessIpc` |
| Daemon (`daemon.py`) and HTTP API (`api/`) | config, manager, API server, configuration file | startup, apply_config, reload, save_config, shutdown | `Daemon`, `ConfigEditor` |
| Configuration (`config.py`) | none | parsing, validation, defaults | what parses, in `ConfigEditor` |
| `syncui` | the panes of each page, the address in its session | edit, switch panes, apply and save, reload, connect | `ConfigEditor` |
| Entry points, platform, `synctl` | none of interest | arguments, forking, one HTTP request | start-up in `ConfigEditor` |

How they interact. The daemon has one manager, which starts one provider for
each configured pair. `POST /config/apply`, `POST /config/reload` and SIGHUP each
run `apply_config` in a task of their own: it stops the manager's providers, makes
a new manager, starts its providers and publishes both to the API handlers.
A provider loads and scans its index, then runs up to four activities on one
asyncio event loop: the *watch loop* (file-system events into the index), the
*sync loop* (opens a session with each peer, every `interval` seconds), the
*listener* (answers sessions of others) and the *verify loop* (hashes files).
They share the index without locks; what keeps them apart is that a coroutine
is only interrupted at an `await`. `apply_remote` and `save` run in worker
threads (`asyncio.to_thread`) and are not kept apart from anything. The user
edits the directory at any time. A pair whose mode has no built-in provider is
served by a binary of its own: the subprocess provider sends it one command at a
time over a pipe. The pages of `syncui` send the configuration to the daemon with
one request and have it saved by a second one.

What is hard:

* *Interleaving.* A session reads the index, awaits, and acts on what it read.
  The user, the watcher and other sessions move in between.
* *Ordering.* Events come in batches that are Python sets.
* *Restart.* The index is saved at a few points only, and the scan at the next
  start has to make up for the rest.
* *Half sessions.* Connections break in any phase; a request may get no reply.
* *Overlapping requests.* `apply_config` awaits many times and holds no lock;
  `trigger()` opens rounds beside those of the loop; a page and another page
  apply, save and reload in any order.
* *Succession.* A provider is stopped while its rounds, saves and connections are
  under way, and the next one starts over the same index file.
* *Files in place.* The index and the configuration are truncated and written in
  place, files from peers through a temporary name.
* *Framing.* A file's size is announced before it is read.
* *Another process.* A binary may refuse, answer nonsense, hang or exit.
* *Partial failure.* A pair may be skipped, fail or abort the pairs after it.
* *Convergence.* Two nodes must agree in the end whoever edited what, with
  deletions, renames, conflicts and both strategies.

Every hazard, with its line, is listed in `PROJECT.json` under `hazards`. A property is
named there only if it would catch the hazard itself; where it is false in that
window, or exempts it, the note says so.

What makes each component correct:

* index: it describes the directory whenever the watcher is idle; a tombstone
  means the file has gone; versions made here continue the ones they replace;
  nobody knows more of our own history than we do;
* reconcile and strategies: both sides decide consistently; nothing seen is
  overwritten by something that had not seen it, except in a conflict;
* providers: stop ends what start began and returns; a paused provider opens no
  session of its own, one that is not does; the stored index can be read;
* transfer: a file is one version of itself whole, its entry is its own, a reader
  is never out of step with the writer, sessions end;
* subprocess provider: one command at a time, everyone gets their own answer,
  no process is left behind or killed without need;
* editor: the file is what the daemon runs, what was typed is what is applied;
* daemon and manager: one provider per pair; every running provider can be
  reached, and so stopped; what the API shows is what runs; the end leaves
  nothing behind;
* sessions: they end; entries name the contents they travel with; no step goes
  back to an older version; nothing is lost under keep-both; the nodes agree
  once edits stop.

## 2. The modules

```
VectorClock --- FileIndex --- SyncEngine --- LocalIndex --- MCLocalIndex
                                  |    \         \
                                  |     \         LocalIndexProofs
                                  |      SyncSession --- MCSyncSession
                                  |           \
                           SyncEngineProofs    SyncSessionProofs

Daemon --- MCDaemon                 Exchange ... SubprocessIpc --- MCSubprocessIpc
   |                                                  |
DaemonProofs                                  SubprocessIpcProofs

Provider --- MCProvider             ConfigEditor --- MCConfigEditor
   |                                     |
ProviderProofs                      ConfigEditorProofs

StreamTransfer --- MCStreamTransfer
   |
StreamTransferProofs
```

A line to the right is EXTENDS, the dotted one INSTANCE: SubprocessIpc is shown
to implement Exchange. The others meet at what one takes from the other as given:
Daemon takes from Provider and SubprocessIpc that start and stop return; SyncSession
takes from StreamTransfer that a file arrives whole or not at all; ConfigEditor
takes from Daemon that a configuration is replaced in one step, which `apply` shows
when calls do not overlap.

Three modules hold no state: they give the
values and the pure functions of the code, one operator for each method.

**VectorClock**: `vector_clock.py`. A clock is a total function; the code's
missing key is 0.

**FileIndex**: `file_index.py`, one path at a time. A file on disk is a
checksum and a modification time, an entry is `FileEntry` without its path. A
checksum stands for the content; it is 0 (`NoSum`) where the code has `""`.
A path without an entry is `NoEntry`, which behaves as a tombstone with an
empty clock wherever the code asks `existing is None or existing.deleted`.
`scan`, `scan_one`, `mark_deleted`, ... become functions from the old entry and
the file to the new entry; `apply_remote` is split into the write
(`WriteRemote`) and the record (`RecordRemote`).

**SyncEngine**: `sync_engine.py` and the selections of `_common.py`. The code's
dict from checksum to path keeps the last of several paths with one content;
the models let it be any of them (`PathsOf`, and `Target` of SyncSession).

**LocalIndex**: one node in full detail, with its peer reduced to the index it
would send. The state is the directory (`disk`, `away`, `aside`), the process
(`phase`, `entries`, `corrupted`, `stored`, `excluded`), the watcher
(`changes`: events not yet yielded, `batch`: the part of the yielded set still
to be handled, `dirty`), our session (`session`, `todo`) and the worker thread
(`job`).

| Action | Code |
|---|---|
| Start | `_init_index`: load, scan, save |
| WatchStart | the watch task registers with awatch |
| Halt | `stop()` or a crash: neither saves |
| TakeBatch, HandleChange, WatchSave | one turn of `_watch_loop`, element by element |
| Verify | one file of `_verify_loop` |
| BeginSession, Pull, EndSession, LoseSession | `_sync_with_peer` as far as it touches our index |
| TakePush, TakeDeletion | `_apply_incoming_file`, `_apply_remote_deletions` |
| ApplyWrite, ApplyRecord | `apply_remote` in the worker thread, in two steps |
| UserWrite ... DiskRot, PeerLearn ... PeerRemove | the user, the disk and the peer (external) |

While a batch is being handled no other coroutine runs (`LoopFree`), but the
user and the worker thread do: that is what asyncio gives. `Env` says what the
environment does; a kind it leaves out is a window the run does not open.

**SyncSession**: two coroutines per link, the connection between them as two
queues, one action per stretch of code between two awaits, and the users of all
nodes. The p2p provider has a link each way; in the client-server provider only
the client opens sessions, and the server greets first (`GreetFirst`). The
initiator goes hello, delete, rename, pull/wait, push; the listener goes hello,
delete, serve, accept. A job of `asyncio.to_thread` is a step of its own; the
coroutine waits for it, everything else does not.

**Daemon**: `daemon.py`, `sync/manager.py` and the requests that reach them.
`run` is where `run()` is, `task` the coroutines of start-up, shutdown and each
request, `owns` the `_providers` of each manager, `life` what has become of each
provider, `current` `Daemon._manager`, `config` `Daemon._config` and `shown`
`_app_state`. Every task makes at most one manager, which is named after it; the
k-th pair of its configuration gives the provider `<<manager, k>>`.

| Action | Code |
|---|---|
| SkipPair, RejectPair | `_start_pair` leaves before `provider.start` |
| BeginStart; Started, StartFails, StartRejects | `await provider.start(...)` and its three outcomes |
| Apply | `apply_config` up to the first stop: the list `stop_all` iterates over is copied here |
| BeginStop, Stopped | `await provider.stop()` of one provider |
| Replace | `_providers.clear()` and the new `SyncManager` |
| Finish | the assignments at the end of `apply_config` and of `_startup` |
| Shutdown, CloseApi, End | SIGTERM or `POST /shutdown`; `_shutdown` |

**Provider**: what happens to the built-in providers of one pair from start to
stop, one instance after the other. `co` is the place of every coroutine: those
`stop()` knows (loop, watch, verify) and those nobody knows (`extra`, a round of
`trigger()`; `conn`, the handler of a connection); `state` and `paused` are
the fields, `job` the save each coroutine has given to a worker thread, `file`
the index file as the parts written into it. A round that is cancelled does not end
at once: it is in its `finally`, waiting for its connection to be closed (`"close"`),
while `stop()` waits for it, and the state is set only after that.

| Action | Code |
|---|---|
| Begin, Load, LoadFails, Bind, BindFails | `start()`: the index is read, the port bound, the tasks created |
| Pause, Resume, Trigger, Stop | the calls of the manager |
| LoopTurn, ExtraRound, Learn, EndRound | `_sync_loop`, `_client_loop`, and a round |
| BeginSave, Copy, Write, SaveFails | `save()`: the file is truncated, the entries copied, the parts written |
| Batch, WatchFails, Accept, EndConn | the watch loop; a connection |
| Closed, Cancel, Cancelled, Drop | `stop()` after each of its awaits; the manager's list |
| Crash | the end of the process |

**Exchange** and **SubprocessIpc**. Exchange is what callers are promised of the
channel to a binary: commands are out one at a time and each is answered, fails or
is given up; an answer of another can be read only after a command was given up.
SubprocessIpc is `subprocess.py`: `lock` is the asyncio lock with its queue, `pc`
where each call is, `inbox` and `outbox` the pipes, `child` the binary. The
refinement mapping reads the phase of a call from `pc` and `got` (`PhaseOf`).
Calls made in handlers of the API (`Handled`: all requests, and the start and the
stop of a `POST /config/apply`) can be cancelled once the API closes; those of SIGHUP
and of the shutdown cannot.

| Action | Code |
|---|---|
| Spawn, SpawnFails, Invoke, Stop | `start()`, the calls of the manager, `stop_all` |
| Send, SendFails, Read, ReadFails | `_send`, behind the lock |
| Exited, Kill, Forget | the rest of `stop()`: `wait`, `kill`, the `finally` |
| Close, Cancel | `ApiServer.stop`; a CancelledError in a handler, which `stop()` does not catch: it forgets the process and returns |
| Drop | `stop_all` clears its list, unless it was cancelled |
| Reply, Refuse, Babble, Exit, Hang | the binary (external) |

**StreamTransfer**: a connection as a sequence of units, two for a message and one
for a chunk of a file, so that messages can be cut and sizes can disagree. A link
pulls (each file is asked for) or pushes. `tx` and `rx` are the two coroutines,
`inode`, `file` and `tmp` the receiver's directory, in which a name may be moved
while it is being written to, and `held` the message a worker thread is writing
under the file's own name, which is truncated first: `broken` has the files whose
writing in place was broken off.

| Action | Code |
|---|---|
| Announce, Open, Chunk, Close | `send_file_data`, and the loop around it |
| Ask, ReadStream, RejectStream, RejectData, ReadAck, ReadJunk, ReadEnd | `read_message` and what is done with the message |
| Body, BodyEnds, Replace, ReplaceFails | `recv_stream_to_disk` |
| Drain | the body of a rejected stream |
| ReadData, Write, Written | the first half of `apply_remote`: `open(.., "wb")`, and the content part by part |
| Record | the second half of `apply_remote` |
| DiskFull | a write that raises, to the temporary file or to the file itself |
| Edit, Remove, Cut, Crash | the sender's user, the network, the end of the receiver (external) |

**ConfigEditor**: the pages of `syncui`, the daemon and its file. A configuration
is its content, an address, and a sort which says what a form, a TOML parser and
the daemon's parser make of it. The form is not the identity: `Rendered` is what the
templates show of a configuration (static peers and settings without a field are
gone, a missing `log_level` has become the first option, `debug`), `Collected` what
`collectFriendly` reads out of it (`intVal` cuts a fraction off, and takes a zero for
nothing), and some configurations are not rendered at all (a `mode` without a schema,
a missing table): the page is then `broken`, or keeps its old form (`Renders`). A page
has two panes, of which one is shown, and at
most one call of each kind under way; a click on Apply goes from `apply` to `save`
to `form`, or is `late` when the page has given it up while the daemon has not.

| Action | Code |
|---|---|
| Type, Switch, Converted, FormArrives | a pane; `switchMode`, `/api/convert`, `reloadForm` |
| Apply, ApplyRefused | `applyConfig` and `POST /config/apply` until the daemon sets to work |
| ApplyDone, ApplyRaises, GiveUp | its end, and the client's timeout |
| Save, SaveFails, CrashSaving, SaveRefused | `POST /config/save`, `save_config` |
| ShowApplied | the rest of `applyConfig` |
| Reload, Load, LoadAmidst, Connect | reloads of the configuration and of the page; another address |
| HandEdit, Crash, Boot | the file and the process |

Simplifications, all of them deliberate:

* the modification time of an applied file follows its content within a tick
  (`Stamp`), so two different contents never share one; the code's tolerance of
  0.001 s is equality;
* LocalIndex has one job and one own session at a time, and its peer only takes
  versions whose content is the recorded one (SyncSession has the rest);
* SyncSession lets `apply_remote` be one step (LocalIndex splits it), opens
  one session per link at a time, and takes the drain of the socket buffer to
  return at once;
* conflict copies are kept aside (`copies`) and not synchronised in turn;
* SyncSession sends a file whole, as StreamTransfer shows it to arrive when it
  does not change meanwhile;
* the pruning of empty parent directories is left out;
* in Daemon a SIGTERM during start-up is one right after it (the code looks at
  the event only then); the cancellation of unfinished API handlers when the API
  closes, and of unfinished tasks when `run()` returns, is left out;
  `api_socket` and `log_level` have no effect on providers; what a provider that
  fails to start leaves behind is in Provider (`Remains`), not in Daemon;
* Provider has one peer, one triggered round and one connection at a time; an
  index is an image that changes as a whole; the sessions themselves, and the
  verify loop's work, are in the other modules;
* SubprocessIpc leaves out what callers do with an answer (only `start` looks at
  `"ok"`) and the reading of the binary's stderr;
* in StreamTransfer the receiver starts without the files, and a rejection of a
  pushed file is a choice (SyncEngine decides it);
* in ConfigEditor a configuration has one sort, so that what the form does to two
  settings at once is not distinguished from what it does to one; texts a form would
  mend are all refused as they stand, and those it would not mend can be rendered;
  it merges a click with the daemon's receipt of the request, and the
  answer to a save with what the page does on it: nothing else of the page or the
  daemon can tell them apart; a reload reads the file when it is asked for;
  `POST /config/reload` of `synctl` and SIGHUP are left out (they are the same call);
* `update()` of the vector clock is defined and proved about, but no code path
  of the daemon calls it.

## 3. The runs

| Run | Result | What it shows |
|---|---|---|
| watch | passes | `TypeOK`; `IndexTracksDisk`, `TombstoneMeansGone`, `LocalStepsForward` with writes, deletions, a moved directory, crashes at any moment, changing exclude patterns, and a peer that takes and gives versions |
| history | passes | `OwnHistoryKept`, `SameClockSameVersion`, `CorruptionRepaired`: the start-up window, edits racing with `apply_remote`, corruption; no restart and no crossing session |
| p2p | passes | `NoMutualWait`, `IndexHonest`, `EventuallyAgree`: keep-both, two paths, writes, deletions, renames, copies |
| server | passes | `TypeOK`, `SameClockSameVersion`, `NeverBackwards`: client and server, edits in the middle of sessions and not yet indexed, lost connections |
| apply | passes | `TypeOK`; `OneInstance`, `Owned`, `ShownIsServed`, `EndsStopped`, `TasksEnd`: start-up, two replacements and a shutdown, one after the other, with every pair skipped, rejected or failing |
| replace | passes | `TypeOK`; `Remains`, `PauseHolds`, `SyncingIsReal`, `StoreWhole`, `StopReturns`, `ResumeSyncs`: a provider of each kind and its successor, with a taken port, crashes, a watch loop that dies, saves that cross or raise |
| calls | passes | `TypeOK`; `StopLeavesNone`, `KilledForJunk`, the refinement `Exclusive` of Exchange, `CallsEnd`: two requests and two stops, cancelled handlers (requests, the start, one of the stops), a binary that refuses, babbles, hangs or exits |
| stream | passes | `TypeOK`; `DamageStaysLocal`, `EntryOfFile`, `InFrame`, `SessionEnds`: small and streamed files pushed by one peer and pulled from another, one of them both ways, with files that change or go, a cut connection, a full disk, a crash of the receiver, rejections and a temporary file that cannot be renamed |
| config | passes | `TypeOK`; `Agree`, `EditsKept`, `PageSettles`: two pages, of which one types and switches, two clicks, texts with a fraction, without `log_level` and with a mode the form does not know, and everything the environment may do |
| restart | violated | `OwnHistoryKept` does not survive a clean stop: `scan()` restarts the clock of a file it finds over a tombstone |
| loss | violated | `NoDataLost`: only the first conflict of a path gets its copy |
| overlap | violated | `OneInstance`: a second `apply_config` while the first one runs |

The three violations are disagreements of the code with its own documents; each
is quoted under `findings` in `PROJECT.json`.

Bounds. `MaxTime` caps the number of edits, crashes and lost connections
together; everything else is bounded by it, because a session that finds
nothing to do changes nothing. Three edits are enough for: a version, its
deletion, its re-creation; two concurrent versions and a later one; a rename
with a concurrent edit of either name. `history` allows four and `server` four,
since their runs also spend ticks on corruption and on lost connections. One
path is enough where the code treats paths separately; `watch` has a file
in a directory and one outside, `p2p` has two paths for renames and copies.
Two nodes are what a session has; a relay over a third is beyond these runs.
`p2p` uses keep-both and `server` last-write-wins, the default of both providers.
`apply` has two pairs and two
requests: a replacement of a manager that was filled, half filled by an aborted
start, or empty, with a pair kept, dropped or added; a third request meets no
new situation. Node symmetry is not used: the initiator and the listener differ.

`replace`: two instances, of which the second is followed until it has started
(what it finds is what the first has left); the index changes once, one triggered
round or connection crosses the loop, and a save is two writes, so that one can be
cut in the middle. `calls`: a call waiting, a call being served and
two stops, the most that can differ in the queue. `stream`: two files, one that is
sent in a message and one that is streamed, one link each way of sending and the
files in another order on each, so that a link can break off a file the other has
brought; three chunks at most, one fault; the buffer holds one message, so that a
writer meets a full one. `config`: two pages and two clicks (a click
cannot cross with more than one other in a new way, the daemon being one), and
three texts, switches or interferences of the environment. Three texts are typed, one
the form cuts, one it adds to and one it cannot show; the initial configuration has
settings it leaves out; the parts of a file come of saves that fail, and the empty
form of a page without a daemon.

Fairness. `LocalIndex`: the tasks of the event loop and the worker thread
run when they can; the user, the peer, crashes and lost connections owe
nothing. Of the peer's sessions nothing is assumed. `SyncSession`: every edit is
eventually observed (awatch polls or is notified for ever), each coroutine that
can go on does (the event loop is a FIFO queue), and each link opens sessions
for ever (`_sync_loop` is a timer; strong fairness, since another link's session
may keep it waiting where a run forbids sessions to cross).
`Daemon`: the event loop goes on with every task that can, and providers return
from start and stop in the end; requests and signals owe nothing. `Provider`: the
event loop goes on with the loop, with stop and with connections, and a worker
thread with its save; a connection is assumed to end, since from Python 3.12 on
`wait_closed` waits for it (`Drained`), and so is the one a cancelled round closes, which
its peer reads or loses; `awatch` is assumed to end when it is cancelled.
`SubprocessIpc`: calls go on when they can; a binary that does not hang answers, and
exits once told to. `StreamTransfer`: both ends go on when they can. `ConfigEditor`: browser and web server go on; a
request is answered or given up after the client's five seconds.
All liveness properties are checked under these; in `EventuallyAgree` and
`CorruptionRepaired`
the bound on edits means "once the edits have stopped". Deadlock is not
checked: when the edits are used up and everything agrees in LocalIndex
the system rests; a daemon that has ended, or is waiting for a request that does
not come, rests as well.

Where the passing runs stop. Some windows are left shut because the code does not
hold what the property says when they are open. `Env` and the exceptions in the
properties name them:

* `p2p` does not let sessions of the two links overlap, nor edits fall into a
  session. `_serve_file` does not answer for a path that has gone meanwhile, and
  both ends then wait for ever (`NoMutualWait` with `"mid"`; the exception of
  `SessionEnds`); keep-both can exchange two conflicting versions for ever
  (theorem `KeepBothExchanges`); an unconditional pull can take a node back.
* `server` checks safety only: under last-write-wins a conflict the client wins is
  never sent to the server, so that `EventuallyAgree` is false.
* `history` excludes restarts (run `restart`) and crossing sessions. A path flagged
  as corrupted while its edit was not yet indexed is pulled although the local
  version is newer.
* `watch` excludes edits between the scan and the registration of the watcher,
  which no event reports, and a directory moved away and back within one batch
  (`"swap"`), after which `mark_dir_deleted` makes tombstones of files that are there.
* `Remains` names what does stay: rounds of `trigger()` after stop, the verify loop
  if the watch loop had died, the loops of a server whose port was taken.
* `StoreWhole` excludes saves that have met, raised or died: each of them can leave
  an index the next start cannot read.
* `CallsEnd` excludes a binary that hangs: `docs/provider-interface.md` has it
  killed in time, the code waits, for its answer or its end. A binary that refuses
  `start`, or whose start is cancelled, stays alive.
* `StopLeavesNone` says what is left by a `stop()` that was cancelled in the handler
  of `POST /config/apply`: a living process nobody waits for or kills any more, since
  `_proc` is gone when the `stop()` of the shutdown comes. If the cancelled one
  was still in the queue of the lock the binary has not even been told to leave.
* `DamageStaysLocal` and `EntryOfFile` exempt a file below 64 MB while it is written
  in place, and after that was broken off, until it is received again (`Exposed`):
  `apply_remote` truncates it under its own name (`sync/file_index.py:257`). They
  exempt any file that changed or went while it was sent, and one received twice at a
  time. A file that went counts because a stream whose header is out and whose file
  cannot be opened makes the receiver read the units after it as its body
  (`sync/protocol.py:101`, `_common.py:280`).
* `Agree` exempts a file that was torn, edited or left behind by a save that failed
  or was never asked for. `EditsKept` exempts a text the form cannot render, and a user
  who acts on the page while one of its calls is under way: both may see an old form
  (the form is not awaited). Of what has been shown as a form it promises one pass: static
  peers and settings without a field, fractions and zeros are lost then, and
  a missing `log_level` becomes `debug`, although nothing was changed. The documents
  have it otherwise: `docs/config.md` says that its default is `info`.

## 4. The proofs

The theorems hold for every value of the constants that satisfies the named
assumptions of the modules; what a theorem assumes besides is said here. Each
invariant is proved by way of an inductive one, which TLC has checked first. The
proof that a step keeps it has one lemma for each group of actions.

**SyncEngineProofs** is about the pure functions of the three modules without state,
and what it proves of them is used wherever clocks and entries occur. `happens_before`
is a strict partial order, two clocks stand in exactly one of the four relations
`reconcile` distinguishes, and `update` computes the least upper bound. Of two
nodes comparing the same two versions: a conflict is seen by both or by neither; at most one takes the other's version
without a conflict, and that version covers all the other had seen;
under last-write-wins at most one accepts at all; under keep-both
both accept whenever the contents differ.

**LocalIndexProofs**. `TypeCorrect` and `StepsForward` (`LocalStepsForward`) hold
in every environment. The rest depends on what the environment may do, and each
theorem leaves out just the windows that break it:

* `OwnHistory` (`OwnHistoryKept`), without "crash", "stop" and "cross" (`CalmEnv`).
  It is not inductive as it stands, for three reasons, which are the conjuncts of
  `HistoryInv`: it is needed before the daemon is up, not only while it is; the only
  start-up scan must begin with a peer that knows nothing of us; and the version in
  the worker thread, which replaces our entry without looking at it, must be no
  older in our own component than the peer's. The last one is what a crossing
  session breaks, the second one what a restart breaks.
* `SameClock` (`SameClockSameVersion`), in the same environments. A new version must
  have a clock nobody holds: we raise a component of which nobody knows more than
  we do (`HistoryInv`), the peer one of which we know no more than it does. The
  version in the worker thread is a third party to both (`SameInv`).
* `TombstonesTrue` (`TombstoneMeansGone`), without "swap" and "race" (`OrderlyEnv`).
  `mark_dir_deleted` does not look at the disk, so the invariant needed (`AwayInv`)
  is that the event of a removed directory is only handled while it is removed, and
  that nothing is written into it meanwhile.
* `IndexTracks` (`IndexTracksDisk`), without "swap", "race", "early" and "rot"
  (`SeenEnv`), but with restarts, crashes and crossing sessions. Three things make
  it inductive (`TrackInv`): where the index is wrong, the event or the record that
  rights it is still to come (`Tracked`); what the worker thread has put on disk is
  still there when it is recorded (`WrittenInv`); and the shortcut over modification
  times never skips a changed file, for the entries in memory and on disk, and for
  the files in place and moved away, which come back with their old times
  (`StampInv`).

**DaemonProofs**: `DaemonTypeCorrect` without conditions; `OneInstanceAlways`,
`OwnedAlways`, `EndsStoppedAlways` and `ShownIsServedAlways` if calls do not overlap
(`Serial`) and no configuration names a pair twice (`UniqueIds`, which
`docs/config.md` demands and `config.py` does not check). All follow from one
invariant, `SerialInv`: at most one task is at work (`Turn`); a manager being filled
is the daemon's (`Filling`); the list of a task that stops providers still holds all
that run (`Emptying`); a provider exists from its pair's turn on, and is started or
stopped only while a task awaits it (`Lives`); a manager lists only its own
(`Listing`). `Owned` alone is not inductive: it says nothing of the provider
being started, whose pair must not be taken, nor of what remains to be stopped.
`ShownIsServed` needs besides that the manager of a task that is done has been
published as a whole (`Published`).

**SubprocessIpcProofs**: `TypesHold`, `StoppedIsDead` (`StopLeavesNone`),
`KillsForJunkOnly` (`KilledForJunk`), and `CallsExclusive`, the refinement of
Exchange: the initial state maps to an initial state, and every action to a step of
Exchange or a stutter (`StepRefines`, one case for each action). All rest on
`IInv`: who waits or has asked is in the queue of the lock, and only its head has
asked (`Queue`); unless a call was abandoned, the pipes hold at most the command of
the call that has asked, or its answer (`Pipes`); where the binary can be (`Binary`);
and that a stop whose command was written has reached the binary, which leaves or is
dead (`Obeyed`). `StoppedIsDead` needs the last two: a process that outlives a stop was
forgotten by one that was cancelled, and what that one had got tells whether the
binary knows of it.
Without `Pipes` an answer could be anybody's; its first disjunct is where the code
loses step, when a caller is cancelled between its write and its read. Queues are
handled by two lemmas about leaving and joining one (`WithoutOne`, `AppendOne`).

**ConfigEditorProofs**: `TypesHold`, `FileAgrees` (`Agree`) and `EditsShown`
(`EditsKept`). The file differs from what the daemon runs only while a page that has
its answer has yet to save, or if the file was left behind (`FileInv`); this needs
that what a click applies is a configuration that runs (`JobsRun`) and that a page
has one click under way at most (`ClickInv`). `EditsKept` speaks of the moment of a
click; it follows from `EditInv`, which puts every page whose user waits for its
calls in one of four states: showing what was typed, converting it, fetching the
form of it, or refreshing after an apply. That one pass through the form is all that
is lost, however many there were, rests on a lemma about the conversions: a second pass
changes nothing (`PassedOnce`). That a page which shows its form has had its text pass
through it, and that a page without a form has no click under way, is `PaneInv`.

**ProviderProofs**: `TypesHold`, `StopRemains` (`Remains`), `PausedOnce`
(`PauseHolds`), `SyncingReal` (`SyncingIsReal`) and `StoredWhole` (`StoreWhole`).
`LifeInv` says which tasks can be alive in which phase of a life: `stop()` has ended
those it is past, and only the watch loop dies of an exception. `PauseHolds` needs
that a loop woken by `resume()` has not begun its round (`PauseInv`). `StoreWhole`
speaks of a file that nobody is writing; `StoreInv` says of a save that met no other
that it is the only one, and that the file is the part it has written.

**StreamTransferProofs**: `TypesHold`, `StaysInFrame` (`InFrame`), `DamageLocal`
(`DamageStaysLocal`) and `EntryIsFiles` (`EntryOfFile`), for any number of links,
files, faults, sizes and any buffer. They need a description of the connection:

* `FrameInv`: the units under way can be labelled with the bytes of a stream that
  are still to come before each; the first label is what the reader still
  expects, the last one what the sender still owes. Reading a unit drops a label at
  one end, sending one adds a label at the other. The exception is a connection
  on which a file was sent at another size than announced (`slipped`).
* `LinkInv`: of the files that have not changed, each unit on the connection is
  followed by the next one of the same file (`Chain`), the sender goes on where the
  connection ends (`Onward`), and the reader expects what is at its beginning
  (`Reading`). These speak of an unchanged file only, by its number: the neighbours
  of a file that has changed may be anything, which is what `DamageStaysLocal` is about.
* `FreshInv`: the inode a file will be received into belongs to no name until then.
* `PathInv`: a path that was not received twice at a time has one receiver, which
  writes a stream to the temporary file and a message to the file itself (`AloneInv`);
  what is written so far is the beginning of the file, and what is in place and not
  `Exposed` is the whole of it, from the link that recorded its entry or is about to
  (`ContentInv`). Only a file that comes in a message is ever `Exposed`.

**SyncSessionProofs**: `TypesHold`, in every environment and for any set of links.
The rest is of two kinds of sessions.

`SameClockHolds` (`SameClockSameVersion`) and `NeverBackwardsHolds` (`NeverBackwards`)
are about two nodes, of either provider, under `Orderly`: sessions of the two
directions do not overlap, and users write and delete but do not rename or copy.
Edits in the middle of a session, edits not yet indexed and lost connections are
included, any number of paths and edits, both strategies, `sync_deletes` on and off.
Neither restriction can go. With crossing sessions and edits in the middle, TLC finds
a reply that is installed after a newer version has been accepted from the other
session. With renames it finds one that is recorded without a comparison, over an
entry that was newer. The invariant, `SessionInv`, has four parts:

* `ApartInv`: of two links one is idle. An idle link has nothing to remember but its
  two versions, so a step of the other one can be followed alone (`Kept`, proved for
  each action).
* `StageInv`: where the two coroutines are, and what can be on the connection there:
  no request while a reply is under way, no reply while the listener installs, one job
  at a time. Both ends install at once only in their deletion passes, and then the
  two versions go together (`PullInv`).
* `ClockInv`, for each path. The two nodes' versions go together (`Meet`): each knows
  at least as much of its own edits as the other does, and equal clocks are one
  version. What was sent of a path is an earlier version of what its sender holds
  (`HelloInv`, `PushInv`), a version about to be installed goes with the other node's
  version and brings an edit of the other node that is not known here (`PullInv`,
  `TakeInv`), and so does a reply (`ReplyInv`). The pull phase installs without
  looking at the index again; that it cannot go back rests on the last two.
* `NameInv`: a content has one name, since it is written once. It shows that no rename
  is found in either pass, on which the other parts rely.

The steps of watchers need that a component only its owner raises is nowhere higher
than at its owner, which is `Meet`; so a new version has a clock nobody holds.

`IndexHonestHolds` (`IndexHonest`) and `NoMutualWaitHolds` (`NoMutualWait`) are about
any number of nodes and links under `Calm`: no edit in the middle of a session, none
not yet indexed when it starts, no two sessions at a time. Users write, delete, rename
and copy files, connections get lost, and renames, both strategies and both providers
are included; the run `p2p` has two nodes, two paths, keep-both and no lost
connection. For `IndexHonest` none of the three conditions can go, and for
`NoMutualWait` neither of the first two: TLC then finds the file served with the entry
of another content, or the request that is not answered. Two more results come from
the same invariants: `SentAsNamedHolds`, that a file travels with the entry of its
content, and `EveryRequestAnsweredHolds`, that `_serve_file` never takes its silent
way out. The first invariant, `HonestInv`, says of each node by itself

* that an entry is alive when it has a content, and that modification times are stamps
  of contents (`Sound`, `Dated`). Two contents never share a stamp (`StampTells`), so
  the watcher sees nothing to do exactly where the entry names what is on disk
  (`ObservedHonest`): `scan_one` trusts the modification time;
* that what is sent is sound (`HonestMessage`), and that a job brings the content of
  its entry or finds it on disk (`HonestJob`): the second job of a rename has no
  content, and the file was moved before either job ran;
* that at both ends of an open session every entry names the content on disk, but for
  the two names of a rename whose jobs are pending (`TidyInitiator`, `TidyListener`).
  A watcher may run between the two; it touches those names alone.

The second, `WaitInv`, adds

* `TurnInv`: `StageInv` without its jobs and with renames, that is, whose turn it is;
* `StandsBy`: the listener still has the version of each file it has offered, or is
  about to lose it, or has lost it, to a tombstone in the initiator's HELLO that is
  newer than what was offered;
* `Follows`: what the initiator holds of an offered file when it selects is what its
  HELLO said or, after a rename, the offered version itself. So it never asks for a
  file of which it had said it had a newer version, and the two parts together give
  that what it asks for is there;
* `PassInv`: the jobs of the initiator's two passes are of paths the listener has dead,
  or of the offered version.

Only model-checked:

* liveness under fairness (`CorruptionRepaired`, `EventuallyAgree`, `TasksEnd`,
  `StopReturns`, `ResumeSyncs`, `CallsEnd`, `SessionEnds`, `PageSettles`), which is
  beyond the prover, as is everything with ENABLED;
* what recursive definitions compute: there are none in these modules.

## 5. Plan

Every invariant and every action property that a passing run checks is a theorem.
What is left:

* `NoMutualWait` with crossing sessions, where the listener's entries may also change
  in a session of its own. TLC finds no violation with two nodes, two paths and two
  edits, nor within five minutes with three edits;
* `SameClockSameVersion` for more than two nodes: `Meet` speaks of the two components
  of two nodes.

## 6. Not modelled

* Relays over three nodes, and several clients of one server, in a run: SyncSession
  admits any set of links and `Calm` covers them, but its state space with three
  nodes is out of TLC's reach at the bounds at which anything interesting happens.
* The pruning of empty directories after a deletion, which no other code looks at.
* The status page of `syncui` and its buttons, `synctl`: one request each, without
  state; what the request does is an action of Daemon, Provider or ConfigEditor.
* Argument parsing, the double fork, socket addresses, file attributes: calls of
  the operating system in a fixed order.
* The values of a configuration and their validation one by one (`config.py`).
