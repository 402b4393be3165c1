# GNUWeebBot: TLA+ models, model checking and proofs

The bot is a C server. A main thread accepts TCP connections, reassembles packets that each hold one Telegram update, and
hands every update to a pool of worker threads. A worker parses the update, offers it to four modules, and talks to Telegram
over HTTP. A logger thread starts first and is waited for last. Source paths below are relative to `src/src/gwbot/`.

| module | models | source |
|---|---|---|
| `WorkerPool` | slots, stack of free slots, queue of pending events, worker threads, the main thread's side of them | `core/server.c`, `gwthread.h`, `que.h`, `tstack.h` |
| `Dispatcher` | what the pool promises: an event is accepted or refused, and an accepted one is handled at most once, in one slot, in any order | abstract |
| `Channels` | acceptor, `epl_map`, batches of epoll events, packet reassembly, time limit, `close_fds` | `core/server.c` |
| `Lifecycle` | `gwbot_run` from `init_state` to `destroy_state`, the logger's handshake, `wait_for_threads` | `core/server.c`, `core/event_logger.c` |
| `TgEvent` | parsing, ownership and destruction of an event and of the messages it replies to; the getters | `lib/tg_event.c`, `tg_event.h`, `tg_event/` |
| `EventHandler` | one call of `gwbot_event_handler`: load, modules, Telegram requests, destroy | `core/event_handler.c`, `modules/`, `lib/tg_api*` |

`MC*` modules and `.cfg` files instantiate these for TLC. A definition keeps the name of the function it models. Definitions
with a suffix (`NeedsPrivilege_partly`) are plausible slips that no specification uses; each shows that a property can fail.

## How the models correspond to the code

**WorkerPool.** One program counter per thread. A step is a stretch of code without a point where another thread's action
could matter; `reset_thread` writes its fields in source order, one per step, because it runs without a lock. Condition
variables may wake up spuriously, so a signal needs no modelled effect. `pthread_create` may fail, and `dispatch_sqe` ignores
that, as the code does. A new event overtakes queued ones. `gettimeofday` failing is a wait that timed out. Left out:
`thread->state`, `last_work`, `thread_idx` and the packet's length, which nothing in the pool branches on, and builds with
`NDEBUG`. `Workers` bounds the threads alive at once.

`raced` records that the main thread claimed a slot while its worker was leaving, or that a worker left a slot already
claimed. Three properties hold without condition: `OneOwnerPerSlot`, `FreeSlotsAreFree`, `NoUseAfterFree`. `AtMostOnce`,
`RefinesDispatcher` and `AbortOnlyByRace` hold up to the first race. `NothingLost` and `SlotsConserved` hold while the pool
is undisturbed (no signal, no race, no failed `pthread_create`).

**Channels.** Events are captured at `epoll_wait` and handled one by one; a batch holds all ready descriptors, or any
`MaxEvents` of them. Accepted sockets block, and `BatchIsFresh` is why `recv` never does. A channel lost by a failing
`run_acceptor` stays lost, as in the code. `active_chan` is only ever incremented, and is left out.

**Lifecycle.** Any startup step may fail and a signal may come at any time. A handler may never finish, so workers have no
fairness. After its last poll the main thread sleeps for a second without looking at the count again (`linger`); what other
threads do meanwhile is interleaved. Deadlock is not checked there: the process ends, and in one finding it really hangs.

**TgEvent.** A message is its kind, the first parser step that fails, whether it has entities, and its text. It replies to at
most one other, so a message with all the replies behind it is a sequence, outermost first. `parse_replied_msg` and
`tg_event_destroy` recurse along it; the model says for which positions they are called (`Reached`, `Linked`, `Destroyed`)
and which calls of `free` that makes, each with its place, so that two frees of one cell stay two. A pointer to an event is a
position, `Null` or `Wild`. `tge_get_reply_to` reads the text event's field for every
type, so for a photo it returns `caption_entity_c` as a pointer; the event is cleared first, so this is NULL without entities.
Values have the JSON types of the Bot API, and `malloc` in `parse_replied_msg`, which is unchecked, succeeds.

**EventHandler.** A text is a class and a number of arguments. The classes are the command words, a mention of the admins, a
translation command, a text that only begins like one (the prefix is enough for `translate` to dereference the reply), the
debug command, and any other text. The command table is searched in source order, by prefix, so `delvote` is never reached
behind `del`. An answer is accepted, refused, unreadable, a transport error (`down`) or
without a body (`empty`, read from uninitialised memory, hence any verdict); a translation may also run out of memory. The outcome of `sendMessage` is never used.

## Runs

| run | shows | bounds |
|---|---|---|
| `pool_safety` | the type and seven safety invariants, and that the pool implements `Dispatcher` | 2 slots, 3 workers, 3 events, queue of 1: full queue, slot reuse and overlapping leavers all occur |
| `pool_liveness` | in an endless stream every accepted event is handled, unless the pool is disturbed or newcomers overtake the queue for ever; the pool stops after a signal | 1 slot, 2 workers that leave at their first timeout, queue of 1, 2 event names in use at once |
| `pool_assert` | violation: an assertion of `gwthread.h` fails | 1 slot |
| `pool_idle_exit` | violation: a worker leaves a slot that holds an event (same cause) | 1 slot |
| `pool_all_busy` | violation: the stack is empty although a slot is not busy | 1 slot |
| `channels_safety` | descriptors, map, channels and stack agree; batches are fresh | 2 channels, 2 descriptors, 3 connections |
| `channels_packets` | packets arrive whole, in their own connection, within the buffer | lengths 0, full and above the buffer; every split |
| `channels_liveness` | in an endless stream of connections no client keeps a channel for ever, and a whole packet is taken unless its client spoils it or its time is up; both unless batches are cut short for ever | 2 channels, 2 descriptors, 2 connection names in use at once |
| `lifecycle` | threads are counted; the state outlives counted threads unless the wait is given up; startup ends unless a signal comes; shutdown ends | 2 workers, 3 polls |
| `lifecycle_handshake` | violation: the main thread waits for ever | as above |
| `lifecycle_missed` | violation: a new thread is overlooked at shutdown | as above |
| `event_handler` | privilege, truthful replies, reported failures, parsed ids, memory, crashes | every command, kind, parser failure and answer; replies two deep; 3 roles |

Symmetry is used in safety runs only. The bounds are the smallest at which each limit is met: an empty stack, a full queue, a
reused descriptor, a packet as long as the buffer, a last poll.

**Fairness.** In `WorkerPool` every thread is scheduled weakly fairly and the handler returns. That it does is an assumption
about the network: the handler has no loop that could keep it, but curl has no time limit set. In `Channels` the main thread
runs, and `gettimeofday` does not fail for ever when the time of a client is up (strong fairness); time itself is not made to
pass, and no signal ends the stream, since stopping would free every channel. In `Lifecycle` only the main thread and the
logger are owed steps. Clients and signals never are. The loops turn because every wait ends: `epoll_wait` after 20 or 500
milliseconds, a worker's wait after a second.

**Endless streams.** A finite number of events or connections would make fairness hold for want of competitors. The two
liveness runs therefore give the name of an event or connection that is over to a new one (`packet_again`, `client_again`).
Their exceptions are real. `dispatch_sqe` runs only between batches, so a slot that becomes free during a batch goes to a
newcomer (`Overtakes`), and without that disjunct TLC finds a queued event that waits for ever, even when every batch ends.
`handle_events` drops the rest of a batch after `EAGAIN`, and `tcp_fd` may be first every time, so connections that are
aborted before they are accepted can keep all others from being served (`Flooded`); without that disjunct TLC finds a channel
that is never freed and a packet that is never taken.

## Findings

- `pool_assert`, `pool_idle_exit`: a worker's idle exit races the main thread's claim of its slot.
- `pool_all_busy`: a failed `pthread_create` leaves the slot neither free nor served.
- `lifecycle_handshake`: the logger can come and go before the main thread looks at the count it waits on.
- `lifecycle_missed`: a thread counts itself, so a thread that has not run yet is not waited for.

`EventHandler` also shows behaviour that no comment or test speaks about, so its properties name it as an exception:
a transport error counts as success; `skick` deletes both messages after a refused unban (and after reporting it); a photo
caption with entities that is addressed to a module, or a command that names a member, on a message without a sender, ends in
an invalid read; unknown events and failed photo replies leak their arrays; an answer without a body decides by uninitialised
memory.

## Proofs

Every invariant that a run checks, and the refinement, is also proved, for all constants that satisfy `PoolAssumption`,
`ChannelAssumption`, `LifeAssumption` and `HandlerAssumption`: sizes are at least one where the code needs it
(`validate_cfg`), names are distinct, in `Lifecycle` there are finitely many workers, and in `EventHandler` messages are
chains of replies of any length with any command words and the roles are the three that exist.

| module | results |
|---|---|
| `WorkerPoolProofs` | `TypeCorrect` |
| `WorkerPoolSlotProofs` | `SlotSafety`, `OneOwner`, `FreeSlots` |
| `WorkerPoolEventProofs` | `RaceSafety`, `NodeSafety`, `NodesAreLive`, `EventSafety`, `HandledAtMostOnce` |
| `WorkerPoolFlowProofs` | `AbortsByRace`, `FlowSafety`, `EventsAreKept`, `SlotsAreConserved` |
| `WorkerPoolRefines` | `PoolRefinesDispatcher` |
| `ChannelsProofs` | `ChannelSafety`, `ChannelTypes`, `DescriptorsAgree`, `ChannelsAreConserved`, `EverythingIsClosed`, `EventsAreFresh`, `BytesAreOwn`, `RestHasRoom`, `PacketsAreWhole` |
| `LifecycleProofs` | `LifeSafety`, `LifeTypes`, `ThreadsAreCounted`, `HandshakeCountsLogger`, `StateOutlivesThreads` |
| `EventHandlerProofs` | `HandlerSafety`, `HandlerTypes`, `OnlyThePrivileged`, `SuccessIsTrue`, `RepliesAreWritten`, `RequestsNameParsedIds`, `CrashesAreKnown`, `MemoryIsBalanced`, `RefusalEndsCommand`, `FailuresAreReported` |

**WorkerPool.** The properties are not inductive: that no two workers share a slot depends on who holds which mutex, which
depends on where every leaving worker is. `WorkerPoolInv` therefore builds the inductive invariant in layers: `SlotInv`
(tenants, mutexes, online flags, claims), `NodeInv` (a queue node is in at most one place, and in none once freed), `RaceInv`
and `EventInv` (up to the first race: who is in the handler with what, and that a pending event is pending once), `FlowInv`
(undisturbed: no event and no slot is lost).

**Channels.** `ChanInv` adds three facts to the checked properties. An open descriptor belongs to one accepted connection of
its own (`ConnsAreOwned`): without it, `recv` for one event could drain what a later event of the batch was reported for.
Nothing is received before `accept`, and a submitted packet is the last thing of its connection (`ConnHistory`). A batch being
handled is not empty. That `tss_push` is never refused follows by the pigeonhole principle from the channel not being on the
stack.

**Lifecycle.** `LifeInv` adds `BootInv`: a logger that has not counted itself keeps the main thread in the handshake, the count
compared with is zero, and no worker exists before the event loop. A count of zero then means that every remaining thread is
one that has been created and has not run yet, which is what `missed` records.

**EventHandler.** Most of its properties speak of the log of requests, and what the log may contain depends on where the
handler is. `HandlerInv` adds what connects the two. `Memory`: between load and destroy the event and the heap are exactly
what parsing the message gives. `Pointers`: a command that acts has a text event with a parsed reply, and `report` has a wild
pointer only for a photo whose caption mentions the admins. `Course`: nothing is requested before the privilege check, and requests are left to make only for a sender
who passed it. `Outcome`: after a failed request the reply buffer says so and, except for `skick`, the command is over; a
success that was sent is still in the buffer, so no call can hold both. `Reports`: the error of a failed request has been
sent, or sending is the next step. That memory balances rests on the lemma
`DestroyBalances`, about a chain of replies of any length: each call of `free` names a cell that was allocated, no two name
the same one, and what is left is `Lost`. It needs no induction, since membership of a position in `Linked` or `Destroyed`
is a statement about all positions before it.

Each layer has one lemma per group of actions, and each theorem combines them by temporal logic.

**Only model-checked:** all liveness (`EventuallyHandled`, `StopsEventually`, `ChannelsAreFreed`, `PacketsAreTaken`,
`StartsUp`, `ShutdownEnds`), which is out of the prover's reach.

## Not modelled

- Configuration and command line (`main.c`, `argv.c`, `config.c`, ...): text, read once before any thread exists.
- `lib/string.c`, `arena.c`, `shell.c`, and the wording and sizes of replies and request bodies: sequential formatting.
- `gwbot.c` and `lib/tg_api.old.c`: not built.
- Descriptors at or above `EPL_MAP_SIZE`, and structure layout other than the word `tge_get_reply_to` reads.
- `src/src/ext` (json-c, OpenSSL, MySQL, Criterion, liburing): vendored code and headers of other projects. They are most of
  the repository's lines, so the modelled share of all lines is small although most of the bot's own control flow is covered.
