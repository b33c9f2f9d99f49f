# Gusto: a verification development of its audio core

Gusto is a Cocoa front end (`src/PS*.mm`) over an in-tree copy of the Ardour 3
libraries (`src/libs`). The front end holds views; everything that is hard to
get right happens in `libs/ardour` and `libs/pbd`, where a realtime process
thread, a pool of graph threads, a disk thread (the "butler") and any number of
non-realtime threads share a session. This directory models those protocols in
TLA+, checks them with TLC on small instances and proves the most important
properties with TLAPS for instances of any size.

    tlc -config MCProcessGraph_cycle.cfg MCProcessGraph
    tlapm DiskStreamProofs.tla

## 1. Inventory

The last column names the modules; "-" is a part that is not modelled (section 6).

| Part | State it keeps | Operations | How it meets the others | Modules |
|---|---|---|---|---|
| Process graph (`graph.cc`, `graphnode.cc`) | two execution chains, trigger queue, reference counts, three semaphores | `process_routes`, `routes_no_roll`, `silent_process_routes`, `prep`, `run_one`, `finish`, `dec_ref`, `rechain`, `clear_other_chain`, `session_going_away` | called by the engine's process callback; routes are nodes; chains come from `resort_routes` | `RouteChain`, `ProcessGraph`, `RouteCycle` |
| Butler (`butler.cc`, `session_butler.cc`) | request pipe, `should_do_transport_work`, `should_run`, condition `paused` | `thread_work`, `summon`, `stop`, `wait_until_finished`, `schedule_transport_work` | summoned by the process thread, works for `session_transport.cc`, refills and flushes disk streams | `Butler` |
| Transport (`session_transport.cc`, `session_process.cc`) | position, speed, sub-state, `_post_transport_work` | locate, stop, set speed, declick, `process_with(out)_events`, `post_transport` | hands non-realtime work to the butler through a bit set and a counter | `Transport` |
| Session events (`session_events.cc`) | ordered list, immediate list, pending queue | queue, merge, process, clear by type | GUI threads queue, the process thread merges and processes | `EventLists`, `Transport` |
| Route sorting (`session.cc`) | route list in an RCU manager, `fed_by` sets | `resort_routes_using`, `trace_terminal`, `RouteSorter` | feeds `rechain` | - |
| RCU manager (`pbd/rcu.h`) | pointer to a shared pointer, dead wood, mutex | `reader`, `write_copy`, `update`, `flush` | every list the process thread reads | `RCU` |
| Ring buffers (`pbd/ringbuffer*.h`) | two indices | read, write, vectors | disk streams, pools, UI requests | `RingBuffer` |
| Pools (`pbd/pool.cc`) | free list, cross-thread pending list | alloc, release, trash | session events, MIDI events | - (a cell of `EventLists` stands for an event of a pool) |
| Event loops (`pbd/base_ui.cc`, `abstract_ui.cc`) | per-thread request buffers, invalidation records | send, handle, invalidate | signals delivered to other threads | - |
| Undo history (`pbd/undo.cc`) | undo and redo lists | add, undo, redo, set depth | session commands | - |
| Disk streams (`*diskstream.cc`) | playback and capture positions, buffers | process, commit, refill, flush, seek | process thread against butler | `DiskStream` |
| Playlists and regions | region lists, pending notifications | edits, freeze, thaw | GUI, butler | - |
| Routes, processors, tracks, ports | signal path, solo and mute | processing, configuration | nodes of the graph | - (a route is an atom of the graph) |
| Slaves (`*slave.cc`) | smoothed position and speed | follow | transport | - |
| Session files, sources, import, export, tempo map, plugins, MIDI parser, control surfaces, UI | | | see `PROJECT.json` | - |

What is hard here: threads that synchronise by counters and semaphores rather
than locks (the graph), two threads that hand work to and fro through two
variables updated separately (the butler), iterators and pointers kept across
calls that may free their target (events, RCU), signals on condition variables
that do not say what they answer, and thread-ending protocols that must reach
every thread wherever it is.

What makes each part correct:

* graph: each route once per cycle, after its feeders; a call returns exactly
  when its own cycle is over; no wake-up is lost; the running chain is not
  edited; editors and shutdown get through;
* butler: the process thread takes work for finished only when it is; no
  request is forgotten; waiters are answered, and only when what they waited for
  is true; a stop stops;
* events: an event is processed in frame order, once, at its frame, and is not
  used after it is freed;
* transport: a stop stops and a locate lands, whatever is in progress; nothing is
  rolled before the tracks have been sought to where the transport is;
* disk streams: what is played is the playlist without a gap, what is recorded
  reaches the file in order, and a region plays what was recorded where it lies;
* RCU: a reader never sees a freed list, writers do not lose updates; ring
  buffers: what is read is what was written, in order.

`PROJECT.json` lists every component, modelled or not, and the hazards at the
lines where they bite.

## 2. Modules

### RouteChain, ProcessGraph, RouteCycle

`RouteChain` is what `Graph::rechain` computes from a sorted route list: which
route wakes which (`act`, the activation sets without connections that go
against the order), how many feeders a route waits for (`refs`), which routes
start a cycle (`trig`) and how many must end before it is over (`fin`). The two
overloads of `is_feedback` differ when both routes are the same; so do
`FeedbackOut` and `FeedbackIn`.

`ProcessGraph` is the scheduler. One action is one section that is atomic for
the other threads:

| State | Code |
|---|---|
| `chain`, `current`, `pending`, `setup` | `_nodes_rt`, `_init_trigger_list`, `_init_finished_refcount`, `_activation_set`, `_init_refcount`, `_current_chain`, `_pending_chain`, `_setup_chain` |
| `queue`, `tokens` | `_trigger_queue`, `_execution_tokens`, under `_trigger_mutex` |
| `execSem`, `startSem`, `doneSem` | `_execution_sem`, `_callback_start_sem`, `_callback_done_sem` |
| `finRef`, `refcount` | `_finished_refcount`, `GraphNode::_refcount` |
| `pc`, `node`, `todo`, `iter` | the place and the locals of each graph thread |
| `edit` | the threads in `rechain` and `clear_other_chain`; "rechain" and "clear" hold `_swap_mutex` |
| `ran` | a history variable: the routes processed since the last `prep` |

The trigger queue and the trigger list are sets: any ready route may be taken
first, which includes the code's stack order. What a route does is one step.

`GraphNode::finish` iterates over an activation set of the chain in use, and other
threads may end the cycle, begin the next one on the other chain and let an editor
clear that set before the iteration is over. `iter` is the chain the set belongs
to; `Rechain` and `ClearOtherChain` make it `Freed` in every thread that is still
there (`FreeIterators`). What such a thread does next is undefined: in the model its
loop ends, or it never does (fairness does not hold for it). That it wanders into
routes of another set is left out.

`RouteCycle` is the abstract specification: a call runs each route of one chain
once, in feeding order, then returns. `ImplementsCycle` is the refinement: the
phase of a call is read off `engine`, `doneSem`, `startSem` and the program
counters, `net` is the current chain, `done` is `ran`.

### Butler

`Butler` models the butler thread with its pass structure (transport work, the
refill loop, the flush loop, the restart tests between and after them), the
process thread as far as it schedules and collects transport work, the thread
that runs `engine_halted` (from the engine's Halted signal or from
`xrun_recovery`, during which the process thread goes on) and the GUI thread that
starts an export.

| State | Code |
|---|---|
| `jobs`, `bits` | `should_do_transport_work`, `_post_transport_work` |
| `pipe` | what is in `request_pipe`: the last Run or Pause, else Wake; Quit hides the rest |
| `waiting` | threads inside `paused.wait` |
| `bpc`, `shouldRun`, `err`, `outstanding`, `onEntry`, `taken` | the butler's place and its locals `should_run`, `err`, `disk_work_outstanding`, `on_entry`, `ptw` |
| `rt`, `halt`, `gui` | the places of the other three threads |
| `undone`, `quiet` | history variables, named in the module |

Whether a track wants more refilling or flushing and whether a flush fails are
free choices. `Anytime` are the requests `process_event` lets through while work
is pending (locates); `WhileRolling` are those that audio processing makes by
itself.

### RCU

`RCU` models one object under a `SerializedRCUManager`: writers that open and
leave `RCUWriter` scopes or flush, and readers. `reader()` is two steps, `Load` of
the address and `Copy` of the `shared_ptr` found there, because `update` may
delete that `shared_ptr` in between.

| State | Code |
|---|---|
| `gptr`, `cell` | `x.gptr`, and the `shared_ptr` allocated at each address |
| `dead`, `lock`, `old` | `m_dead_wood`, `m_lock`, `current_write_old` |
| `copy`, `new` | `m_copy`, `new_spp` |
| `held`, `addr` | what a reader's `shared_ptr` refers to; the address it loaded |
| `contents` | the managed object: the set of edits it includes |
| `kept` | copies to which something outside the scope holds a reference |
| `done`, `since`, `swept` | history variables, named in the module |

A version is referred to by a cell, a scope, a reader, the dead wood or something
outside; it is destroyed when none is left. Addresses are used again. A reader
that copies from an address where nothing is allocated is lost: what it does then
is undefined, and no property but `ReaderObtains` speaks of it. Cleaning the dead
wood and copying are one step, since no reader can gain a reference to dead wood
during it.

### EventLists, Transport

`EventLists` is `session_events.cc` and the list half of `SessionEvent`: a session
is a record, its events live in numbered cells, and each list is a sequence of
cells. A pool reuses cells in the order they came back, so a deleted event keeps
its contents for long; `New` takes a cell that nothing refers to, and `live` says
which are allocated, which is how a use after a deletion shows. `list::sort` is
stable: `Arranged` puts an element at the place given by the number of those that
come before it, by key and then by position.

`Transport` composes three parties: the user's threads, which queue requests; the
process thread (`Session::process` down to `process_with_events` and
`process_event`); and `butler_transport_work`. The handlers call one another
freely (an auto loop locates, a locate stops, a stop replaces an event), so each
is an operator on the session's record and an action applies the composition to
`s`. A cycle is one action for each event merged or processed and each part
rolled; the butler's transport work is one for each read or write of what it
shares with the process thread, and the two interleave.

| State | Code |
|---|---|
| `s.events`, `s.immediate`, `s.pending`, `s.next` | `events`, `immediate_events`, `pending_events`, `next_event` |
| `s.frame`, `s.speed`, `s.loop`, `s.range`, `s.rec` | `_transport_frame`, `_transport_speed`, `play_loop`, `_play_range`, `_record_status` |
| `s.sub`, `s.plocate`, `s.proll` | `transport_sub_state`, `pending_locate_frame`, `pending_locate_roll` |
| `s.work`, `s.count`, `s.lastRoll` | `_post_transport_work`, `should_do_transport_work`, `_last_roll_location` |
| `pc`, `left`, `this`, `the_next_one`, `end_frame`, `stop_limit` | the process thread's place and the locals of `process_with_events` |
| `bpc`, `on_entry`, `ptw` | the butler's place and the locals of `butler_transport_work` and `non_realtime_stop` |
| `disk` | the position the tracks play next |
| `s.punchIn` | the option `punch_in` |
| `s.want`, `s.goal`, `s.astray`, `asked` | history variables, named in the module |

The assumptions on the constants are those of the code's callers: `Replace` is only
asked for types that exist once (`session_events.cc:134`), an `Add` either is carried
out at once or is of a type that stays in the list, and the end of a range is not
so early that its event would be an immediate one.

An erased list node may lead anywhere, so `AfterErased` chooses any cell of the
list or its end. The scheduling of work is abstracted here from `Butler`, which
models it in full: a request is a counter, the pipe that wakes the butler is left
out, and a butler that has been asked gets to work.

The configuration is the default one: no external sync, no seamless loop, no
latched record enable, no auto play, stop at the session's end; `punch_in` is on or
off (`PunchIns`) and `punch_out` is on. Speeds are 0 and 1, and `Overwrite` stands for
`overwrite_some_buffers`. A stop request's `abort` and `clear_state` are left out:
`stop_transport` drops the second when it schedules a declick (a hazard in
`PROJECT.json`).

### RingBuffer, DiskStream

`RingBuffer` is the arithmetic of `RingBufferNPT`: spaces, vectors and increments,
as functions of the two positions, and the copying of a run of frames into and out
of a vector.

`DiskStream` is one armed track at speed 1 with existing-material alignment, as
the process thread and the butler share it. A playback cell holds the number of
the frame it was read from and a capture cell that of the frame its input came in
at, so a gap, a repetition or a displacement shows in the data.

| State | Code |
|---|---|
| `pr`, `pw`, `pcell` | the playback ring: `read_ptr`, `write_ptr`, `buf` |
| `cr`, `cw`, `ccell` | the capture ring |
| `d` | the stream's members, listed at the head of the module |
| `t` | what the transport does to the track: position, rolling, recording, the wait for input (`StopPendingCapture` and the `StopOnce` event), declick, the work it has for the butler |
| `file`, `regions` | the write source since the last stop, and the regions the last stop made |
| `bpc`, `ptw`, `vector`, `toRead`, `outstanding` | the butler's place in a pass and the locals of `_do_refill` |
| `summoned` | a request in the butler's pipe |
| `slipped`, `broken`, `dropped`, `commands` | history variables |

`Play` is `process` and `commit`, `Overrun` and `Underrun` their early returns,
`NoRoll` is `Track::no_roll`. `RefillLook`, `ReadFirst` and `ReadSecond` are the
three places where `_do_refill` meets a process thread that moves the read
position meanwhile. `Seek` is the resetting of both rings, which the process
thread cannot observe half done since it does not roll while the work is pending.

`StopTransport` is `stop_transport` with its three branches: a recording whose input
is longer on its way than a block rolls on until a `StopOnce` event (`WaitForInput`),
otherwise the output is declicked, otherwise the transport stops; the first of them
that comes sets the end of the take (`PrepareToStop`). No relation between
`CaptureOffset`, `OutputLatency` and `Block` is assumed.

Three history variables are the exceptions of the properties, each raised by a step
of the code: `slipped` when the process thread takes more than there is (only a
cycle that does not record all of its input looks) or when an overwriting is not
`InPlace`; the next seek clears it. `broken` when

* input is lost, by an overrun or by an underrun while recording;
* the first part of a take wraps in the capture ring (`Misplaces`);
* a stop or a punch-out moves the end of a take on after the transport has gone past
  it (`Reopens`);
* the user punches in again, or locates, while a take is `Capturing`;
* a seek finds the capture ring not empty, which raises `dropped` too.

The next seek that finds nothing left of a take (`NothingTaken`) clears both.

## 3. Runs

| Run | Instance | Question |
|---|---|---|
| `graph_cycle` | 3 graph threads, 1 editor; r1 and r2 feed r3 | order, once only, sleepers counted, no lost wake-up, refinement of `RouteCycle` |
| `graph_live` | 2 graph threads, 1 editor, shutdown; a fork with two ends, and a feedback loop | the pairing of calls and cycles, the running chain, and all the liveness properties |
| `graph_self_fed` | a bus with an input, connected to itself | a cycle that never ends (finding) |
| `butler_work` | process thread and butler, 3 requests of 5 kinds | the hand-over protocol, safety and liveness |
| `butler_others` | with a halt and an export, 2 requests | waiting for the butler and stopping it |
| `butler_halt` | with a halt, 1 request | `engine_halted` never returns (finding) |
| `rcu_scopes` | 2 writers, 1 of them careless, 4 scopes, 1 reader, 2 addresses | no lost update, fresh and stable reads, who destroys, size of the dead wood, writers get through |
| `rcu_reader` | the same | a reader whose `shared_ptr` is deleted under it (finding) |
| `transport_lands` | 3 of 12 requests or armings, also while rolling, punching in or not, a loop, two ranges, a recording latency longer than a block | sound event lists, declicks, locates and stops that land, tracks at the transport's position, no event passed |
| `events_queued` | 3 of 5 requests, punching in | an event queued for later and deleted (finding) |
| `disk_ring` | rings of 7 and 4 cells, chunks and blocks of 3, a capture latency of 1, an output latency of 4, 2 commands | read-ahead, captures in order, regions that play their take, every chunk served |
| `disk_locate` | rings of 5 and 4, chunks and blocks of 2, 3 commands | a locate that drops the rest of a take (finding) |

Bounds. Three graph threads are the least with which two wake-ups can be in
flight while a third thread sleeps, and three routes the least for a join (two
decrements of one count) and a fork (two ends of one cycle). Chains, semaphores
and counters are not bounded: their state space is finite. In `graph_cycle`
threads and editors are symmetric; the run has no liveness property. Three
requests make the butler see one request while it works on another and a third
between its tests; the counter below zero is cut at `-MaxRequests - 1`, where
only its sign matters. Four scopes make one version more than the dead wood may
hold in that instance; with two addresses every update but the first uses one
again.

Transport: three requests are a command, one that overtakes it and one that meets
what both left behind; at any point of the cycle and of the butler's work. A block
of 2 frames lets an event fall inside a block, a latency of 3 makes a recording
stop wait for a cycle, and the loop (1 to 4) and the two ranges end before the
session does (7), which ends before the last frame (9). Seven cells are enough for
the events of three requests; a request waits while there is none.

Three requests are also enough for a recording to begin while a locate waits for its
declick (start, locate, arm while rolling), the case that `astray` names.

Disk: a ring of 7 holds two chunks of 3 and the free cell, so that both parts of a
vector occur with every alignment; a capture ring of 4 is full after one chunk.
With blocks of 3 and a take that begins 4 frames after its start, the first frame of
a take falls inside a block; an output latency longer than a block makes a stop
wait for its input, and one that differs from the capture latency sets the two
ends of a take apart. Frames are bounded by `LastFrame` (8, more than the ring once
round), commands by 2, not counting stops. `disk_locate` needs a third command and
keeps to blocks of 2.

Deadlock is not checked: a session that has gone away, or
whose request bound is used up, stops.

Fairness. Every thread that can take a step eventually takes one (the threads are
created by the session and the scheduler is not modelled). `SF` on
`Reacquire` says that an editor gets the swap mutex that `prep` only tries; `SF`
on a non-silent `CallCycle` says that JACK keeps calling while the session is
attached. For the butler, `SF` on a refill or flush that leaves nothing to do
says that the disk keeps up from time to time; without it passes may restart for
ever, as they would in the code. A writer inside a scope goes on, and one that
waits for `m_lock` gets it if it stays free; scopes being bounded, the run shows
that writers do not stall, not that the mutex is fair to them (`rcu.h:91` leaves
their order open). Readers need not go on for writers to.

A graph thread whose iterator is `Freed` is the exception: its fairness is
`WF_vars(iter[t] # Freed /\ Thread(t))`, and the liveness properties of the graph end
with `\/ Undefined`, for nothing is promised once such a thread exists.

`Transport` and `DiskStream` state fairness as weak fairness of each thread (the
engine calls the process callback once per block, the butler's thread runs when it
has been asked), with what enables the thread written out (`ButlerEnabled`,
`ProcessMay`, `ButlerMay`) in place of `WF`, whose `ENABLED` TLC would have to work
out from handlers nested many levels deep. Nothing is assumed of the user.

`ShutdownAfterCycleReturns` and the three butler invariants with `Undisturbed`
state their precondition in the formula. Dropping the first one makes TLC find
that `session_going_away` hangs if `main_thread` has not yet run a non-empty
cycle: it leaves its start loop, runs a cycle, and sleeps on a semaphore whose
post another thread has taken. Dropping `Undisturbed` leads to the negative
counter of the finding.

## 4. Findings

Five runs end in a violation, each of a statement the code makes in a comment:

1. `session.cc:1351-1355` "so don't bother checking for self-feeding": `rechain`
   does see such a connection and the route waits for itself (`graph_self_fed`).
2. `session_transport.cc:1428` "make sure the butler is out of the picture":
   zeroing the counter while the butler is about to decrement it makes it
   negative and the butler unstoppable (`butler_halt`).
3. `rcu.h:36` "may be used for reading, without synchronization": the address
   that `reader()` loads may be freed before it copies from it (`rcu_reader`).
4. `session_process.cc:956-959` "we'll just have to queue this event for a time when
   the change is complete": `process_event` puts it on the immediate list and then
   removes it from the event list, which deletes it: the immediate list designates a deleted event
   (`events_queued`).
5. `audio_diskstream.cc:1355` "there may be work to do to
   flush remaining data to disk": a locate that arrives while the butler has not yet
   begun on the stop of a recording is carried out first, and its seek resets the
   capture ring, with the rest of the take in it (`disk_locate`).

`PROJECT.json` quotes each line in full.

`rcu.h:237` says of a scope that leaves a reference to its copy behind that this
"will not actually break anything"; it leaves the writers' lock locked, which
`WritersProceed` has as its exception. No scope in `libs/ardour` does so.

What the properties leave out by name, because the code does otherwise. All of it
is in the formula of the property concerned, reached by the model, and a hazard in
`PROJECT.json`; there is no run of its own for it.

* `RunningChainStable`: the last step of an iteration in `finish`, from the last route to
  `end()`, may come after the cycle is over and in a set that was freed.
  `graph.cc:185` "we are the only thread alive" is not so. The liveness properties of
  the graph make the same exception (`Undefined`).
* `PlaysFromPosition`, `LocateLands`, `NoEventPassed`: a recording that begins while a
  locate waits for its declick (`astray`). `locate` of a rolling transport sets
  `_transport_frame` at once and says "we'll be called again when its done"
  (`session_transport.cc:796`); the second call returns at its first test
  (`actively_recording`, line 773). The transport then rolls and records at the new
  position while the tracks play on from the old one. A start, a locate and an
  arming while rolling are enough, as are a punch-in event behind the target or the
  roll of a pending locate.
* `LocateLands`: the last block before the session's end. The declick of a locate
  there rolls past the end, and `maybe_stop` makes a stop of the locate.
* `NoEventPassed`: the `StopOnce` of a recording that the end of a range stops in
  mid-cycle, which is inserted behind the iterator that walks the list.
* `NoStaleDeclick` speaks of the flags of a declick and of the locate behind it.
  `StopPendingCapture` may outlive its stop: record, stop, punch out, locate and
  roll; `start_transport` does not clear it, and the next stop of a recording does
  not wait for its input.
* `CapturedInOrder`, `StopKeepsTake`: the cases of `broken` (section 2). `Misplaces` is against
  `audio_diskstream.cc:508-510` "only copy what we were supposed to for recording, and use
  rec_offset": the branch for a range that wraps copies from the beginning of the
  port's buffer (line 530). `Reopens` comes of `prepare_to_stop`, which sets the end of
  the take to where the transport is plus `_capture_offset` (`diskstream.cc:673`) also
  when an earlier end has been passed.
* `WritersProceed`, `ReadersDestroyNothing`: scopes that leave a reference behind, and
  flushed versions.

Two more disagreements of code and comment that no property is about:

* `session_transport.cc:1051` "we need to capture the audio that has still not yet been
  received by the system at the time the stop is requested, so we have to roll past that
  time": the transport does, but the take ends at the stop plus `_capture_offset`,
  while it began at its start plus the larger of `_capture_offset` and
  `_worst_output_latency`. With the second larger, as in `disk_ring`, the input that is
  rolled over is not captured. The frames that are captured lie where they should.
* `process_with_events` may process an event that was deleted: while ranges are played,
  the declick of a stop ends in mid-cycle, and its `realtime_stop` clears the
  `RangeStop` or `RangeLocate` that `this_event` designates
  (`session_process.cc:379-390`). The pool keeps the contents, so that it is processed as if
  it were there.

## 5. Proofs

`ButlerProofs` proves every safety property the runs check of `Butler`, for any
set of requests, any bound and with both other callers. The argument:

* `Types` and `Flags` are kept by every step; no step makes a state
  `Undisturbed` that was not.
* `Protocol` is the inductive core. Neither "`post_transport` only runs when all
  is carried out" nor "what is not carried out is counted" is inductive: one
  needs that the counter is positive while the butler is inside
  `butler_transport_work`, that `onEntry` lies between 1 and the counter, that
  what the butler took is a subset of the bits, and that a counter of zero, which
  lets the process thread collect, leaves nothing taken. The interrupted branch,
  which decrements and starts over, is safe because a counter different from
  `onEntry` is larger than it.
* `Served`: where each waiter is, hence that at most one waits, hence that the
  one signal reaches it.
* `Stopping`: after a Pause that no summons has followed either the Pause is
  still in the pipe or `should_run` is false; a waiter signalled too early left
  the butler at its poll.

`ProcessGraphProofs` proves for any routes, threads and editors that the chain a
cycle runs on is never written (`RunningChainUntouched`, from `setup # current`), also
for the route lists that let a cycle go wrong,
and, as groundwork, that what `rechain` builds is a chain and that every step
keeps the types as long as threads process routes of the current chain. The
proofs use the named assumptions of the constants: finite sets of routes and
threads, `Main` not a helper, and that `rechain` is given a list of routes whose
`fedBy` lies in the list and contains at least the direct feeders.

`GraphCycleProofs` proves every other invariant the runs check of the graph, its
type invariant included, and the refinement of `RouteCycle`, for any routes,
threads and editors. `IInv` is inductive while the session is alive; a session
that goes away keeps `Ended`, which is what the threads need to exit. Its parts:

* `Sound`: every chain is `Grounded` (from every route a path of activations
  leads to a route that feeds nobody, so that `fin` counts something) and its
  counts are those of its edges. That `rechain` builds such chains is
  `RechainedIsGrounded`: an activation goes forward in the order of the list, so
  a least counterexample would have a successor.
* `Baton`, `Quiet`: a cycle is parked, asked for, prepared, running or over, and
  exactly one thread, semaphore or queue carries it; otherwise nobody has a route
  and the counts are untouched.
* `Placed`, `Triggering`, `Counted`: each route of a running cycle is waiting, in
  the queue, with a thread or finished, and a waiting route's count is the number
  of its feeders that are unfinished or have not come to it yet in `finish`.
  `FeedersFirst` and `RunsOnce` follow from these and from neither alone: a count
  that reaches zero does so in one thread.
* `Finishers`, `Released`, `Ending`: `finRef` is the number of ends that have not
  been counted off; the thread that takes it to zero is the only one that may
  prepare the next cycle.
* `Paired`: calls, the callback semaphores and the phase of the cycle agree.

`IterationsUndisturbed` (`RunningChainStable`) adds `IteratesCurrent`: a thread with routes to
notify iterates in the current chain. A cycle is prepared only when all its
routes are finished and no count is left to take down, so such a thread keeps it from
ending; and editors write to the other chain.

The abstract phase, chain and set of routes done are read off these, and each step
of `CyclingSpec` maps to a step of `RouteCycle` or leaves it unchanged.

All of it has one hypothesis, `OrdinaryLists`: no list given to `rechain` is empty
and no route feeds itself. Both are necessary. For a route that feeds itself
this is finding 1; a route that *only* feeds itself triggers itself again at
its end and breaks `RunsOnce` and `DoneMeansAll`. With an empty list among the
inputs TLC violates `OneCycleAtATime`, `DoneMeansAll`, `RunsInsideCall` and `RunsOnce`:
the thread that has prepared a cycle tests `_graph_empty` (`graph.cc:208`) after others
may have run it and prepared the next one, and if that one is empty
`_callback_done_sem` is posted twice. Sessions with a master bus never have an
empty list; `remove_route` (`session.cc:2041`) can leave one in a session without.
(The empty graph a session starts with is included; what is excluded is changing
to one.)

The theorems are about safety: a feedback loop of three routes with another
feeder (`f`-`h`, `h`-`n`, `n`-`g`, `g`-`h`) satisfies all of them and never ends, for
`n` is neither counted down nor triggered (`graph.cc:284-303`, a hazard in
`PROJECT.json`).

`RCUProofs` proves every safety property the run checks of `RCU`, for any
readers, writers, addresses and number of scopes. `Inv` says who may touch what:
a version is its writer's alone until the edit is made (`Private`), between
`write_copy`'s lock and `update`'s unlock the writer knows the current cell and has
a superset of its contents (`Updating`), what can be found at a loaded address is
never older than what the reader is owed (`Fresh`, which is where reuse of
addresses comes in), and what is held is current, dead wood or flushed
(`Retained`). The bound on the dead wood adds `Apart` (dead versions have no
address, and copies left behind never get there) and `Counted`, by a surjection
from readers and writers onto what `write_copy` leaves.

`RingBufferProofs` proves what the arithmetic of the ring guarantees for every size:
exactly one cell is in neither space (`SpacesAddUp`), a writer or a reader that
stays in its space moves that many cells from the one to the other
(`AfterWriting`, `AfterReading`), one that does not leaves almost a whole ring of
stale cells (`Overtaking`), the parts of a vector are the cells in their order
(`VectorGoesRound`, which settles the question whether the wrap test `cnt2 > size`
should have been `>=`: it need not), and what is copied in is what is read, with
what was there before unharmed (`WrittenIsRead`, `PartIsRead`); as sequences, a writer
appends to what the reader has (`WritingAppends`) and a reader takes the front of it
(`TakingShortens`). They all come down to two facts on the modulus, `Once` and `Twice`.

`DiskStreamProofs` proves `ReadAhead` for rings, chunks, blocks and latencies of any
size and for any commands of the user. The property alone is not inductive: that a refill
continues the ring where it ends needs `Follows` (`file_frame` is `playback_sample`
plus the read space), and that it does not overwrite what has not been played needs
that the parts seen by `RefillLook` are still free when they are filled
(`FirstFree`, `SecondFree`), although the process thread has moved the read
position: it can only have made more room. `Reading`, `Part` and the others carry
`RingBufferProofs` over to the playback ring.

Of the capture side it proves `TypeOK`, `CapturedInOrder` and `StopKeepsTake`, for any
sizes, latencies and commands and with no exception but those in the formulas.
`TakeSafe` is the inductive part:

* `Working`: a transport that does not roll either has a stop on its way through the butler or
  has no take; a declick is only rolled while it rolls. This is what makes
  `start_transport` find the last take finished.
* `Take`: while it rolls, either no take has begun, or as many frames are captured as
  lie between the first recordable frame and where the transport has come to, cut off at the
  last recordable one (`Reached`); and the end is open as long as the record status
  last seen was on (`Ending`). A stop that waits for its input sets the end while the
  transport rolls on, before or after it has come to what is captured then; `Reopens`
  is what is left of the cases in which it had gone past.
* `NotBegun`: a locate that waits for its declick found no take, so that the jump
  of the position does not cut one.
* frames are counted only while recording, and as many as are in the file and the ring, which
  holds also when `broken`, as long as nothing was `dropped`.

`CheckedTake` shows that what `process` makes of it first (`check_record_status`) keeps
`Take`; `Rolls` that a cycle does; `GoesOnThere` that the frames a cycle copies are the next
ones of the take. What is in the file and the ring is compared with the captures by
`FramesBefore`, a sum over their list: `FramesBeforeIs` is its recurrence, and the
inductions on it are done with sets of numbers (`UpTo`), the induction theorems of the library
being out of the provers' reach. TLC has checked `TakeSafe` as an invariant of `disk_ring`.

`EventListsProofs` proves what each operation on the lists does, whatever events are in
them. `Listed` is what they rely on: the event list is in order of frames, without
repetitions, its events are allocated, `next` is one of them or the end. Merging,
replacing, removing, clearing and deleting keep it and say which events stay,
move or go. The rest is about ranks: that `Arranged` is a permutation in order
of the key (`Arranging`), from the fact that ranks are distinct and below the number
of elements (`Ranks`).

`TransportProofs` proves every invariant `transport_lands` checks, and its action property, for
any requests, block, latency, loop and ranges. The handlers being operators on a
session, each has a lemma that it keeps what it needs from the next, in the order in which they
call one another (`RealtimeStops`, `StopHolds`, `SpeedHolds`, `LocateHolds`,
`LoopHolds`, `RangeHolds`, then `HandledHolds` for any event); each action has
one that it keeps `IInv`. Its parts:

* `Lists`: `Listed`, and `Waiting`: the events that wait to be merged, or that the
  process thread holds between two steps, are allocated, of known types, and in no list that
  a handler called meanwhile deletes them from. `EventListSound` alone is not inductive: merging an
  event that is already in the list, or was deleted, would break it.
* `Fresh`: no declick at rest, and a locate that waits does so for a declick.
* `Posted`, `Owed`: a posted stop has stopped the transport, as has a posted locate that
  is not to roll; the butler works on a subset of what is posted, and its counter
  has not fallen below what it found on entry.
* `Placed`: the tracks are where the transport is; or the transport is at
  `max_frames`, where its position stands still; or a stop or locate is posted whose seek
  is still to come, because the butler has not taken it up, is on its way to the
  seek, or was asked again and will start over (`Awaits`); or a locate waits for its
  declick. `PlaysFromPosition` speaks of the first only, in the states where tracks
  are about to roll.

`LocatesLand` (`LocateLands`) needs two parts more, in `LInv`, because `IInv` says where
the tracks will be but not where the transport was to go:

* `Aims`: a frame that was asked for, unless it is so near the end of the session that the
  end's stop may intervene, has been reached at rest; or the transport is there already
  and waits for its declick, nothing being recorded; or a locate that rolls is posted.
* `Halts`: within a cycle the transport is at rest only if a stop is posted. This excludes that an
  event in the middle of a cycle's rolling moves a transport that has landed.

Both are kept by every handler that calls others (`Steers`, transitive), so that the lemmas follow
the calls as above; only `locate` and the start of the transport need to look at the frames.

`EventsNotPassed` (`NoEventPassed`) needs to know where `next_event` and the iterators are, in
`PInv`. An event is ahead if its frame is beyond the transport's:

* `Finding`: between cycles no event ahead is before `next_event`, or the session is busy: a stop
  or locate is posted, whose end sets `next_event` anew, or a locate has moved the position and waits
  for its declick.
* `Walking`: within a cycle the event at hand is the first that is not behind the transport, and the
  iterator is at the one after it, as long as anything is ahead; an event processed here is the only
  one that its own handler may erase (`Beyond`), unless the session is busy afterwards.
* `Once`: a `StopOnce` is in the list only while a recording rolls on for its input. Without it
  the handler of another event could put a second one in place of the first, and erase that.

Every handler keeps `Finding` and `Once` (`Sees`, transitive) and, if a cycle may be on its way, leaves the
other events where they are (`Along`). A part that is rolled ends at the event at hand
(`PartLength`), so that it passes none. That users queue no `StopOnce` is part of
`RequestAssumption`: only `stop_transport` makes one (`session_transport.cc:1059`).

A recording that begins while a locate waits for its declick is what all three
have to live with: `astray` is a disjunct of `Placed`, makes the session busy in `Finding` and `Walking` until
something seeks the tracks, and comes with an end of what was wanted, so that `Aims` asks for
nothing. `RecordSteers`, `PunchOutSteers`, `RecordSees`, `PunchOutSees` and `RollStrays`
are the lemmas on the steps that begin and end it.

The theorems have these hypotheses. `NeverDry`: whatever finite set of cells is in use, one is left.
An event pool that runs out ends the program (`pool.cc`), so what happens
after is not worth a statement; the runs, which have seven cells, let a request wait
instead. Only `LocatesLand` has a second, `AutoReturn = FALSE`: a stop that returns to
where the roll began takes the transport away from the frame last asked for, as it should,
and TLC violates the property at once. TLC has checked `IInv`, `LInv` and `PInv` as invariants
of `transport_lands`, and `IInv` and `PInv` of the same with `AutoReturn`.

Only model-checked: `StopLands` of `Transport` and the other liveness properties (TLAPS proves no
liveness here).

## 6. Not modelled, and the plan

Not modelled within the modelled parts:

* graph: which free thread takes a route is left open, and what a route does is one
  step; a thread with a freed iterator does not go on into foreign routes; several
  editors that wait at once have no run;
* butler: several waiters of one signal at once (`WaiterIsServed` excludes a halt
  during an export);
* transport: varispeed and reverse, slaves and MTC/MMC, seamless loops, latched
  record, auto play, export's own locate, preroll, cue points, `realtime_stop`'s
  abort; the work that `realtime_stop` and the `locate` that calls it add is one step, where a
  butler in a pass could read the first without the second; a stop that returns to where
  the roll began is in the model and in the proofs but in no run;
* disk streams: destructive (tape) tracks, loops, reverse, alignment with capture
  time, disarming while rolling, aborted takes, write errors, MIDI; a stream of
  several channels does in each what it does in one;
* ring buffers: `read` and `write`, which copy through the same arithmetic as the
  vectors; the power-of-two `RingBuffer`; memory ordering.

Next, in this order:

1. `RouteSort` (TLC only): `trace_terminal` and `RouteSorter` against the order
   `RouteChain` needs, feedback included.
2. `AbstractUI`: requests, invalidation, recursive handling.
3. `Pool`: cross-thread release and the trash, on top of `RingBuffer`.
4. Undo history and the delayed notifications of playlists.

Not planned: signal processing, file formats, plugin hosts, control surfaces and
views (see the notes in `PROJECT.json`); JACK and the operating system are
external.
