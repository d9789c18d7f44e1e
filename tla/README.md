# A TLA+ model of ssh-obi

ssh-obi keeps a login shell alive on a remote host across dropped SSH
connections. This directory holds TLA+ modules for its core logic, TLC
configurations that check them on small instances, and TLAPS proofs of the
properties that matter most for all instances. `PROJECT.json` lists components,
runs, mutants, the map from definitions to source lines, findings, hazards and
theorems. Paths below are relative to the repository (`src/README.md` is its
README).

## The system

| Part | State | Operations | Talks to |
|---|---|---|---|
| **session daemon** (`src/daemon.rs`) | `DaemonState` under a mutex: registered broker, attach token, replay ring, last detach time, shutdown flag; the PTY master under a second mutex | accept connections; answer CAPABILITIES, DAEMON_INFO_REQUEST, DETACH; attach a broker; forward PTY output, type input, resize; reap the shell | brokers, detach helpers and listers over a UNIX socket; the shell over the PTY |
| **replay buffer** (`src/daemon.rs`) | a ring of bytes with a capacity | `append`, `snapshot` | the PTY reader appends, an attaching thread snapshots |
| **broker** (`src/server.rs`) | negotiated keepalive, pending window size; then two proxy threads and a keepalive monitor | list sessions, launch a daemon, attach, proxy, detach, answer PING | the client over stdio (ssh), the daemon over the socket |
| **client** (`src/client.rs`) | session to return to, attempt number, backoff, keepalive deadlines | connect, choose a session, attach, run the attached loop, reconnect | ssh child process, terminal, broker |
| **client stdin control** (`src/client.rs`) | pause flag and acknowledgement under a mutex with a condition variable | pause, resume, deliver input to the attempt | stdin thread, main thread |
| **socket directory** (`src/session.rs`, `src/server.rs`, `src/daemon.rs`) | one socket file per session | list, probe and unlink stale sockets, bind, generate ids | every daemon, every lister |
| **session selection** (`src/session.rs`) | none (pure) | `auto_select`, `auto_select_existing`, picker rows | the client |
| wire protocol, PTY set-up, foreground probe, terminal, systemd scope, bootstrap script, command line | none worth a model | encoding, OS calls, text | |

What makes it hard: the daemon runs one thread per connection beside a PTY
reader, a child waiter and an accept loop, all sharing one mutex, and does its
socket and PTY writes *outside* it with writers cloned inside it. Peers die,
half-close, stop reading and reconnect at any moment; the shell may stop reading
or exit. The client retries with backoff while the daemon may still hold its
previous broker; two timeouts (the client's for PONG, the broker's for PING)
run independently.

What must hold, part by part:

- *daemon*: one registered broker at a time; a registration is removed only by
  its owner, by a DETACH or because its connection is dead (the code does not keep
  the last part: finding 1); nothing the shell prints is lost or doubled for an
  attached client, and live output arrives in order (that it comes after the
  replay the code does not ensure); the replay ring is exactly the recent output;
  the PTY is always drained; mutexes held over blocking writes are released; the
  process ends with the shell.
- *broker and client*: a dead connection is noticed and the session released; a
  live one is not torn down; reconnection reaches the same session or ends
  (that it ends when the session is gone the code does not ensure: finding 2).
- *stdin control*: ssh has the terminal to itself between attempts; input that was
  read for a lost connection is not sent on the next one; pause and resume return.
- *socket directory*: the socket of a live daemon is not unlinked, except in the
  window between `bind` and `listen`, which the code leaves open; a listing that
  succeeds is complete and has removed what was stale.
- *selection*: the number shown on a row is the one that picks it, in both prompts.

## Modules

| Module | Models |
|---|---|
| `ReplayBuffer` | `ReplayBuffer::new` and `append` as operators on sequences |
| `Daemon` | the running daemon: accept loop, PTY reader, child waiter, one thread per connection, with arbitrary peers and shell |
| `MCDaemon` | `Daemon` for TLC, with connections interchangeable |
| `Session` | the abstract session: who is registered, what each client has been sent |
| `DaemonRefinement` | the refinement mapping from `Daemon` to `Session` |
| `DaemonProofs`, `DaemonStreamProofs` | theorems about `Daemon` and its refinement, checked by TLAPS |
| `Reconnect` | several clients of one session: `run_client`'s loop, the broker's attach and detach requests, and of the daemon who is registered |
| `MCReconnect` | `Reconnect` for TLC: which client was started how |
| `ReconnectProofs` | theorems about `Reconnect`, checked by TLAPS |
| `AttachedIo` | the threads of one client: main, stdin, one broker reader per attempt, their event queue and the pause/resume handshake |
| `AttachedIoProofs` | theorems about `AttachedIo`, checked by TLAPS |
| `Keepalive` | one attached connection with time: the client's loop and deadlines, the broker's two proxy threads and its monitor, the ssh connection, faults |
| `KeepaliveProofs` | theorems about `Keepalive`, checked by TLAPS |
| `SessionSelect` | `auto_select`, `auto_select_existing`, the selectors of both tables and the answers to both prompts, as operators on a list of sessions |
| `Sessions` | the socket directory and the commands that share it: list, attach, takeover, detach, new; daemons that start, serve, block, end and die |
| `MCSessions` | `Sessions` for TLC, with commands interchangeable |
| `SelectProofs` | theorems about `SessionSelect`, checked by TLAPS |
| `SessionsProofs` | theorems about `Sessions`, checked by TLAPS |
| `Recursions` | lemmas on induction and on recursive functions, for the proofs |

`Reconnect` uses an abstraction of the daemon that `Daemon` details (registered,
refused, evicted, gone); `AttachedIo` details what `Reconnect` takes for one step
(an attempt ends and the next one starts). `Keepalive` details when an attached
connection counts as lost, which is nondeterministic in `Reconnect`; `Sessions`
details how a session is found, where `Reconnect` has one session already.
`MCDaemon` extends `DaemonRefinement`, so every run of the daemon evaluates the
mapping's definitions.

### Daemon

A step is what one thread does between two points at which another thread can
run: one critical section of the state mutex, one frame read or written, one PTY
operation. Consecutive parts of a handler that nobody can observe apart (reading
a frame and acting on it) are one step; a value read under the lock and used
after it is released is kept in a thread-local variable and used by a later step.

| Model | Code |
|---|---|
| `broker`, `attachToken`, `replay`, `everDetached`, `shutdown` | `DaemonState` |
| `lockHolder` | the thread that blocks in a write while holding the state mutex (only SESSION_BUSY is written that way) |
| `masterOwner` | the thread that blocks in a PTY write while holding `master_write` |
| `main`: `check`, `accept`, `unlink`, `exited` | `run_daemon`'s loop; `exited` ends all threads |
| `reader`, `CheckShutdown` ... | `ReaderRead` / `ReaderWrite` / `ReaderDetach` / `ReaderEnd`: `spawn_pty_reader` |
| `waiter` | `WaiterReap` / `WaiterWrite` / `WaiterUnlink`: `spawn_child_waiter` |
| `thread[c]`: `request`, `info`, `evict`, `attach` | `handle_daemon_stream`, one action per kind of frame |
| `thread[c]`: `resize`, `replay`, `attached`, `input`, `finish` | `attach_broker` |
| `thread[c]`: `done`, `failed` | the function returned `Ok` or `Err`; its descriptors are dropped, a writer registered in the state stays open |
| `sent`, `rcvd`, `peerOpen`, `hangup` | the socket: frames in flight to the peer, whether a write fails, how reading ends |

Data is reduced to what the properties tell apart. A byte of output is its
position in the output stream; typed input is a count; a frame is its kind
(`OTHER` is any known kind the loop does not expect and any body that does not
decode; `UNKNOWN` is a number without a name). Which frames a peer sent is
decided when the daemon reads them, since nobody else sees them in flight: a
peer is therefore *any* program, also one that sends frames in an order the
broker never uses, or that has closed after sending. `view[c]` and `base[c]`
are history: what was written to `c`, and how much had been read when it
attached.

External, modelled from use: a socket buffers `SocketCap` frames and then blocks
the writer, a write to a closed peer fails; the PTY buffers `PtyCap` bytes per
direction; the PTY reader sees the end once the shell is gone and its output is
drained; a window-size ioctl or a PTY write may fail once the shell is gone.

### Session and DaemonRefinement

`Session` says what the daemon promises whatever its threads do: at most one holder
at a time; who joins may be sent the recent output up to that moment, once; the shell's
output is taken a chunk at a time, goes to the holder of that moment, and is delivered
or lost, and after a loss whoever holds the session is let go before more is taken, so
no holder misses a byte. `DaemonRefinement` maps the registered broker to the holder,
the bytes read from the PTY to the stream, the parts of `view` before and after `base`
to what was replayed and delivered, and the reader's pending write to the chunk on its
way. `ImplementsSession` is `Session`'s `Spec` under that mapping. It is more than a
restatement because the daemon appends, chooses the writer, writes and detaches in
different steps, and snapshots and replays in two, beside any number of other threads.
The let-go after a loss is unspecific on purpose: that it can hit a successor
(`claim_second_attach`) is what the code does.

### Reconnect

| Model | Code |
|---|---|
| `pc[c]`: `predetach`, `connect`, `attached`, `detach`, `sleep`, `exited` | where `run_client` is: the detach of `--detach-connect`, `run_client_attempt` up to ATTACH_SESSION, `run_attached_session`, `detach_stale_client_for_reconnect`, `sleep_for_reconnect`, returned |
| `known`, `recovering`, `attempts`, `confirmed` | `known_session_id`, `recovering_known_session`, `reconnect_attempts`, `confirmed_session_id` |
| `link`, `inbox`, `request` | the ssh connection, the frames in flight to the client, who has to act on its attach request |
| `orphans` | attach requests of brokers whose client is already gone: they reach the daemon all the same |
| `holder`, `detaches`, `session` | `DaemonState.broker` by its client (or `Stale`, a broker that has lost its client), DETACH frames not yet handled, whether the daemon runs |
| `reader`: `read`, `write`, `late` | `spawn_pty_reader`: in its read, in a write to the broker registered now, in a write to one that has been unregistered since. A write to a broker that is gone may fail, and then `detach_current` takes whoever is registered |
| `dropped` | history: clients that were unregistered that way. Nobody tells them and their connections stay up, until the daemon ends |

A connection may break at any moment with any prefix of the frames in flight still
arriving. Output is there as the writes of the PTY reader, without its bytes; input and
window sizes are left out: nothing here depends on them. A client that starts a session
of its own leaves the model (`elsewhere`).

### AttachedIo

| Model | Code |
|---|---|
| `main`: `setup`, `release`, `resuming`, `attached`, `lost`, `pausing`, `paused`, `sleep`, `ended` | the main thread: an attempt being set up (ssh may prompt), `resume`, `run_attached_session`, `pause`, backoff |
| `pauseRequested`, `pauseAcknowledged`, `readerFinished` | `StdinControlState` |
| `asleep` | who waits on the condition variable; `notify_all` empties it, a wait may also end by itself |
| `reader` | `read_stdin_events`: `check` and `parked` are `wait_while_stdin_paused`, `finish` the drop of `StdinReaderFinished` |
| `queue` | the mpsc channel; input carries, as history, the attempt it was read in |
| `conn[a]` | the connection of attempt `a`: `up`, `over`, `closed` (its broker reader has sent its last event) |

`goodbye` stands for CLIENT_SHOULD_EXIT, EXIT_STATUS and every frame that ends the
client. The Unix variant is modelled.

### Keepalive

| Model | Code |
|---|---|
| `client`: `loop`, `ping`, `resize`, `event`, `input`, `printing`, `left`, `timedout` | `run_attached_session`: the head of the loop, the three writes, the one event taken after a write without a look at the deadline, output that blocks on the terminal, returned |
| `nextPing`, `pending`, `deadline`, `nonce` | `next_keepalive`, `pending_keepalive`, `keepalive_nonce` |
| `upNear`, `upFar`, `downNear`, `downFar`, `pingAt`, `pongAt`, `carried` | frames between client and broker, those that can be read and those an outage holds back; where the one PING or PONG is among them, and its nonce |
| `c2d`, `d2c`, `monitor`, `events`, `pingLeft` | the thread `client_to_daemon`, the main thread of `proxy_attached_session`, `spawn_keepalive_monitor`, its channel and `recv_timeout` |
| `socket`, `daemonOpen`, `dIn`, `stalled` | the broker's connection to the daemon; a daemon whose PTY write blocks |

Time passes in ticks. `Tick` is disabled while a thread can do what is due, and, on
a connection without faults, while a PING or PONG has waited for `Latency` ticks: the
model's statement that the network works. Faults (outage with or without a later
end, reset seen by one side or both, a dead client, a stalled shell, a blocked
terminal) suspend it. A blocked thread stays blocked over any number of ticks.

### Sessions

| Model | Code |
|---|---|
| `path[i]`, `daemon[i]` | the socket file; the daemon process: `start`, `bound` (after `bind(2)`), `up` (after `listen(2)`), `ending` (shutdown is set), `gone` |
| `busy[i]`, `stuck[i]` | a broker is registered; the PTY mutex is held over a blocked write, so DAEMON_INFO_REQUEST is not answered |
| `pc[p]`: `query`, `asked`, `probe`, `unlink` | `enumerate_daemons`: connect, wait for DAEMON_INFO, `remove_stale_socket`'s connect and its `remove_file` |
| `pc[p]`: `prompt`, `detach`, `attach`, `launch`, `starting`, `ready`, `readyAsked` | the prompts, `detach_via_socket`, `attach_daemon`, `launch_daemon`, the starter process, `wait_for_daemon_ready` |
| `todo`, `found` | the ids still to be queried, the answers |
| `wasUp`, `wasStale` | history: what the directory held when the listing scanned it |

A process is one command, a client together with its broker since these take
turns. An id is drawn from 50 random bits, so none is ever drawn twice.

## Runs

Deadlock checking is off where the modelled programs really stop: the daemon after
the shell's exit, a client when it returns, a command when it is done. It is on in
`keepalive`: some step, if only `Tick`, is always possible, so the rules that hold
time back never lock it and the bounds below are not met by stopping the clock.

| Run | Module | Checks | Shows |
|---|---|---|---|
| `daemon_attach` | `MCDaemon` | `TypeOK`, `TokensDistinct`, `RegistrationIsServed`, `LiveStreamExact`, `ToldClientNotRegistered`, `OnlyOwnRegistrationUndone`, `ImplementsSession` | three connections attach, are refused, evicted, die, with output at any time |
| `daemon_frames` | `MCDaemon` | `ReplayIsRecentOutput` | one connection with every kind of frame in every order and every environment event, so that each handler and error path is taken; the ring is exactly the recent output at its capacity, with reads of one and of two bytes |
| `daemon_exit` | `MCDaemon` | `ShellExitEndsDaemon` | shutdown is not held up by an attached broker that never reads its exit status, if a refused peer that blocks the state mutex reads or closes some time |
| `daemon_served` | `MCDaemon` | `DrainsPty`, `OutputFreesDeadBroker`, `MutexesReleased` | when peers read or close and the shell reads: the PTY is drained, a failed write is the fallback that frees a dead broker, and both mutexes held over blocking writes come back |
| `reconnect_clients` | `MCReconnect` | `TypeOK`, `SettledClientHolds`, `NotAllEvicted` | a client with nothing left to hear holds the session, unless the PTY reader has dropped it after a failed write to an earlier broker; clients that clear each other away never all end as detached |
| `reconnect_recovers` | `MCReconnect` | `DelayIsCappedDoubling`, `RecoversOrEnds` | recovery ends in the session or an exit although the daemon never notices the dead broker, with the same exception; the backoff is what the documentation says also at its numeric limits |
| `attachedio` | `AttachedIo` | `TypeOK`, `TtyExclusive`, `InputOfThisAttempt`, `LiveConnectionKept`, `HandshakeReturns` | one reader of the terminal, in the right mode; neither input read in one attempt nor its end of file reaches the next; no lost wake-up |
| `keepalive` | `Keepalive` | `TypeOK`, `NoFalseAlarm`, `ReleasedInTime`, `NoticedInTime`, `PongMatches` | no end gives up a working connection; the broker lets go of a dead client's session within 2 x PingTimeout - Interval, the client leaves a session the broker has let go of within 2 x (Interval + PongTimeout) - 1 (both bounds are reached); the nonce check never drops an answer |
| `sessions` | `MCSessions` | `TypeOK`, `ListingComplete`, `StaleRemoved`, `PromptTruthful`, `ServingSocketKept` | a listing that succeeds omits no session that serves throughout and leaves no stale socket, with another command and daemons at work beside it; prompts pick the row they show; only a daemon caught between `bind` and `listen` loses its path |
| `claim_*` | | one documented claim each | TLC's counterexample; see Findings |

**Bounds.** *Daemon.* Three connections in `daemon_attach` and `claim_second_attach` are
a registered broker, a rival and a detacher; two suffice for the liveness runs.
`Capacity` 2 with reads of up to two bytes reaches both branches of `append` with and
without overflow (`daemon_frames`). `SocketCap` 1 makes a second unread frame block the
writer; in `daemon_exit` and `daemon_served` a CAPABILITIES reply in the buffer makes
the SESSION_BUSY write block with the lock held, in `daemon_exit` also the write of the
exit status, and in `daemon_served` input left by one client makes the next one's block.
The shell of `daemon_exit` prints nothing (`MaxOutput` 0): neither of the threads that
shut the daemon down depends on what the PTY reader does outside the lock. `TokenMod` is
one more than the number of connections, the least the code's assumption allows, so an
off-by-one in the token arithmetic would wrap. `MaxFrames` lets a connection negotiate
or attach and then do one more thing. Connections are symmetric in the safety runs only.
*Reconnect.* Three clients, one per way to start, and two faults, so that two of them
can be recovering when the third takes over. The multiplier is two bits wide and the
counter saturates at four; retries after the end of the session, which are no faults,
take `attempts` through both limits. `DetachLag` says whether a client's next attach may
overtake its own detach request; it is `FALSE` in `reconnect_clients` only, since the
code leaves at least the backoff and a new ssh connection between the two, and with it
`NotAllEvicted` would have the trivial exception that a client evicts itself.
*AttachedIo.* Three attempts, so that an event of the first can arrive in the second and
the third; one key and one data frame, as the queue's order is all they matter for.
*Keepalive.* The timings keep the order of the code's (interval below both timeouts, a
round trip that fits); the client's and the broker's timeouts differ so that a bound
stated with the wrong one fails, and an interval of two ticks tells its multiples apart.
Other timings are the proofs' part. One frame per buffer makes every write block as soon
as its reader does. Two faults: an outage and a death, or a stall and an outage, which
is what the longest waits need. *Sessions.* Two commands, of any kind, and two sessions,
each initially absent, serving or stale: one command's removal against another's start,
and a live session beside one that fails the listing.

**Fairness.** `FairSpec`: weak fairness of each daemon thread, which the
operating system's scheduler gives; a thread blocked on a mutex, a full socket
or a full PTY is not enabled. Reading the *next* frame of a peer is not fair: a
peer may never send one. `ExitSpec`, for `daemon_exit`, adds that a peer whose
SESSION_BUSY blocks with the state mutex held eventually reads or closes; of the
registered broker it assumes nothing. Without that `ShellExitEndsDaemon` is false, as
TLC shows: a peer that leaves its CAPABILITIES reply unread and is then refused stops
the child waiter and the accept loop for as long as it stays. `ServedSpec` adds that
every peer eventually reads what it was sent or closes, and that the shell reads its
input. For brokers this is
what the keepalive timeout provides (a broker whose client stalls shuts its
socket down, `src/server.rs` 504-505); for the shell it is an assumption, used
only in `daemon_served`.

`Reconnect`'s `FairSpec`: every client, broker and daemon thread keeps running and
failures are finitely many (`MaxFaults`), that is, the network is stable in the
end. That the daemon notices a dead broker (`StaleGone`) is *not* assumed: without
keepalive nothing guarantees it; nor that the PTY reader makes a step, since the
shell may print nothing. `AttachedIo`'s `FairSpec`: the main and the stdin
thread keep running; `poll` returns after `STDIN_POLL_INTERVAL`, so the stdin
thread never sleeps on the terminal. Spurious wake-ups may happen and are not
relied on. `Keepalive` and `Sessions` state no fairness: the former's progress is
bounded time, the latter's properties are about what a listing has done when it
ends.

## Proofs

`DaemonProofs` proves, for every set of connections, every capacity, read size
and bound:

- `TypeCorrect`: `Spec => []TypeOK`. One lemma per group of variables
  (`StateTypesStep`, `ThreadTypesStep`, `LocalTypesStep`, `SocketTypesStep`,
  `PtyTypesStep`).
- `ReplayCorrect`: `Spec => []ReplayIsRecentOutput`. The ring is inductive with
  `TypeOK`; the work is `ReplayAppendWindow`, that `append` of the next bytes to
  a window of recent bytes is again one, in both branches.
- `TokensCorrect`, `RegistrationCorrect`: from the inductive invariant
  `TokenInv`. `TokensDistinct` is not inductive: a fresh token must differ from
  all old ones, which needs that no token exceeds the counter and that the
  counter equals the number of connections that ever attached, hence stays below
  the modulus (`TokenAssumption`: fewer attachments than counter values, of which the
  code has 2^64, so that the counter never comes round).
  `RegistrationIsServed` in turn needs distinct tokens, or the detach of another
  thread could pass the token check.
- `OwnRegistrationOnly`: `Spec => OnlyOwnRegistrationUndone`, from the same
  invariant with `MineIsOwn`: under `TokenInv` the token comparison of
  `attach_broker` holds for the owner only.

`AttachedIoProofs` proves, for any number of attempts, keys and frames:

- `TypeCorrect`: `Spec => []TypeOK`.
- `TerminalExclusive`: `Spec => []TtyExclusive`, from `Handshake`. What makes it
  inductive is that the acknowledgement is up exactly while the stdin thread is
  parked, and the request from `pause` to `resume`: a stale acknowledgement, which
  would let `pause` return while the thread reads, cannot exist.
- `InputCorrect`: `Spec => []InputOfThisAttempt`, from `InputFresh`: `resume`
  discards while the stdin thread is still parked, so what is in the queue later
  was read in this attempt.
- `ConnectionCorrect`: `Spec => LiveConnectionKept`, from `EndsAreOver`: an end of
  file or SESSION_BUSY in the queue is of a connection that is over, attempts to
  come have none, so the one that passes the `attempt_id` guard is this attempt's.

`DaemonStreamProofs` proves, for the same instances:

- `LiveStreamCorrect`: `Spec => []LiveStreamExact`, from `StreamInv`: nothing is sent
  that was not read, and nothing to a connection that never attached (`SentWasRead`);
  a replay still to be written is the output just before the connection attached
  (`ReplayOwed`); the chunk the reader holds is the last that was read and continues
  what its addressee has (`ChunkContinues`).
- `DaemonImplementsSession`: `Spec => ImplementsSession`. Initial states map to initial
  states; one lemma per group of threads shows which step of `Session` each action is,
  or that it stutters. It uses the invariants above and `TokenInv`.
- `ToldClientsAreOut`: `Spec => []ToldClientNotRegistered`, from `ToldInv`, which says
  the same of a broker that a DETACH has taken out of the state and not yet told: it
  has attached, and a connection attaches once.

`ReconnectProofs` proves, for any number of clients and of faults:

- `TypeCorrect`: `Spec => []TypeOK`.
- `SettledCorrect`: `Spec => []SettledClientHolds`, from `ConnectionInv`: a request is
  pending only on a connection that is up, the session is held over one, and an
  attached client whose request was answered holds the session, has an end of file on
  its way, or was dropped by the PTY reader. The last is the exception the property
  states; it is what the code does, by the unguarded detach of finding 1.
- `SomebodySurvives`: `Spec => []NotAllEvicted` if `DetachLag` is `FALSE` (see Bounds:
  with it the exception is real and TLC shows it), from `DetachInv`: whoever asked for a
  detach that the daemon has yet to handle is not attached, so it is not the one
  evicted, and was not told to exit before.
- `DelayCorrect`: `Spec => []DelayIsCappedDoubling`, without a hypothesis on the powers
  of two: `PowerOfTwo` is a recursive function, `Doubling` shows that it satisfies its
  equation and `PowerMonotone` that it grows. `DelayInv` adds that a client waits only
  after it has counted a failure.

`Recursions` holds what these and the next proofs need of recursion. `Induction` says
that a set with 0 and successors holds every natural number (the least number outside
it would not be outside); being about a set and not about a predicate, it can be cited.
`RecursionExists`, `RecursionUnique` and `RecursionOnNat` give the function that a
recursion defines: a recursive definition in TLA+ is a CHOOSE, of which nothing is
known before some function is shown to satisfy its equation.

`SelectProofs` proves, for a listing of any length:

- `PickerTruthful`: what `PromptTruthful` asks of the picker, from `InStep`, an induction
  over the rows: the counter of `picker_rows` is one ahead of the length of what the
  filter of `prompt_session_selection` has let through, every free row has the number of
  its place there, the numbers grow from row to row, and every place is a row's.
- `AutoSelectCorrect`: the client launches a session unasked only if none is free,
  attaches unasked only to the one that is, and asks only if there are several.

`SessionsProofs` proves, for any number of commands and sessions:

- `TypeCorrect`: `Spec => []TypeOK`. Not inductive as it stands. That what is chosen is
  a session needs the types of what the filter, the sort and the prompts return
  (`FreeType`, `SortedType`, `PickType`, `ChoiceType`); that a sort has a result needs
  `Ascending`: the answers come in the order of the ids, because what has been found is
  below what is being asked and both are below what is still to do, so the trailing sort
  of `enumerate_daemons` finds them sorted. That a session being started is touched
  by nothing else needs `Owned`: no two commands start the same one.
- `PromptTruthfulCorrect`: `Spec => []PromptTruthful`, from the same invariant and
  `PickerTruthful`.
- `ListingCompleteCorrect`, `StaleRemovedCorrect` and `ServingSocketCorrect`, from
  `ListingInv`: while a listing runs, a session of `wasUp` that still serves under its
  path is still to be queried, being asked, or found (`Covered`); the one being probed
  or unlinked does not serve (`NotSuspected`); a session of `wasStale` is gone, and while
  its path exists it is still to be queried or is the one being removed (`Doomed`).

`KeepaliveProofs` proves all five properties of `Keepalive`, for all timings that
`TimingAssumption` allows, all capacities and any number of faults:

- `TypeCorrect`, `PongCorrect`: from `TokenInv`. Neither is inductive; what they need
  is that at most one ping is outstanding, and that it is the one the client waits for
  unless the client is gone.
- `NoFalseAlarmCorrect`: from `CalmInv`. Before the first fault an awaited ping is on its
  way, being answered or answered, and each of the two timers has at least the time
  left that the rest of that way can take.
- `ReleasedCorrect`: from `ReleaseInv`, a bound on the sum of what the monitor's timer
  has left and the time since the client went. A PING still to be read was sent an
  interval or more after the timer was last started, which is where the interval in the
  bound comes from; there is no second one.
- `NoticedCorrect`: from `NoticeInv`, two bounds on the sum of the client's timer and
  the time since the broker let go: one until the last PONG arrives, one after it. That
  it is the last needs an argument about the broker's other thread: a broker that has let
  go and still answers is stuck in a write behind an outage; when its PONG has come
  through, that write succeeds and the broker exits.

Assumptions are the named `ASSUME`s of the modules: `Daemon` (finite set of
connections, nonzero capacity and bounds, fewer connections than tokens), `AttachedIo`
(natural bounds), `Reconnect` (`DelayAssumption`: the multiplier's largest value takes
the initial delay to the cap), `Keepalive` (`TimingAssumption`: the interval and a round
trip fit into the monitor's timeout, a round trip into the client's, which is no longer
than the monitor's; the code has 15 s, 45 s and 45 s). TLC evaluates them in every run.
Every strengthened invariant was checked with TLC before it was proved.

Two statements of the model turned out wrong only when they were to be proved for all
constants, and were corrected: `DelayAssumption` allowed a cap beyond what the
multiplier reaches, and `NoticeBroker` was Interval + 2 x PongTimeout, which holds for
an interval of one tick and fails for two: the client's pause before its last ping and
the wait for it both count twice.

Every invariant and action property of the passing runs is the statement of a theorem.
Only model-checked: liveness (`ShellExitEndsDaemon`, `OutputFreesDeadBroker`,
`DrainsPty`, `MutexesReleased`, `RecoversOrEnds`, `HandshakeReturns`), which is out of
the prover's reach.

## Findings

Each is a violation run whose property states a sentence of the documentation.

1. `claim_second_attach`: the reader's failed write to a broker that is already
   gone detaches its successor; a third broker then attaches beside it. (The sentence
   it contradicts is in the repository's `src/README.md`, line 264.) The same detach is
   in `Reconnect` (`ReaderDetaches`) and the exception in `SettledClientHolds` and
   `RecoversOrEnds`: the client it hits is not told and stays attached to nothing.
2. `claim_session_gone`: a client whose session has ended takes the broker's silent
   exit for a lost connection and retries for ever.
3. `claim_list_alive`: a listing stops at the first session that does not answer. One
   shell that does not read its input is enough: the info request waits for the PTY
   mutex, the lister's two seconds run out and no session is shown; so is a daemon
   that ends between the connection and its answer, or a second listing that removes
   the same stale socket first.

Further observations from the models, without a run of their own: a client evicted by
`--detach` can type into the PTY beside its successor until its connection closes
(`src/daemon.rs` 440); the process may end before the exit status is written, as the
shutdown flag is set first (`src/daemon.rs` 277), and the exit status may overtake the
shell's last output, which another thread writes (`src/daemon.rs` 249, 282); a peer that
leaves frames unread and is then refused stops the daemon, its shutdown included, until
it reads or closes (`src/daemon.rs` 405); keys typed while ssh has the terminal are not
flushed, and go to its prompt or to the next connection (`src/terminal.rs` 50, 64); a
failed write of input, a ping or a window size overtakes the CLIENT_SHOULD_EXIT or
EXIT_STATUS that waits in the queue, `pause` discards it and the client reconnects
(`src/client.rs` 1136); a daemon whose path a listing unlinks between `bind` and
`listen` serves on unreachable (`src/daemon.rs` 135, the exception in
`ServingSocketKept`); a client that blocks in a write to ssh or to its terminal does not
look at its deadline (`src/client.rs` 1099, 1208, the condition in `NoticedInTime`), and
a broker whose client lacks keepalive never notices a silent loss; live output may
overtake the replay, which is written after the lock is released (`src/daemon.rs` 436);
a protocol violation, a truncated frame or a reset of an attached connection leaves it
registered until the shell prints (`src/daemon.rs` 440, 467; `OutputFreesDeadBroker` is
the fallback); a broker that stops reading stops the PTY read loop (`src/daemon.rs`
250); a client whose first attach is cut off becomes a recovering one and may evict the
client that has the session (`src/client.rs` 163); a detach request handled late
detaches whoever is registered then, even its sender (`src/server.rs` 557).

## Not modelled

Header parsing and body encoding (`src/protocol.rs`), PTY creation and termios
(`src/pty.rs`), the foreground probe, raw mode, the systemd scope, the bootstrap
script, argument parsing, the owner and mode checks of the socket directory: encoding,
text or single OS calls without state that several parties share. The
`current_command` and timestamps of a session record are display only. The
JavaScript under `docs/` (`book-*.js`, `searcher-*.js`, `toc-*.js`, `highlight-*.js`,
`searchindex-*.js`) is mdBook's output, committed with the rendered documentation; it
is no part of the program, which is the Rust code under `src/`.

## Plan

What could come next: the safety parts of `RecoversOrEnds` and `HandshakeReturns` as
action properties of their own (a detach that was sent, an acknowledgement that was given
and what a step may not undo of it); and a serving session as an abstract specification
of `Sessions`, to which the life of a daemon from `launch_daemon` to its end is mapped.
