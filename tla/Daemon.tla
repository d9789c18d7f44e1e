------------------------------- MODULE Daemon -------------------------------
(***************************************************************************)
(* The session daemon (ssh-obi-server --daemon, daemon.rs): one PTY, one   *)
(* shell, one UNIX socket, and the threads that share DaemonState:         *)
(*                                                                         *)
(*   - the main thread (run_daemon's accept loop),                         *)
(*   - the PTY reader (spawn_pty_reader),                                  *)
(*   - the child waiter (spawn_child_waiter),                              *)
(*   - one thread per accepted connection (handle_daemon_stream and        *)
(*     attach_broker).                                                     *)
(*                                                                         *)
(* A step is what a thread does between two points where another thread   *)
(* can run: one critical section of the state mutex, one frame read or     *)
(* written, one PTY operation.  The peers (brokers, detach helpers) send   *)
(* any frames in any order, stop reading, close or vanish; the shell       *)
(* prints, reads and exits as it likes.                                    *)
(*                                                                         *)
(* A byte of PTY output is named by its position in the output stream, so  *)
(* "the bytes 3, 4, 5" are the third to the fifth byte the shell printed.  *)
(***************************************************************************)
EXTENDS Naturals, Sequences, FiniteSets, ReplayBuffer

CONSTANTS
  Conns,        \* the connections peers may open (each at most once)
  NoConn,       \* "no connection"
  Requests,     \* the kinds of frame peers send
  Capacity,     \* replay capacity in bytes
  TokenMod,     \* attach tokens are added modulo this (2^64 in the code)
  SocketCap,    \* frames a socket buffers in one direction
  PtyCap,       \* bytes the PTY buffers in one direction
  MaxRead,      \* bytes one read of the PTY master returns at most (8192)
  MaxFrames,    \* bound: frames the daemon reads on one connection
  MaxOutput,    \* bound: bytes the shell prints
  Events        \* the rarer events of the environment an instance includes

FrameKinds == {"CAPABILITIES", "INITIAL_WINDOW_SIZE", "DAEMON_INFO_REQUEST",
               "DETACH", "BROKER_ATTACH", "PTY_DATA", "WINDOW_SIZE",
               "UNKNOWN", "OTHER"}

ReplyKinds == {"CAPABILITIES", "INFO_ATTACHED", "INFO_FREE", "SESSION_BUSY",
               "PTY_DATA", "CLIENT_SHOULD_EXIT", "EXIT_STATUS"}

ASSUME ConnsAssumption    == IsFiniteSet(Conns) /\ NoConn \notin Conns
ASSUME RequestsAssumption == Requests \subseteq FrameKinds
ASSUME EventsAssumption   ==
         Events \subseteq {"shell_exit", "half_close", "accept_error"}
ASSUME CapacityAssumption == Capacity \in Nat \ {0}
ASSUME TokenAssumption    == TokenMod \in Nat /\ Cardinality(Conns) < TokenMod
ASSUME BoundsAssumption   == /\ SocketCap \in Nat \ {0} /\ PtyCap \in Nat \ {0}
                             /\ MaxRead \in Nat \ {0} /\ MaxFrames \in Nat
                             /\ MaxOutput \in Nat

VARIABLES
  \* DaemonState, guarded by its mutex
  broker,        \* state.broker: the registered broker, or NoBroker
  attachToken,   \* state.attach_token
  replay,        \* state.replay
  everDetached,  \* whether state.last_detach_time is Some
  shutdown,      \* state.shutdown
  lockHolder,    \* the connection that blocks while holding the state mutex
  \* the threads
  main,          \* where run_daemon's loop is
  reader,        \* the PTY reader: where it is, its writer, its bytes
  waiter,        \* the child waiter: where it is, the writer it cloned
  thread,        \* where the thread of each connection is
  token,         \* attach_broker's token (0 before it has one)
  snapshot,      \* attach_broker's copy of the replay ring
  sized,         \* whether the thread holds an initial window size
  target,        \* the broker a DETACH handler took, or an INFO handler saw
  masterOwner,   \* the connection that blocks in a PTY write (master_write)
  \* sockets
  bound,         \* whether the socket path exists
  nframes,       \* how many frames the daemon has read
  hangup,        \* how the peer's sending side ended, if it has
  peerOpen,      \* whether the peer can still receive
  sent,          \* frames the daemon wrote, in order
  rcvd,          \* how many of those the peer has read
  \* PTY and shell
  shell, pending, ptyIn,
  \* history
  nread,         \* output bytes read from the PTY master
  base,          \* nread when the connection attached
  view           \* the output bytes written to each connection, in order

regVars    == <<broker, everDetached>>
stateVars  == <<regVars, attachToken, replay, shutdown>>
locals     == <<snapshot, sized, target>>
connVars   == <<token, locals>>
socketVars == <<nframes, hangup, peerOpen, rcvd>>
outVars    == <<sent, view>>
ptyVars    == <<shell, pending, ptyIn>>
histVars   == <<nread, base>>
vars == <<stateVars, lockHolder, main, reader, waiter, thread, connVars,
          masterOwner, bound, socketVars, outVars, ptyVars, histVars>>

ReaderAtRead == [pc |-> "read", to |-> NoConn, bytes |-> << >>]
NoBroker == [token |-> 0, conn |-> NoConn]

\* The states of a connection's thread.  "failed" is an Err return.
Handling  == {"request", "info", "evict", "attach"}
Attaching == {"resize", "replay", "attached", "input", "finish"}
ThreadStates == {"unconnected", "backlog", "done", "failed"}
                  \cup Handling \cup Attaching

NoOr(S) == S \cup {NoConn}

StateTypes ==
  /\ broker \in [token : 0 .. TokenMod - 1, conn : NoOr(Conns)]
  /\ attachToken \in 0 .. TokenMod - 1
  /\ replay \in Seq(Nat)
  /\ everDetached \in BOOLEAN /\ shutdown \in BOOLEAN
  /\ lockHolder \in NoOr(Conns)

ThreadTypes ==
  /\ main \in {"check", "accept", "unlink", "exited"}
  /\ reader \in [pc : {"read", "write", "detach", "done"},
                 to : NoOr(Conns), bytes : Seq(Nat)]
  /\ reader.pc = "write" => reader.to \in Conns
  /\ waiter \in [pc : {"wait", "write", "unlink", "done"}, to : NoOr(Conns)]
  /\ waiter.pc = "write" => waiter.to \in Conns
  /\ thread \in [Conns -> ThreadStates]
  /\ masterOwner \in NoOr(Conns)

LocalTypes ==
  /\ token \in [Conns -> 0 .. TokenMod - 1]
  /\ snapshot \in [Conns -> Seq(Nat)]
  /\ sized \in [Conns -> BOOLEAN]
  /\ target \in [Conns -> NoOr(Conns)]
  /\ \A c \in Conns : thread[c] = "evict" => target[c] \in Conns

SocketTypes ==
  /\ bound \in BOOLEAN
  /\ nframes \in [Conns -> 0 .. MaxFrames]
  /\ hangup \in [Conns -> {"open", "eof", "error"}]
  /\ peerOpen \in [Conns -> BOOLEAN]
  /\ sent \in [Conns -> Seq(ReplyKinds)]
  /\ rcvd \in [Conns -> Nat]

PtyTypes ==
  /\ shell \in {"running", "exited"}
  /\ pending \in Nat /\ ptyIn \in Nat /\ nread \in Nat
  /\ base \in [Conns -> Nat]
  /\ view \in [Conns -> Seq(Nat)]

\* Every variable has its type; a thread that is about to write to a cloned or
\* taken writer has one.
TypeOK == StateTypes /\ ThreadTypes /\ LocalTypes /\ SocketTypes /\ PtyTypes

Init ==
  /\ broker = NoBroker /\ attachToken = 0 /\ replay = EmptyReplay
  /\ everDetached = FALSE /\ shutdown = FALSE /\ lockHolder = NoConn
  /\ main = "check"
  /\ reader = ReaderAtRead
  /\ waiter = [pc |-> "wait", to |-> NoConn]
  /\ thread = [c \in Conns |-> "unconnected"]
  /\ token = [c \in Conns |-> 0]
  /\ snapshot = [c \in Conns |-> << >>]
  /\ sized = [c \in Conns |-> FALSE]
  /\ target = [c \in Conns |-> NoConn]
  /\ masterOwner = NoConn
  /\ bound = TRUE
  /\ nframes = [c \in Conns |-> 0]
  /\ hangup = [c \in Conns |-> "open"]
  /\ peerOpen = [c \in Conns |-> TRUE]
  /\ sent = [c \in Conns |-> << >>]
  /\ rcvd = [c \in Conns |-> 0]
  /\ shell = "running" /\ pending = 0 /\ ptyIn = 0
  /\ nread = 0
  /\ base = [c \in Conns |-> 0]
  /\ view = [c \in Conns |-> << >>]

-----------------------------------------------------------------------------
(* Building blocks                                                         *)

Alive == main # "exited"
LockFree == lockHolder = NoConn
MasterFree == masterOwner = NoConn

\* A frame written to c fits into its socket; a write to a closed peer fails;
\* otherwise the writing thread blocks (the writer mutex held).
CanWrite(c) == peerOpen[c] /\ Len(sent[c]) - rcvd[c] < SocketCap
WriteFails(c) == ~peerOpen[c]

Write(c, kind) == /\ sent' = [sent EXCEPT ![c] = Append(@, kind)]
                  /\ UNCHANGED view

\* write_broker_pty_data
WriteData(c, bytes) == /\ sent' = [sent EXCEPT ![c] = Append(@, "PTY_DATA")]
                       /\ view' = [view EXCEPT ![c] = @ \o bytes]

\* Mutant: the counter saturates instead of wrapping.
SaturatingToken == IF attachToken = 0 THEN 1 ELSE attachToken
\* DaemonState::next_attach_token: u64::wrapping_add(1)
NextAttachToken == (attachToken + 1) % TokenMod

\* Mutant: the time is recorded, the broker is not taken.
DetachCurrentKeepsBroker == everDetached' = TRUE /\ UNCHANGED broker
\* DaemonState::detach_current
DetachCurrent == broker' = NoBroker /\ everDetached' = TRUE

\* Mutants: no token check; a comparison that never holds for one's own.
MineUnchecked(c) == broker.conn # NoConn
MineStale(c) == broker.conn # NoConn /\ broker.token < token[c]
\* The guarded detach of attach_broker: only while the registration is the
\* one this thread made.
Mine(c) == broker.conn # NoConn /\ broker.token = token[c]
DetachIfMine(c) == IF Mine(c) THEN DetachCurrent
                              ELSE UNCHANGED regVars

Goto(c, s) == thread' = [thread EXCEPT ![c] = s]

\* The thread of c reads a frame of kind f.  Which frames a peer has sent is
\* decided only when the daemon reads them: nothing else can see them in
\* flight, and a peer that has gone may have left any number behind.
Read(c, f) == /\ f \in Requests /\ nframes[c] < MaxFrames
              /\ nframes' = [nframes EXCEPT ![c] = @ + 1]
              /\ UNCHANGED <<hangup, peerOpen, rcvd>>

\* read_frame reaches the end of the stream: a clean EOF or an error (a
\* truncated frame, or a reset by a peer that left output unread).
AtEnd(c) == hangup[c] # "open"

-----------------------------------------------------------------------------
(* Peers: brokers and detach helpers (external to the daemon process)      *)

\* The daemon still holds its end of c: a thread serves it or some thread has
\* its writer.  What a peer does after that reaches nobody.
Held(c) ==
  /\ Alive
  /\ \/ thread[c] \in {"backlog"} \cup Handling \cup Attaching
     \/ broker.conn = c
     \/ reader.pc = "write" /\ reader.to = c
     \/ waiter.pc = "write" /\ waiter.to = c
     \/ \E d \in Conns : thread[d] = "evict" /\ target[d] = c

\* A thread may still read what the peer of c sends.
Listening(c) == Alive /\ thread[c] \notin {"unconnected", "done", "failed"}

PeerConnect(c) ==
  /\ thread[c] = "unconnected" /\ bound /\ Alive
  /\ Goto(c, "backlog")
  /\ UNCHANGED <<stateVars, lockHolder, main, reader, waiter, connVars,
                 masterOwner, bound, socketVars, outVars, ptyVars, histVars>>

\* The broker's shutdown(Write) after its client's end of input.
PeerShutdown(c) ==
  /\ "half_close" \in Events /\ Listening(c) /\ hangup[c] = "open"
  /\ hangup' = [hangup EXCEPT ![c] = "eof"]
  /\ UNCHANGED <<stateVars, lockHolder, main, reader, waiter, thread, connVars,
                 masterOwner, bound, nframes, peerOpen, rcvd, outVars,
                 ptyVars, histVars>>

\* The peer closes or dies; how the daemon's next read ends depends on what
\* was in flight.
PeerClose(c) ==
  /\ Held(c) /\ peerOpen[c]
  /\ peerOpen' = [peerOpen EXCEPT ![c] = FALSE]
  /\ \E h \in {"eof", "error"} : hangup' = [hangup EXCEPT ![c] = h]
  /\ UNCHANGED <<stateVars, lockHolder, main, reader, waiter, thread, connVars,
                 masterOwner, bound, nframes, rcvd, outVars, ptyVars,
                 histVars>>

PeerRead(c) ==
  /\ Held(c) /\ peerOpen[c] /\ rcvd[c] < Len(sent[c])
  /\ rcvd' = [rcvd EXCEPT ![c] = @ + 1]
  /\ UNCHANGED <<stateVars, lockHolder, main, reader, waiter, thread, connVars,
                 masterOwner, bound, nframes, hangup, peerOpen, outVars,
                 ptyVars, histVars>>

-----------------------------------------------------------------------------
(* The shell on the PTY slave (external)                                   *)

ShellVarsOnly == UNCHANGED <<stateVars, lockHolder, main, reader, waiter,
                             thread, connVars, masterOwner, bound, socketVars,
                             outVars, histVars>>

ShellOutput ==
  /\ shell = "running" /\ Alive
  /\ pending < PtyCap /\ nread + pending < MaxOutput
  /\ pending' = pending + 1
  /\ UNCHANGED <<shell, ptyIn>> /\ ShellVarsOnly

ShellInput ==
  /\ shell = "running" /\ Alive
  /\ ptyIn > 0 /\ ptyIn' = ptyIn - 1
  /\ UNCHANGED <<shell, pending>> /\ ShellVarsOnly

ShellExit ==
  /\ "shell_exit" \in Events /\ shell = "running" /\ Alive
  /\ shell' = "exited"
  /\ UNCHANGED <<pending, ptyIn>> /\ ShellVarsOnly

-----------------------------------------------------------------------------
(* The PTY reader                                                          *)

ReaderUnchanged == UNCHANGED <<attachToken, shutdown, lockHolder, main, waiter,
                               thread, connVars, masterOwner, bound,
                               socketVars, shell, ptyIn, base>>

ForwardTo(c, chunk) == [pc |-> "write", to |-> c, bytes |-> chunk]
\* Mutants: the broker is not checked for; nothing is forwarded to a broker
\* whose replay is still being written.
ForwardAlways(chunk) == ForwardTo(broker.conn, chunk)
ForwardAfterReplay(chunk) ==
  IF broker.conn = NoConn THEN reader
  ELSE IF thread[broker.conn] = "replay" THEN reader
  ELSE ForwardTo(broker.conn, chunk)
\* The writer the reader clones inside the critical section, if any.
Forward(chunk) == IF broker.conn = NoConn THEN reader
                                          ELSE ForwardTo(broker.conn, chunk)

\* Mutants: a failed write is ignored; it is tried again.
IgnoreFailedWrite == ReaderAtRead
RetryFailedWrite == reader
AfterFailedWrite == [pc |-> "detach", to |-> reader.to, bytes |-> << >>]

\* A read of n bytes, then one critical section: append to the ring and clone
\* the registered broker's writer.
ReaderRead(n) ==
  LET chunk == [i \in 1 .. n |-> nread + i] IN
  /\ Alive /\ LockFree /\ reader.pc = "read"
  /\ n <= pending
  /\ pending' = pending - n
  /\ nread' = nread + n
  /\ replay' = ReplayAppend(Capacity, replay, chunk)
  /\ reader' = Forward(chunk)
  /\ UNCHANGED <<regVars, outVars>> /\ ReaderUnchanged

\* The write happens outside the state mutex, to the writer cloned before.
ReaderWrite ==
  /\ Alive /\ reader.pc = "write"
  /\ \/ /\ CanWrite(reader.to)
        /\ WriteData(reader.to, reader.bytes)
        /\ reader' = ReaderAtRead
     \/ /\ WriteFails(reader.to)
        /\ reader' = AfterFailedWrite
        /\ UNCHANGED outVars
  /\ UNCHANGED <<regVars, replay, pending, nread>>
  /\ ReaderUnchanged

\* After a failed write the reader detaches whatever broker is registered now.
ReaderDetach ==
  /\ Alive /\ LockFree /\ reader.pc = "detach"
  /\ DetachCurrent
  /\ reader' = ReaderAtRead
  /\ UNCHANGED <<replay, pending, nread, outVars>> /\ ReaderUnchanged

\* End of file or EIO once the slave side is gone and drained.
ReaderEnd ==
  /\ Alive /\ reader.pc = "read" /\ shell = "exited" /\ pending = 0
  /\ reader' = [reader EXCEPT !.pc = "done"]
  /\ UNCHANGED <<regVars, replay, pending, nread, outVars>>
  /\ ReaderUnchanged

-----------------------------------------------------------------------------
(* The child waiter                                                        *)

WaiterUnchanged == UNCHANGED <<broker, attachToken, replay, everDetached,
                               lockHolder, main, reader, thread, connVars,
                               masterOwner, socketVars, ptyVars, histVars>>

\* Mutant: the accept loop is only stopped when nobody is attached.
ShutdownIfFree == broker.conn = NoConn
\* state.shutdown = true
RequestShutdown == TRUE

\* waitpid returns; one critical section sets shutdown and clones the writer.
WaiterReap ==
  /\ Alive /\ LockFree /\ waiter.pc = "wait" /\ shell = "exited"
  /\ shutdown' = RequestShutdown
  /\ waiter' = [pc |-> IF broker.conn = NoConn THEN "unlink" ELSE "write",
                to |-> broker.conn]
  /\ UNCHANGED <<bound, outVars>> /\ WaiterUnchanged

\* The exit status goes to the writer cloned before; a failure is ignored.
WaiterWrite ==
  /\ Alive /\ waiter.pc = "write"
  /\ \/ CanWrite(waiter.to) /\ Write(waiter.to, "EXIT_STATUS")
     \/ WriteFails(waiter.to) /\ UNCHANGED outVars
  /\ waiter' = [pc |-> "unlink", to |-> NoConn]
  /\ UNCHANGED <<shutdown, bound>> /\ WaiterUnchanged

WaiterUnlink ==
  /\ Alive /\ waiter.pc = "unlink"
  /\ bound' = FALSE
  /\ waiter' = [waiter EXCEPT !.pc = "done"]
  /\ UNCHANGED <<shutdown, outVars>> /\ WaiterUnchanged

-----------------------------------------------------------------------------
(* The main thread: the accept loop                                        *)

MainUnchanged == UNCHANGED <<stateVars, lockHolder, reader, waiter, connVars,
                             masterOwner, socketVars, outVars, ptyVars,
                             histVars>>

CheckShutdown ==
  /\ main = "check" /\ LockFree
  /\ main' = IF shutdown THEN "unlink" ELSE "accept"
  /\ UNCHANGED <<thread, bound>> /\ MainUnchanged

AcceptConn(c) ==
  /\ main = "accept" /\ thread[c] = "backlog"
  /\ Goto(c, "request")
  /\ main' = "check"
  /\ UNCHANGED bound /\ MainUnchanged

\* WouldBlock: sleep for the poll interval and go round the loop.
AcceptNone ==
  /\ main = "accept" /\ \A c \in Conns : thread[c] # "backlog"
  /\ main' = "check"
  /\ UNCHANGED <<thread, bound>> /\ MainUnchanged

\* A hard error of accept() ends the process and leaves the socket path.
AcceptError ==
  /\ "accept_error" \in Events /\ main = "accept"
  /\ main' = "exited"
  /\ UNCHANGED <<thread, bound>> /\ MainUnchanged

\* Remove the socket and return: the process and all its threads end.
MainExit ==
  /\ main = "unlink"
  /\ bound' = FALSE /\ main' = "exited"
  /\ UNCHANGED thread /\ MainUnchanged

-----------------------------------------------------------------------------
(* A connection's thread before it attaches: handle_daemon_stream          *)

HandlerUnchanged == UNCHANGED <<attachToken, replay, shutdown, main, reader,
                                waiter, token, bound, ptyVars, histVars>>
Quiet == /\ UNCHANGED <<regVars, lockHolder, locals, masterOwner>>
         /\ HandlerUnchanged

\* End of the stream: Ok after at least one frame, NoRequest before.
RequestEnd(c) ==
  /\ Alive /\ thread[c] = "request" /\ AtEnd(c)
  /\ Goto(c, IF hangup[c] = "eof" /\ nframes[c] > 0 THEN "done" ELSE "failed")
  /\ Quiet /\ UNCHANGED <<socketVars, outVars>>

HandleCapabilities(c) ==
  /\ Alive /\ thread[c] = "request" /\ Read(c, "CAPABILITIES")
  /\ \/ CanWrite(c) /\ Write(c, "CAPABILITIES") /\ UNCHANGED thread
     \/ WriteFails(c) /\ Goto(c, "failed") /\ UNCHANGED outVars
  /\ Quiet

HandleInitialWindowSize(c) ==
  /\ Alive /\ thread[c] = "request" /\ Read(c, "INITIAL_WINDOW_SIZE")
  /\ sized' = [sized EXCEPT ![c] = TRUE]
  /\ UNCHANGED <<regVars, lockHolder, thread, snapshot, target, masterOwner,
                 outVars>> /\ HandlerUnchanged

\* DAEMON_INFO_REQUEST: the foreground probe locks the PTY master, the record
\* locks the state; target is the broker the record was made with ...
HandleInfo(c) ==
  /\ Alive /\ thread[c] = "request" /\ MasterFree /\ LockFree
  /\ Read(c, "DAEMON_INFO_REQUEST")
  /\ target' = [target EXCEPT ![c] = broker.conn]
  /\ Goto(c, "info")
  /\ UNCHANGED <<regVars, lockHolder, snapshot, sized, masterOwner, outVars>>
  /\ HandlerUnchanged

\* ... which may have changed when the record is written.
WriteInfo(c) ==
  /\ Alive /\ thread[c] = "info"
  /\ \/ /\ CanWrite(c) /\ Goto(c, "done")
        /\ Write(c, IF target[c] = NoConn THEN "INFO_FREE"
                                          ELSE "INFO_ATTACHED")
     \/ WriteFails(c) /\ Goto(c, "failed") /\ UNCHANGED outVars
  /\ target' = [target EXCEPT ![c] = NoConn]
  /\ UNCHANGED <<regVars, lockHolder, snapshot, sized, masterOwner,
                 socketVars>> /\ HandlerUnchanged

\* DETACH: take the registered broker out under the lock ...
HandleDetach(c) ==
  /\ Alive /\ thread[c] = "request" /\ LockFree /\ Read(c, "DETACH")
  /\ DetachCurrent
  /\ target' = [target EXCEPT ![c] = broker.conn]
  /\ Goto(c, IF broker.conn = NoConn THEN "done" ELSE "evict")
  /\ UNCHANGED <<lockHolder, snapshot, sized, masterOwner, outVars>>
  /\ HandlerUnchanged

\* ... and tell its client to exit after the lock is released.
WriteShouldExit(c) ==
  /\ Alive /\ thread[c] = "evict"
  /\ \/ CanWrite(target[c]) /\ Write(target[c], "CLIENT_SHOULD_EXIT")
                            /\ Goto(c, "done")
     \/ WriteFails(target[c]) /\ Goto(c, "failed") /\ UNCHANGED outVars
  /\ target' = [target EXCEPT ![c] = NoConn]
  /\ UNCHANGED <<regVars, lockHolder, snapshot, sized, masterOwner,
                 socketVars>> /\ HandlerUnchanged

\* BROKER_ATTACH (or ATTACH_SESSION): on to attach_broker.
HandleAttach(c) ==
  /\ Alive /\ thread[c] = "request" /\ Read(c, "BROKER_ATTACH")
  /\ Goto(c, "attach") /\ Quiet /\ UNCHANGED outVars

HandleUnknown(c) ==
  /\ Alive /\ thread[c] \in {"request", "attached"} /\ Read(c, "UNKNOWN")
  /\ Quiet /\ UNCHANGED <<thread, outVars>>

\* A frame the loop does not expect, Err(UnexpectedMessage); "OTHER" is also
\* any frame whose body does not decode, Err(Protocol).
HandleOther(c) ==
  /\ Alive
  /\ \/ /\ thread[c] = "request"
        /\ \E f \in {"PTY_DATA", "WINDOW_SIZE", "OTHER"} : Read(c, f)
     \/ /\ thread[c] = "attached"
        /\ \E f \in {"CAPABILITIES", "INITIAL_WINDOW_SIZE", "BROKER_ATTACH",
                     "DAEMON_INFO_REQUEST", "OTHER"} : Read(c, f)
  /\ Goto(c, "failed") /\ Quiet /\ UNCHANGED outVars

-----------------------------------------------------------------------------
(* A connection's thread as an attached broker: attach_broker              *)

\* Somebody is registered: SESSION_BUSY, written with the state mutex held.
AttachBusy(c) ==
  /\ Alive /\ thread[c] = "attach"
  /\ lockHolder \in {NoConn, c} /\ broker.conn # NoConn
  /\ \/ CanWrite(c) /\ Write(c, "SESSION_BUSY") /\ Goto(c, "done")
                    /\ lockHolder' = NoConn
     \/ WriteFails(c) /\ Goto(c, "failed") /\ UNCHANGED outVars
                      /\ lockHolder' = NoConn
     \/ /\ ~CanWrite(c) /\ ~WriteFails(c) /\ LockFree
        /\ lockHolder' = c /\ UNCHANGED <<thread, outVars>>
  /\ UNCHANGED <<regVars, locals, masterOwner, socketVars>>
  /\ HandlerUnchanged

\* Nobody is: token, snapshot of the ring and registration in one critical
\* section.
AttachRegister(c) ==
  /\ Alive /\ thread[c] = "attach" /\ LockFree /\ broker.conn = NoConn
  /\ attachToken' = NextAttachToken
  /\ token' = [token EXCEPT ![c] = NextAttachToken]
  /\ snapshot' = [snapshot EXCEPT ![c] = replay]
  /\ broker' = [token |-> NextAttachToken, conn |-> c]
  /\ base' = [base EXCEPT ![c] = nread]
  /\ Goto(c, IF sized[c] THEN "resize" ELSE "replay")
  /\ UNCHANGED <<replay, everDetached, shutdown, lockHolder, main, reader,
                 waiter, sized, target, masterOwner, bound, socketVars,
                 outVars, ptyVars, nread>>

\* The initial window size; a failing ioctl undoes this thread's registration.
ResizeInitial(c) ==
  /\ Alive /\ thread[c] = "resize" /\ MasterFree
  /\ \/ Goto(c, "replay") /\ UNCHANGED regVars
     \/ /\ shell = "exited" /\ LockFree
        /\ DetachIfMine(c) /\ Goto(c, "failed")
  /\ UNCHANGED <<lockHolder, locals, masterOwner, socketVars, outVars>>
  /\ HandlerUnchanged

\* Mutant: the ring as it is by now.
ReplayNow(c) == replay
\* The copy that was made when c was registered.
ReplayCopy(c) == snapshot[c]

\* The replay is written after the lock is released; a failure returns with
\* the registration in place.
WriteReplay(c) ==
  /\ Alive /\ thread[c] = "replay"
  /\ \/ snapshot[c] = << >> /\ Goto(c, "attached") /\ UNCHANGED outVars
     \/ /\ snapshot[c] # << >> /\ CanWrite(c)
        /\ WriteData(c, ReplayCopy(c)) /\ Goto(c, "attached")
     \/ /\ snapshot[c] # << >> /\ WriteFails(c)
        /\ Goto(c, "failed") /\ UNCHANGED outVars
  /\ snapshot' = [snapshot EXCEPT ![c] = << >>]
  /\ UNCHANGED <<regVars, lockHolder, sized, target, masterOwner,
                 socketVars>> /\ HandlerUnchanged

\* End of the stream: EOF leaves the loop, an error leaves the function.
AttachedEnd(c) ==
  /\ Alive /\ thread[c] = "attached" /\ AtEnd(c)
  /\ Goto(c, IF hangup[c] = "eof" THEN "finish" ELSE "failed")
  /\ Quiet /\ UNCHANGED <<socketVars, outVars>>

AttachedData(c) ==
  /\ Alive /\ thread[c] = "attached" /\ Read(c, "PTY_DATA")
  /\ Goto(c, "input") /\ Quiet /\ UNCHANGED outVars

\* A WINDOW_SIZE frame: an ioctl, which may fail once the shell is gone.
AttachedWindowSize(c) ==
  /\ Alive /\ thread[c] = "attached" /\ MasterFree /\ Read(c, "WINDOW_SIZE")
  /\ \/ UNCHANGED thread
     \/ shell = "exited" /\ Goto(c, "failed")
  /\ Quiet /\ UNCHANGED outVars

AttachedDetach(c) ==
  /\ Alive /\ thread[c] = "attached" /\ Read(c, "DETACH")
  /\ Goto(c, "finish") /\ Quiet /\ UNCHANGED outVars

\* Mutant: the PTY master mutex is not given back after the write.
KeepMaster == UNCHANGED masterOwner
ReleaseMaster == masterOwner' = NoConn

\* Typed bytes go to the shell under master_write; a full PTY blocks the
\* thread with that mutex held, and a dead one fails the write.
WriteInput(c) ==
  /\ Alive /\ thread[c] = "input" /\ masterOwner \in {NoConn, c}
  /\ \/ /\ ptyIn < PtyCap /\ ptyIn' = ptyIn + 1
        /\ Goto(c, "attached") /\ ReleaseMaster
     \/ /\ ptyIn >= PtyCap /\ shell = "running" /\ MasterFree
        /\ masterOwner' = c /\ UNCHANGED <<thread, ptyIn>>
     \/ /\ shell = "exited"
        /\ Goto(c, "failed") /\ ReleaseMaster /\ UNCHANGED ptyIn
  /\ UNCHANGED <<stateVars, lockHolder, main, reader, waiter, connVars, bound,
                 socketVars, outVars, shell, pending, histVars>>

\* After the loop: detach, if the registration is still this thread's.
Finish(c) ==
  /\ Alive /\ thread[c] = "finish" /\ LockFree
  /\ DetachIfMine(c) /\ Goto(c, "done")
  /\ UNCHANGED <<lockHolder, locals, masterOwner, socketVars, outVars>>
  /\ HandlerUnchanged

-----------------------------------------------------------------------------
(* The specification                                                       *)

MainStep == \/ CheckShutdown \/ AcceptNone \/ MainExit
            \/ \E c \in Conns : AcceptConn(c)
ReaderStep == \/ ReaderWrite \/ ReaderDetach \/ ReaderEnd
              \/ \E n \in 1 .. MaxRead : ReaderRead(n)
WaiterStep == WaiterReap \/ WaiterWrite \/ WaiterUnlink
\* What a connection's thread does on a frame the peer sent, and on its own.
FrameStep(c) ==
  \/ HandleCapabilities(c) \/ HandleInitialWindowSize(c) \/ HandleInfo(c)
  \/ HandleDetach(c) \/ HandleAttach(c) \/ HandleUnknown(c) \/ HandleOther(c)
  \/ AttachedData(c) \/ AttachedWindowSize(c) \/ AttachedDetach(c)
ThreadStep(c) ==
  \/ RequestEnd(c) \/ WriteInfo(c) \/ WriteShouldExit(c) \/ AttachBusy(c)
  \/ AttachRegister(c) \/ ResizeInitial(c) \/ WriteReplay(c) \/ AttachedEnd(c)
  \/ WriteInput(c) \/ Finish(c)
PeerStep(c) ==
  \/ PeerConnect(c) \/ PeerShutdown(c) \/ PeerClose(c) \/ PeerRead(c)
ShellStep == ShellOutput \/ ShellInput \/ ShellExit

Next ==
  \/ MainStep \/ AcceptError \/ ReaderStep \/ WaiterStep \/ ShellStep
  \/ \E c \in Conns : FrameStep(c) \/ ThreadStep(c) \/ PeerStep(c)

Spec == Init /\ [][Next]_vars

\* Every thread that can run eventually runs.
ThreadFairness ==
  /\ WF_vars(MainStep) /\ WF_vars(ReaderStep) /\ WF_vars(WaiterStep)
  /\ \A c \in Conns : WF_vars(ThreadStep(c))
FairSpec == Spec /\ ThreadFairness

\* A peer whose refusal does not fit into its socket, so that the state mutex is
\* held over the write, reads or closes.  Of the registered broker, and of all
\* other peers, nothing is assumed.
RefusedPeerFairness ==
  WF_vars(\E c \in Conns : lockHolder = c /\ (PeerRead(c) \/ PeerClose(c)))
ExitSpec == FairSpec /\ RefusedPeerFairness

\* Peers eventually read what they were sent or close (the broker's keepalive
\* closes the socket of a client that stalls), and the shell reads its input.
PeerFairness ==
  /\ \A c \in Conns : WF_vars(PeerRead(c) \/ PeerClose(c))
  /\ WF_vars(ShellInput)
ServedSpec == FairSpec /\ PeerFairness

-----------------------------------------------------------------------------
(* Properties                                                              *)

\* The replay ring always holds exactly the last Capacity bytes read from the
\* PTY (all of them while there are fewer), oldest first, whether or not a
\* broker is attached (ReplayBuffer::append, spawn_pty_reader).
ReplayIsRecentOutput ==
  /\ Len(replay) = IF nread < Capacity THEN nread ELSE Capacity
  /\ \A i \in 1 .. Len(replay) : replay[i] = nread - Len(replay) + i

\* No two attachments ever share a token, so that the token check at the end
\* of attach_broker tells one's own registration from a successor's.
TokensDistinct ==
  \A c, d \in Conns : token[c] = token[d] /\ token[c] # 0 => c = d

\* A registered broker has a thread that is still serving it or that returned
\* an error: a thread that returns Ok never leaves its registration behind.
RegistrationIsServed ==
  broker.conn # NoConn =>
    /\ broker.token = token[broker.conn] /\ broker.token # 0
    /\ thread[broker.conn] \in Attaching \cup {"failed"}

\* A thread that leaves attach_broker's loop, or whose initial resize fails,
\* never removes the registration of another broker.
OnlyOwnRegistrationUndone ==
  [][\A c \in Conns :
       thread[c] \in {"finish", "resize"} /\ thread'[c] \in {"done", "failed"}
         => broker' = broker \/ broker.conn = c]_vars

\* Snapshot and registration are one critical section, append and clone
\* another: the bytes a broker is sent beyond its replay are exactly the
\* output since it attached, each once and in order, up to what the reader
\* holds for it.
LiveStreamExact ==
  \A c \in Conns : token[c] # 0 =>
    /\ \A i, j \in 1 .. Len(view[c]) :
         i < j /\ view[c][i] > base[c] /\ view[c][j] > base[c]
           => view[c][i] < view[c][j]
    /\ broker.conn = c /\ ~(reader.pc \in {"write", "detach"} /\ reader.to = c)
         => \A p \in base[c] + 1 .. nread :
              \E i \in 1 .. Len(view[c]) : view[c][i] = p

\* A client that was told to exit is not (or no longer) the registered broker:
\* DETACH takes it out of the state before it writes CLIENT_SHOULD_EXIT.
Told(c) == \E i \in 1 .. Len(sent[c]) : sent[c][i] = "CLIENT_SHOULD_EXIT"
ToldClientNotRegistered == \A c \in Conns : Told(c) => broker.conn # c

\* Once the shell has exited the process ends and the socket path is gone,
\* even if the attached broker has stopped reading and the waiter is stuck
\* writing the exit status (shutdown is set before the write).  Under ExitSpec:
\* a refused peer that leaves its socket full keeps the state mutex from the
\* waiter and the accept loop, and the daemon stays.
ShellExitEndsDaemon == (shell = "exited") ~> (main = "exited" /\ ~bound)

\* The PTY reader always comes back to reading the PTY master.
DrainsPty == []<>(reader.pc \in {"read", "done"} \/ ~Alive)

\* The state mutex and the PTY master mutex are always given back, although
\* SESSION_BUSY is written with the first one held and typed input with the
\* second, and both writes may block.
MutexesReleased == []<>(~Alive \/ LockFree) /\ []<>(~Alive \/ MasterFree)

\* A registered broker that is gone is detached by the next output, whatever
\* became of its thread: the failed write is the fallback for every path on
\* which attach_broker leaves its registration behind.  Under ServedSpec: the
\* reader needs the state mutex, which a refused peer that never reads would keep.
OutputFreesDeadBroker ==
  \A c \in Conns :
    (broker.conn = c /\ ~peerOpen[c] /\ reader.pc = "read" /\ pending > 0)
      ~> (broker.conn # c \/ ~Alive)

-----------------------------------------------------------------------------
(* What the documentation says of the daemon, and the code does not keep   *)

\* README.md: "Any second broker attach request whose first broker hasn't yet
\* seen EOF is refused": no broker registers while another one's thread is
\* serving an open connection that nobody asked to detach.
SecondAttachRefused ==
  [][\A c, d \in Conns :
       token'[c] # token[c] /\ thread[d] \in {"attached", "input"}
         => \/ hangup[d] # "open" \/ Told(d)
            \/ \E e \in Conns : thread[e] = "evict" /\ target[e] = d]_vars
=============================================================================
