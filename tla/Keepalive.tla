------------------------------ MODULE Keepalive ------------------------------
(***************************************************************************)
(* Keepalive on one attached connection, with time: the client's loop      *)
(* (run_attached_session, client.rs), the broker's two proxy threads and   *)
(* its monitor (proxy_attached_session, spawn_keepalive_monitor,           *)
(* server.rs), and the ssh connection and daemon socket they share.        *)
(*                                                                         *)
(* Time advances in ticks.  A timer is the number of ticks it has left.    *)
(* While nothing is wrong a frame waits at most Latency ticks and a        *)
(* thread acts at once; a fault (an outage, a reset, a dead client, a      *)
(* daemon that stops taking input, a terminal that stops taking output)    *)
(* suspends that and any thread may then block in a write.                 *)
(*                                                                         *)
(* Frames are counted; only the place of the one PING or PONG in its       *)
(* queue is kept, since the client never has two pings outstanding.        *)
(***************************************************************************)
EXTENDS Naturals

CONSTANTS
  Interval,     \* KEEPALIVE_INTERVAL (15 s)
  PongTimeout,  \* KEEPALIVE_TIMEOUT (45 s)
  PingTimeout,  \* BROKER_KEEPALIVE_TIMEOUT (45 s)
  Latency,      \* ticks a frame takes at most while nothing is wrong
  UpCap,        \* frames the ssh pipe takes that the broker has not read
  DownCap,      \* frames that fit between a broker and a client cut off
  SocketCap,    \* frames the broker's socket to the daemon buffers
  NonceMod,     \* nonces are added modulo this (2^64 in the code)
  MaxFaults     \* bound on the faults of a behaviour

ASSUME TimingAssumption ==
  /\ Interval \in Nat \ {0} /\ Latency \in Nat
  /\ PongTimeout \in Nat /\ 2 * Latency < PongTimeout
  /\ PingTimeout \in Nat /\ Interval + 2 * Latency < PingTimeout
  /\ PongTimeout =< PingTimeout
ASSUME KeepaliveBounds ==
  /\ UpCap \in Nat \ {0} /\ DownCap \in Nat \ {0} /\ SocketCap \in Nat \ {0}
  /\ NonceMod \in Nat \ {0, 1} /\ MaxFaults \in Nat

VARIABLES
  enabled,    \* keepalive.v1 negotiated (both ends agree)
  \* the client
  client,     \* where its main thread is
  nextPing,   \* ticks until next_keepalive
  pending,    \* pending_keepalive is Some
  deadline,   \* ticks until its deadline
  nonce,      \* keepalive_nonce
  \* the ssh connection; a frame is near when its reader can get it
  link, upNear, upFar, downNear, downFar,
  pingAt,     \* place of the PING among the frames to the broker, or 0
  pongAt,     \* place of the PONG among the frames to the client, or 0
  carried,    \* the nonce in that PING or PONG
  age,        \* ticks since it was sent
  brokerEof, clientEof,  \* the end of the connection has arrived
  \* the broker
  broker,     \* the process
  c2d,        \* the thread client_to_daemon
  d2c,        \* the main thread, daemon to client
  monitor, pingLeft, events,  \* the monitor, its timer, its channel
  \* the daemon's end
  socket,     \* the broker's end: open, shut for writing, shut
  daemonOpen, \* the daemon has not closed its end
  dIn,        \* frames in the socket to the daemon
  stalled,    \* the daemon does not take input: its PTY write blocks
  \* history
  faults,     \* the faults that have happened
  late        \* ticks that one end has been gone and the other has not
              \* noticed (the client's only while it is in its loop)

clientVars  == <<client, nextPing, pending, deadline, nonce>>
upVars      == <<upNear, upFar, pingAt>>
downVars    == <<downNear, downFar, pongAt>>
linkVars    == <<link, brokerEof, clientEof>>
monitorVars == <<monitor, pingLeft, events>>
brokerVars  == <<broker, c2d, d2c, monitorVars>>
daemonVars  == <<socket, daemonOpen, dIn, stalled>>
histVars    == <<faults, late>>
vars == <<enabled, clientVars, upVars, downVars, linkVars, carried, age,
          brokerVars, daemonVars, histVars>>

\* Bounds on the time either end takes to notice, and on counting it.
NoticeClient == 2 * PingTimeout - Interval
NoticeBroker == 2 * (Interval + PongTimeout) - 1
LateMax == NoticeClient + NoticeBroker

\* Every variable has its type; a PING or PONG has a place within its queue,
\* and there is at most one of them.
TypeOK ==
  /\ enabled \in BOOLEAN
  /\ client \in {"loop", "ping", "resize", "event", "input", "printing",
                "left", "timedout"}
  /\ nextPing \in 0 .. Interval
  /\ pending \in BOOLEAN /\ deadline \in 0 .. PongTimeout
  /\ nonce \in 0 .. NonceMod - 1 /\ carried \in 0 .. NonceMod - 1
  /\ link \in {"up", "outage"}
  /\ brokerEof \in BOOLEAN /\ clientEof \in BOOLEAN
  /\ upNear \in Nat /\ upFar \in Nat /\ upNear + upFar =< UpCap
  /\ downNear \in Nat /\ downFar \in Nat
  /\ pingAt \in 0 .. upNear + upFar /\ pongAt \in 0 .. downNear + downFar
  /\ pingAt = 0 \/ pongAt = 0
  /\ age \in Nat
  /\ broker \in {"proxy", "exited"}
  /\ c2d \in {"read", "input", "pong", "ended"}
  /\ d2c \in {"read", "write", "closing"}
  /\ monitor \in {"off", "wait", "fired"}
  /\ pingLeft \in 0 .. PingTimeout /\ events \in Nat
  /\ socket \in {"open", "eof", "shut"} /\ daemonOpen \in BOOLEAN
  /\ dIn \in 0 .. SocketCap /\ stalled \in BOOLEAN
  /\ faults \in 0 .. MaxFaults /\ late \in 0 .. LateMax

\* The session is attached and both ends have just started; on a terminal the
\* client sends its window size first.
Init ==
  /\ enabled \in BOOLEAN
  /\ client \in {"loop", "resize"}
  /\ nextPing = Interval /\ pending = FALSE /\ deadline = 0 /\ nonce = 0
  /\ link = "up" /\ brokerEof = FALSE /\ clientEof = FALSE
  /\ upNear = 0 /\ upFar = 0 /\ downNear = 0 /\ downFar = 0
  /\ pingAt = 0 /\ pongAt = 0 /\ carried = 0 /\ age = 0
  /\ broker = "proxy" /\ c2d = "read" /\ d2c = "read"
  /\ monitor = IF enabled THEN "wait" ELSE "off"
  /\ pingLeft = PingTimeout /\ events = 0
  /\ socket = "open" /\ daemonOpen = TRUE /\ dIn = 0 /\ stalled = FALSE
  /\ faults = 0 /\ late = 0

-----------------------------------------------------------------------------
(* The ssh connection                                                      *)

ClientGone == client \in {"left", "timedout"}
Sending == client \in {"ping", "resize", "input"}

Fault == faults < MaxFaults /\ faults' = faults + 1

\* The place of a marked frame after the first frame has been taken.
Advance(place) == IF place = 0 THEN 0 ELSE place - 1
\* The place of a marked frame if only the first n frames remain.
Kept(place, n) == IF place > n THEN 0 ELSE place

\* The client's end of the ssh pipe takes another frame.
CanSend == upNear + upFar < UpCap

\* The broker's stdout takes another frame.  Without an outage the client's
\* reader thread always drains it into an unbounded queue.
CanAnswer == link = "up" \/ downNear + downFar < DownCap

\* A frame (marked = it is a PONG) leaves the broker; once the connection has
\* ended its way out leads nowhere.
ToClient(marked) ==
  IF brokerEof THEN UNCHANGED downVars
  ELSE /\ IF link = "up" THEN downNear' = downNear + 1 /\ UNCHANGED downFar
                         ELSE downFar' = downFar + 1 /\ UNCHANGED downNear
       /\ pongAt' = IF marked THEN downNear + downFar + 1 ELSE pongAt

\* The network stops carrying frames; any of those in flight have arrived.
Outage ==
  /\ link = "up" /\ Fault
  /\ link' = "outage"
  /\ \E n \in 0 .. upNear : upNear' = n /\ upFar' = upNear - n
  /\ \E n \in 0 .. downNear : downNear' = n /\ downFar' = downNear - n
  /\ UNCHANGED <<enabled, clientVars, pingAt, pongAt, brokerEof, clientEof,
                 carried, age, brokerVars, daemonVars, late>>

\* It carries them again: what waited arrives after all.
Heal ==
  /\ link = "outage"
  /\ link' = "up" /\ age' = 0
  /\ upNear' = upNear + upFar /\ upFar' = 0
  /\ downNear' = downNear + downFar /\ downFar' = 0
  /\ UNCHANGED <<enabled, clientVars, pingAt, pongAt, brokerEof, clientEof,
                 carried, brokerVars, daemonVars, histVars>>

\* ssh or sshd gives the connection up: at once on both sides, or during an
\* outage on one.  What has not arrived is lost.
Reset ==
  /\ Fault
  /\ \E toBroker, toClient \in BOOLEAN :
       /\ IF link = "up" THEN toBroker /\ toClient ELSE toBroker # toClient
       /\ IF toBroker
          THEN \E n \in 0 .. upNear :
                 upNear' = n /\ upFar' = 0 /\ pingAt' = Kept(pingAt, n)
          ELSE UNCHANGED upVars
       /\ IF toClient
          THEN \E n \in 0 .. downNear :
                 downNear' = n /\ downFar' = 0 /\ pongAt' = Kept(pongAt, n)
          ELSE UNCHANGED downVars
       /\ brokerEof' = (brokerEof \/ toBroker)
       /\ clientEof' = (clientEof \/ toClient)
       /\ brokerEof' # brokerEof \/ clientEof' # clientEof
  /\ UNCHANGED <<enabled, clientVars, link, carried, age, brokerVars,
                 daemonVars, late>>

\* The end of a process reaches the other side when the network is up.
EofToBroker ==
  /\ ClientGone /\ link = "up" /\ ~brokerEof
  /\ brokerEof' = TRUE
  /\ UNCHANGED <<enabled, clientVars, upVars, downVars, link, clientEof,
                 carried, age, brokerVars, daemonVars, histVars>>
EofToClient ==
  /\ broker = "exited" /\ link = "up" /\ ~clientEof
  /\ clientEof' = TRUE
  /\ UNCHANGED <<enabled, clientVars, upVars, downVars, link, brokerEof,
                 carried, age, brokerVars, daemonVars, histVars>>

-----------------------------------------------------------------------------
(* The client: run_attached_session                                        *)

ClientOnly == UNCHANGED <<enabled, linkVars, brokerVars, daemonVars, late>>

\* run_attached_session returns; its timers go with it.
Leave(how) ==
  /\ client' = how
  /\ nextPing' = 0 /\ pending' = FALSE /\ deadline' = 0
  /\ UNCHANGED <<nonce, upVars, downVars, carried, age>> /\ ClientOnly

\* Mutant: pings are sent on schedule whether or not one is outstanding.
PingDueAlways == enabled /\ nextPing = 0
PingDue == enabled /\ ~pending /\ nextPing = 0
\* Mutant: the deadline is not checked.
NeverOverdue == FALSE
PongOverdue == pending /\ deadline = 0

\* Mutant: the counter does not wrap.
NonceGrows == nonce + 1
NextNonce == (nonce + 1) % NonceMod

\* The head of the loop: first the deadline, then the next ping.
ClientTimeout ==
  client = "loop" /\ PongOverdue /\ Leave("timedout") /\ UNCHANGED faults

\* The deadline of the ping counts from before it is written.
ClientPing ==
  /\ client = "loop" /\ ~PongOverdue /\ PingDue
  /\ nonce' = NextNonce
  /\ client' = "ping" /\ deadline' = PongTimeout
  /\ UNCHANGED <<nextPing, pending, upVars, downVars, carried, age, faults>>
  /\ ClientOnly

\* ... then a new window size ...
Head == client = "loop" /\ ~PongOverdue /\ ~PingDue
ClientResize ==
  /\ Head /\ client' = "resize"
  /\ UNCHANGED <<nextPing, pending, deadline, nonce, upVars, downVars,
                 carried, age, faults>> /\ ClientOnly

\* ... then one event, or none within 50 ms.  Typed input:
AtEvent == Head \/ client = "event"
ClientInput ==
  /\ AtEvent /\ client' = "input"
  /\ UNCHANGED <<nextPing, pending, deadline, nonce, upVars, downVars,
                 carried, age, faults>> /\ ClientOnly
ClientIdle ==
  /\ client = "event" /\ client' = "loop"
  /\ UNCHANGED <<nextPing, pending, deadline, nonce, upVars, downVars,
                 carried, age, faults>> /\ ClientOnly

\* The write to ssh's stdin, which blocks while the pipe is full ...
ClientSend ==
  /\ Sending /\ ~clientEof /\ CanSend
  /\ IF link = "up" THEN upNear' = upNear + 1 /\ UNCHANGED upFar
                    ELSE upFar' = upFar + 1 /\ UNCHANGED upNear
  /\ IF client = "ping"
     THEN /\ pending' = TRUE
          /\ pingAt' = upNear + upFar + 1 /\ carried' = nonce /\ age' = 0
     ELSE UNCHANGED <<pending, pingAt, carried, age>>
  /\ client' \in CASE client = "ping"   -> {"resize", "event"}
                    [] client = "resize" -> {"event"}
                    [] OTHER             -> {"loop"}
  /\ UNCHANGED <<nextPing, deadline, nonce, downVars, faults>> /\ ClientOnly

\* ... and fails once ssh is gone.
ClientSendFails == Sending /\ clientEof /\ Leave("left") /\ UNCHANGED faults

PongReceived == pending' = FALSE /\ deadline' = 0 /\ nextPing' = Interval

\* A frame from the broker: the PONG, or output, whose printing may block.
ClientPong ==
  /\ AtEvent /\ downNear > 0 /\ pongAt = 1
  /\ downNear' = downNear - 1 /\ pongAt' = 0 /\ carried' = 0 /\ age' = 0
  /\ IF pending /\ carried = nonce THEN PongReceived
                                   ELSE UNCHANGED <<pending, deadline, nextPing>>
  /\ client' = "loop"
  /\ UNCHANGED <<nonce, upVars, downFar, faults>> /\ ClientOnly

ClientOutput ==
  /\ AtEvent /\ downNear > 0 /\ pongAt # 1
  /\ downNear' = downNear - 1 /\ pongAt' = Advance(pongAt)
  /\ \/ client' = "loop" /\ UNCHANGED faults
     \/ client' = "printing" /\ Fault
  /\ UNCHANGED <<nextPing, pending, deadline, nonce, upVars, downFar, carried,
                 age>> /\ ClientOnly

ClientPrinted ==
  /\ client = "printing" /\ client' = "loop"
  /\ UNCHANGED <<nextPing, pending, deadline, nonce, upVars, downVars,
                 carried, age, faults>> /\ ClientOnly

ClientEnd ==
  AtEvent /\ clientEof /\ downNear = 0 /\ Leave("left") /\ UNCHANGED faults

ClientDies == ~ClientGone /\ Leave("left") /\ Fault

-----------------------------------------------------------------------------
(* The broker's thread from client to daemon                               *)

C2dOnly == UNCHANGED <<enabled, clientVars, linkVars, broker, d2c, monitor,
                       pingLeft, daemonOpen, stalled, histVars>>

\* A PING is reported to the monitor, if that still listens, before it is
\* answered.
ReportPing ==
  events' = IF pingAt = 1 /\ monitor = "wait" THEN events + 1 ELSE events

\* A PING is answered here, every other frame goes on to the daemon.  (After a
\* DETACH the thread would end; an attached client sends none.)
C2dRead ==
  /\ broker = "proxy" /\ c2d = "read" /\ upNear > 0
  /\ upNear' = upNear - 1 /\ pingAt' = Advance(pingAt)
  /\ ReportPing
  /\ c2d' = IF pingAt = 1 THEN "pong" ELSE "input"
  /\ UNCHANGED <<upFar, downVars, carried, age, socket, dIn>> /\ C2dOnly

\* Answering may block (an outage has filled stdout) or fail, and a failure
\* ends the thread without shutting the socket down.
C2dPong ==
  /\ broker = "proxy" /\ c2d = "pong"
  /\ \/ brokerEof /\ c2d' = "ended" /\ UNCHANGED <<downVars, age>>
     \/ /\ CanAnswer /\ ToClient(TRUE) /\ age' = 0 /\ c2d' = "read"
  /\ UNCHANGED <<upVars, carried, events, socket, dIn>> /\ C2dOnly

\* So may the write to the daemon.
C2dInput ==
  /\ broker = "proxy" /\ c2d = "input"
  /\ \/ /\ socket = "open" /\ daemonOpen /\ dIn < SocketCap
        /\ dIn' = dIn + 1 /\ c2d' = "read"
     \/ (socket = "shut" \/ ~daemonOpen) /\ c2d' = "ended" /\ UNCHANGED dIn
  /\ UNCHANGED <<upVars, downVars, carried, age, events, socket>> /\ C2dOnly

ShutdownWrite == socket' = IF socket = "open" THEN "eof" ELSE socket

C2dEnd ==
  /\ broker = "proxy" /\ c2d = "read" /\ upNear = 0 /\ brokerEof
  /\ ShutdownWrite /\ c2d' = "ended"
  /\ UNCHANGED <<upVars, downVars, carried, age, events, dIn>> /\ C2dOnly

-----------------------------------------------------------------------------
(* The broker's main thread, from daemon to client                         *)

D2cOnly == UNCHANGED <<enabled, clientVars, upVars, linkVars, carried, age,
                       dIn, stalled, histVars>>

\* Returning ends the process, its other threads included; its descriptors are
\* closed.
Exit == /\ broker' = "exited" /\ socket' = "shut" /\ c2d' = "ended"
        /\ pingLeft' = 0 /\ events' = 0 /\ UNCHANGED monitor
Stay == UNCHANGED <<broker, socket, c2d, monitorVars>>

\* Output, or a frame after which the broker closes (SESSION_BUSY, EXIT_STATUS,
\* CLIENT_SHOULD_EXIT, ERROR): the daemon has closed its end after that one.
\* Bound: output stops while DownCap frames wait on a working connection.
D2cRead ==
  /\ broker = "proxy" /\ d2c = "read" /\ socket # "shut" /\ daemonOpen
  /\ \/ /\ link = "outage" \/ downNear + downFar < DownCap
        /\ d2c' = "write" /\ UNCHANGED daemonOpen
     \/ d2c' = "closing" /\ daemonOpen' = FALSE
  /\ UNCHANGED downVars /\ Stay /\ D2cOnly

D2cWrite ==
  /\ broker = "proxy" /\ d2c \in {"write", "closing"}
  /\ \/ brokerEof /\ Exit /\ UNCHANGED downVars
     \/ /\ CanAnswer /\ ToClient(FALSE)
        /\ IF d2c = "closing" THEN Exit ELSE Stay
  /\ d2c' = "read"
  /\ UNCHANGED daemonOpen /\ D2cOnly

D2cEnd ==
  /\ broker = "proxy" /\ d2c = "read" /\ (socket = "shut" \/ ~daemonOpen)
  /\ Exit
  /\ UNCHANGED <<d2c, downVars, daemonOpen>> /\ D2cOnly

-----------------------------------------------------------------------------
(* The broker's monitor: spawn_keepalive_monitor                           *)

MonitorOnly == UNCHANGED <<enabled, clientVars, upVars, downVars, linkVars,
                           carried, age, broker, c2d, d2c, daemonOpen, dIn,
                           stalled, histVars>>

\* Mutant: recv_timeout goes on with the time that was left.
KeepTimer == UNCHANGED pingLeft
RestartTimer == pingLeft' = PingTimeout

MonitorPing ==
  /\ broker = "proxy" /\ monitor = "wait" /\ events > 0
  /\ events' = events - 1 /\ RestartTimer
  /\ UNCHANGED <<monitor, socket>> /\ MonitorOnly

\* Mutant: the timeout ends the monitor only.
FireNothing == UNCHANGED socket
Fire == socket' = "shut"
MonitorTimeout ==
  /\ broker = "proxy" /\ monitor = "wait" /\ events = 0 /\ pingLeft = 0
  /\ monitor' = "fired" /\ Fire
  /\ UNCHANGED <<pingLeft, events>> /\ MonitorOnly

-----------------------------------------------------------------------------
(* The daemon's end (Daemon details it) and time                           *)

DaemonOnly == UNCHANGED <<enabled, clientVars, upVars, downVars, linkVars,
                          carried, age, brokerVars, socket, late>>

DaemonTake ==
  /\ dIn > 0 /\ ~stalled /\ daemonOpen
  /\ dIn' = dIn - 1
  /\ UNCHANGED <<daemonOpen, stalled, faults>> /\ DaemonOnly

\* The shell stops reading, and may read again.
DaemonStall ==
  /\ ~stalled /\ stalled' = TRUE /\ Fault
  /\ UNCHANGED <<daemonOpen, dIn>> /\ DaemonOnly

DaemonResume ==
  /\ stalled /\ stalled' = FALSE
  /\ UNCHANGED <<daemonOpen, dIn, faults>> /\ DaemonOnly

\* The daemon has read the end of the connection and closes its own.
DaemonClose ==
  /\ socket # "open" /\ dIn = 0 /\ ~stalled /\ daemonOpen
  /\ daemonOpen' = FALSE
  /\ UNCHANGED <<dIn, stalled, faults>> /\ DaemonOnly

\* Time does not pass while a thread can do what is due.
ClientActs == \/ client = "event"
              \/ client = "loop" /\ (PongOverdue \/ PingDue)
              \/ Sending /\ (clientEof \/ CanSend)
MonitorActs == broker = "proxy" /\ monitor = "wait" /\ (events > 0 \/ pingLeft = 0)
\* A PING has travelled long enough, or the client waits for the pipe.
UpLate == (pingAt > 0 /\ age >= Latency) \/ Sending
C2dActs == /\ broker = "proxy"
           /\ \/ UpLate /\ c2d = "read" /\ upNear > 0
              \/ UpLate /\ c2d = "input" /\ (~stalled \/ socket = "shut")
              \/ c2d = "pong" /\ (brokerEof \/ CanAnswer)
D2cActs == /\ broker = "proxy"
           /\ \/ d2c = "read" /\ (socket = "shut" \/ ~daemonOpen)
              \/ d2c = "closing" /\ (brokerEof \/ CanAnswer)
              \/ d2c = "write" /\ ~brokerEof /\ CanAnswer
PongActs == pongAt > 0 /\ age >= Latency /\ downNear > 0 /\ client = "loop"

\* One end is gone and the other carries on.
Bereft == enabled /\ IF ClientGone THEN socket = "open" ELSE socket = "shut"

Down(n) == IF n = 0 THEN 0 ELSE n - 1
Tick ==
  /\ ~ClientActs /\ ~MonitorActs /\ ~C2dActs /\ ~D2cActs /\ ~PongActs
  /\ nextPing' = Down(nextPing) /\ deadline' = Down(deadline)
  /\ pingLeft' = Down(pingLeft)
  /\ age' = IF pingAt + pongAt > 0 /\ age < Latency THEN age + 1 ELSE age
  /\ late' = IF ~Bereft THEN 0
             ELSE IF (ClientGone \/ client = "loop") /\ late < LateMax
                  THEN late + 1 ELSE late
  /\ UNCHANGED <<enabled, client, pending, nonce, upVars,
                 downVars, linkVars, carried, broker, c2d, d2c, monitor,
                 events, daemonVars, faults>>

-----------------------------------------------------------------------------
(* The specification                                                       *)

ClientStep == \/ ClientTimeout \/ ClientPing \/ ClientSend \/ ClientSendFails
              \/ ClientPong \/ ClientOutput \/ ClientIdle \/ ClientEnd
C2dStep == C2dRead \/ C2dPong \/ C2dInput \/ C2dEnd
D2cStep == D2cWrite \/ D2cEnd
MonitorStep == MonitorPing \/ MonitorTimeout
DaemonStep == DaemonTake \/ DaemonClose
LinkStep == EofToBroker \/ EofToClient
Environment == \/ Outage \/ Heal \/ Reset \/ ClientDies \/ ClientResize
               \/ ClientInput \/ ClientPrinted \/ D2cRead \/ DaemonStall
               \/ DaemonResume

Next == \/ ClientStep \/ C2dStep \/ D2cStep \/ MonitorStep \/ DaemonStep
        \/ LinkStep \/ Environment \/ Tick

Spec == Init /\ [][Next]_vars

-----------------------------------------------------------------------------
(* Properties                                                              *)

\* Neither end gives a working connection up: while no fault has happened and
\* the broker is proxying, the client's wait for a PONG and the monitor's wait
\* for a PING do not run out, if a round trip is shorter than the first and,
\* with the interval, than the second (the client times a ping from the last
\* pong, not from the last ping).
NoFalseAlarm ==
  faults = 0 /\ broker = "proxy" => client # "timedout" /\ monitor # "fired"

\* The broker lets go of the session in bounded time once the client is gone,
\* also if nothing tells it so, if its threads are stuck in writes, or if the
\* last PING waited behind input: within twice its timeout less an interval,
\* as at most one PING is ever left to be read.
ReleasedInTime == enabled /\ ClientGone /\ socket = "open" => late =< NoticeClient

\* The client, unless blocked in a write, leaves in bounded time once the
\* broker has let go of the session, also if no end of file ever reaches it.
\* A broker that let go may still be stuck in a write: the client pings it
\* after an interval, and one PONG can still arrive, just before its deadline.
\* Then one more ping is tried.
NoticedInTime == enabled /\ ~ClientGone /\ socket = "shut" => late =< NoticeBroker

\* The PONG on its way is the one the client waits for, so the nonce check
\* never drops an answer.
PongMatches ==
  (pingAt > 0 \/ pongAt > 0 \/ c2d = "pong") /\ ~ClientGone /\ ~clientEof
    => pending /\ carried = nonce
=============================================================================
