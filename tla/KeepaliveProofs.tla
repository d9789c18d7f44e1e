--------------------------- MODULE KeepaliveProofs ---------------------------
(***************************************************************************)
(* Machine-checked facts about Keepalive, for all intervals, timeouts and  *)
(* latencies that TimingAssumption allows, all capacities and any number   *)
(* of faults.                                                              *)
(***************************************************************************)
EXTENDS Keepalive, TLAPS

-----------------------------------------------------------------------------
(* The inductive invariants                                                *)

\* A ping is outstanding: on its way, being answered, or answered.
Token == pingAt > 0 \/ pongAt > 0 \/ c2d = "pong"

\* TypeOK and PongMatches are not inductive.  What they need is that nothing is
\* far on a connection that works, that a ping outstanding is the one the
\* client waits for and the only one, and who has ended when.
TokenInv ==
  /\ link = "up" => upFar = 0 /\ downFar = 0
  /\ c2d = "pong" => pingAt = 0 /\ pongAt = 0
  /\ Token /\ ~ClientGone => pending /\ carried = nonce
  /\ client = "ping" => ~pending /\ enabled /\ nextPing = 0
  /\ pending => enabled /\ ~ClientGone
  /\ monitor = "off" <=> ~enabled
  /\ broker = "exited" => socket = "shut"
  /\ monitor = "fired" => socket = "shut"
  /\ socket = "shut" => broker = "exited" \/ monitor = "fired"

\* Without a fault and while the broker is proxying nothing has gone wrong, a
\* ping that is awaited is outstanding, and both timers have at least the time
\* left that the rest of its way can take.
Healthy ==
  /\ link = "up" /\ ~brokerEof /\ ~clientEof /\ ~stalled /\ socket = "open"
  /\ ~ClientGone /\ client # "printing" /\ monitor # "fired"
  /\ daemonOpen \/ d2c = "closing"
  /\ c2d = "ended" => ~daemonOpen
PongInTime ==
  /\ pending => Token
  /\ client = "ping" => deadline = PongTimeout
  /\ pingAt > 0 => age =< Latency /\ PongTimeout =< deadline + age
  /\ c2d = "pong" => PongTimeout =< deadline + Latency
  /\ pongAt > 0 => age =< Latency /\ PongTimeout =< deadline + Latency + age
PingInTime ==
  monitor = "wait" /\ events = 0 =>
    /\ ~pending => PingTimeout + nextPing =< pingLeft + Latency + Interval
    /\ pingAt > 0 => PingTimeout =< pingLeft + Latency + Interval + age
    /\ c2d = "pong" => pingLeft = PingTimeout
    /\ pongAt > 0 => PingTimeout =< pingLeft + age
Calm == faults = 0 /\ broker = "proxy"
CalmInv == Calm => Healthy /\ PongInTime /\ PingInTime

\* While the broker holds the session, what the monitor's timer has left and
\* the time since the client went stay within the bound: a PING still to be
\* read was sent at least an interval after the timer was last started.
ReleaseInv ==
  /\ ~ClientGone /\ socket # "shut" => late = 0
  /\ enabled /\ socket = "open" =>
       /\ pingAt > 0
            => events = 0 /\ late + pingLeft + Interval =< PingTimeout
       /\ ~ClientGone /\ ~pending =>
            /\ events = 0 => pingLeft + Interval =< PingTimeout + nextPing
            /\ events > 0 => nextPing = Interval
       /\ ClientGone =>
            /\ events > 0 => late + Interval =< PingTimeout
            /\ events = 0 => late + pingLeft + Interval =< 2 * PingTimeout

\* No PONG comes any more.
Mute == pongAt = 0 /\ (broker = "exited" \/ brokerEof)
\* The broker exits before time passes.
Exiting == /\ broker = "proxy" /\ ~brokerEof
           /\ d2c = "read" \/ downNear + downFar = 0

\* Once the broker has let go of the session, the client's timer and the time
\* since then stay within a first bound until the last PONG arrives, and within
\* a second from then on.  The broker that sends that PONG has nothing else to
\* send: as soon as it is taken, the broker's writes succeed and it exits.  (A
\* PONG sent before the broker let go is taken past its deadline, after a write
\* that took all of that time, or never.)
Severed == enabled /\ socket = "shut" /\ ~ClientGone
AnsweredInTime ==
  enabled /\ socket # "shut" /\ ~ClientGone /\ events = 0
    => (pongAt > 0 \/ c2d = "pong" => deadline =< pingLeft)
FirstWait ==
  /\ late + deadline =< Interval + PongTimeout
  /\ deadline = 0 /\ client # "loop" => late < Interval + PongTimeout
SecondWait == Mute /\ late + deadline < 2 * (Interval + PongTimeout)
FirstPause == late + nextPing =< Interval
SecondPause == /\ Mute \/ (Exiting /\ nextPing > 0)
               /\ late + nextPing < 2 * Interval + PongTimeout
LastPong == \/ pongAt = downNear + downFar
            \/ d2c = "read"
            \/ deadline = 0 /\ late = 0
NoticeInv ==
  /\ AnsweredInTime
  /\ Severed /\ pending => FirstWait \/ SecondWait
  /\ Severed /\ ~pending => FirstPause \/ SecondPause
  /\ Severed /\ broker = "proxy" /\ ~brokerEof /\ pongAt > 0 => LastPong

-----------------------------------------------------------------------------
(* Type correctness                                                        *)

ClientTypes ==
  /\ enabled \in BOOLEAN
  /\ client \in {"loop", "ping", "resize", "event", "input", "printing",
                "left", "timedout"}
  /\ nextPing \in 0 .. Interval
  /\ pending \in BOOLEAN /\ deadline \in 0 .. PongTimeout
  /\ nonce \in 0 .. NonceMod - 1 /\ carried \in 0 .. NonceMod - 1
  /\ age \in Nat
QueueTypes ==
  /\ link \in {"up", "outage"}
  /\ brokerEof \in BOOLEAN /\ clientEof \in BOOLEAN
  /\ upNear \in Nat /\ upFar \in Nat /\ upNear + upFar =< UpCap
  /\ downNear \in Nat /\ downFar \in Nat
  /\ pingAt \in 0 .. upNear + upFar /\ pongAt \in 0 .. downNear + downFar
  /\ pingAt = 0 \/ pongAt = 0
BrokerTypes ==
  /\ broker \in {"proxy", "exited"}
  /\ c2d \in {"read", "input", "pong", "ended"}
  /\ d2c \in {"read", "write", "closing"}
  /\ monitor \in {"off", "wait", "fired"}
  /\ pingLeft \in 0 .. PingTimeout /\ events \in Nat
  /\ socket \in {"open", "eof", "shut"} /\ daemonOpen \in BOOLEAN
  /\ dIn \in 0 .. SocketCap /\ stalled \in BOOLEAN
HistTypes == faults \in 0 .. MaxFaults /\ late \in 0 .. LateMax

\* The type invariant by component.
LEMMA TypeParts ==
  /\ TypeOK => ClientTypes /\ QueueTypes /\ BrokerTypes /\ HistTypes
  /\ ClientTypes' /\ QueueTypes' /\ BrokerTypes' /\ HistTypes' => TypeOK'
BY DEF TypeOK, ClientTypes, QueueTypes, BrokerTypes, HistTypes

\* The constants as the proofs use them.
LEMMA Constants ==
  /\ Interval \in Nat /\ Interval > 0 /\ Latency \in Nat
  /\ PongTimeout \in Nat /\ 2 * Latency < PongTimeout
  /\ PingTimeout \in Nat /\ Interval + 2 * Latency < PingTimeout
  /\ PongTimeout =< PingTimeout
  /\ UpCap \in Nat /\ UpCap > 0 /\ DownCap \in Nat /\ DownCap > 0
  /\ SocketCap \in Nat /\ SocketCap > 0 /\ MaxFaults \in Nat
  /\ NonceMod \in Nat /\ NonceMod > 1
  /\ NoticeClient \in Nat /\ NoticeBroker \in Nat /\ LateMax \in Nat
BY TimingAssumption, KeepaliveBounds DEF NoticeClient, NoticeBroker, LateMax

USE DEF clientVars, upVars, downVars, linkVars, monitorVars, brokerVars,
        daemonVars, histVars

\* The actions of the client, and all the others but Tick.
ClientMoves ==
  \/ ClientTimeout \/ ClientPing \/ ClientResize \/ ClientInput \/ ClientIdle
  \/ ClientSend \/ ClientSendFails \/ ClientPong \/ ClientOutput
  \/ ClientPrinted \/ ClientEnd \/ ClientDies
LinkMoves == Outage \/ Heal \/ Reset \/ EofToBroker \/ EofToClient
BrokerMoves == C2dStep \/ D2cRead \/ D2cStep \/ MonitorStep
DaemonMoves == DaemonTake \/ DaemonStall \/ DaemonResume \/ DaemonClose

\* There are no other steps.
LEMMA Moves ==
  Next <=> ClientMoves \/ LinkMoves \/ BrokerMoves \/ DaemonMoves \/ Tick
BY DEF Next, ClientStep, D2cStep, DaemonStep, LinkStep, Environment,
       ClientMoves, LinkMoves, BrokerMoves, DaemonMoves

\* The nonce wraps around within its width.
LEMMA NonceType == ASSUME ClientTypes PROVE NextNonce \in 0 .. NonceMod - 1
BY Constants DEF ClientTypes, NextNonce

\* The parts of the type invariant are kept: by the client ...
LEMMA ClientMovesTypes ==
  ASSUME TypeOK, TokenInv, ClientMoves
  PROVE  TypeOK'
<1> USE TypeParts, Constants
<1>1. ClientTypes'
  <2>1. CASE ClientPing \/ ClientResize \/ ClientInput \/ ClientIdle
             \/ ClientPrinted
    BY <2>1, NonceType DEF ClientTypes, ClientPing, ClientResize, ClientInput,
                           ClientIdle, ClientPrinted, ClientOnly
  <2>2. CASE ClientSend
    <3>1. /\ UNCHANGED <<enabled, nextPing, deadline, nonce>>
          /\ pending' \in {pending, TRUE} /\ carried' \in {carried, nonce}
          /\ age' \in {age, 0} /\ client' \in {"resize", "event", "loop"}
      BY <2>2 DEF ClientSend, ClientOnly
    <3>2. pending' \in BOOLEAN /\ enabled' \in BOOLEAN
      BY <3>1, Zenon DEF ClientTypes
    <3>3. /\ nextPing' \in 0 .. Interval /\ deadline' \in 0 .. PongTimeout
          /\ nonce' \in 0 .. NonceMod - 1 /\ carried' \in 0 .. NonceMod - 1
          /\ age' \in Nat
      BY <3>1 DEF ClientTypes
    <3> QED BY <3>1, <3>2, <3>3 DEF ClientTypes
  <2>3. CASE ClientPong \/ ClientOutput
    <3>1. /\ UNCHANGED <<enabled, nonce>> /\ client' \in {"loop", "printing"}
          /\ pending' \in {pending, FALSE} /\ deadline' \in {deadline, 0}
          /\ nextPing' \in {nextPing, Interval}
          /\ carried' \in {carried, 0} /\ age' \in {age, 0}
      BY <2>3 DEF ClientPong, ClientOutput, PongReceived, ClientOnly
    <3>2. pending' \in BOOLEAN /\ enabled' \in BOOLEAN
      BY <3>1, Zenon DEF ClientTypes
    <3>3. /\ nextPing' \in 0 .. Interval /\ deadline' \in 0 .. PongTimeout
          /\ nonce' \in 0 .. NonceMod - 1 /\ carried' \in 0 .. NonceMod - 1
          /\ age' \in Nat
      BY <3>1 DEF ClientTypes
    <3> QED BY <3>1, <3>2, <3>3 DEF ClientTypes
  <2>4. CASE ClientTimeout \/ ClientSendFails \/ ClientEnd \/ ClientDies
    <3>1. /\ UNCHANGED <<enabled, nonce, carried, age>>
          /\ client' \in {"left", "timedout"}
          /\ pending' = FALSE /\ deadline' = 0 /\ nextPing' = 0
      BY <2>4 DEF ClientTimeout, ClientSendFails, ClientEnd, ClientDies, Leave,
                  ClientOnly
    <3>2. pending' \in BOOLEAN /\ enabled' \in BOOLEAN
      BY <3>1, Zenon DEF ClientTypes
    <3>3. /\ nextPing' \in 0 .. Interval /\ deadline' \in 0 .. PongTimeout
          /\ nonce' \in 0 .. NonceMod - 1 /\ carried' \in 0 .. NonceMod - 1
          /\ age' \in Nat
      BY <3>1 DEF ClientTypes
    <3> QED BY <3>1, <3>2, <3>3 DEF ClientTypes
  <2> QED BY <2>1, <2>2, <2>3, <2>4 DEF ClientMoves
<1>2. QueueTypes'
  BY DEF QueueTypes, TokenInv, Token, ClientMoves, ClientTimeout, ClientPing,
      ClientResize, ClientInput, ClientIdle, ClientSend, ClientSendFails,
      ClientPong, ClientOutput, ClientPrinted, ClientEnd, ClientDies, Leave,
      ClientOnly, Sending, ClientGone, CanSend, Advance, BrokerTypes
<1>3. BrokerTypes' /\ HistTypes'
  BY DEF BrokerTypes, HistTypes, ClientMoves, ClientTimeout, ClientPing,
      ClientResize, ClientInput, ClientIdle, ClientSend, ClientSendFails,
      ClientPong, ClientOutput, ClientPrinted, ClientEnd, ClientDies, Leave,
      ClientOnly, Fault
<1> QED BY <1>1, <1>2, <1>3

\* ... by the connection ...
LEMMA LinkMovesTypes ==
  ASSUME TypeOK, TokenInv, LinkMoves
  PROVE  TypeOK'
<1> USE TypeParts, Constants
<1>1. ClientTypes' /\ BrokerTypes' /\ HistTypes'
  BY DEF ClientTypes, BrokerTypes, HistTypes, LinkMoves, Outage, Heal, Reset,
         EofToBroker, EofToClient, Fault
<1>2. CASE Outage
  BY <1>1, <1>2 DEF Outage, QueueTypes, TokenInv
<1>3. CASE Heal
  BY <1>1, <1>3 DEF Heal, QueueTypes
<1>4. CASE Reset
  BY <1>1, <1>4 DEF Reset, QueueTypes, Kept
<1>5. CASE EofToBroker \/ EofToClient
  BY <1>1, <1>5 DEF EofToBroker, EofToClient, QueueTypes
<1> QED BY <1>2, <1>3, <1>4, <1>5 DEF LinkMoves

\* ... by the broker ...
LEMMA BrokerMovesTypes ==
  ASSUME TypeOK, TokenInv, BrokerMoves
  PROVE  TypeOK'
<1> USE TypeParts, Constants
<1>1. ClientTypes' /\ HistTypes'
  <2>1. UNCHANGED <<enabled, clientVars, carried, histVars>> /\ age' \in {age, 0}
    BY DEF BrokerMoves, C2dStep, C2dRead, C2dPong, C2dInput, C2dEnd, C2dOnly,
           D2cRead, D2cStep, D2cWrite, D2cEnd, D2cOnly, Stay, MonitorStep,
           MonitorPing, MonitorTimeout, MonitorOnly
  <2> QED BY <2>1 DEF ClientTypes, HistTypes
<1>2. BrokerTypes'
  <2>1. CASE C2dRead \/ C2dPong
    <3>1. /\ UNCHANGED <<broker, d2c, monitor, pingLeft, daemonVars>>
          /\ c2d' \in {"read", "input", "pong", "ended"}
          /\ events' \in {events, events + 1}
      BY <2>1 DEF C2dRead, C2dPong, C2dOnly, ReportPing
    <3> QED BY <3>1 DEF BrokerTypes
  <2>2. CASE C2dInput \/ C2dEnd
    BY <2>2 DEF BrokerTypes, C2dInput, C2dEnd, C2dOnly, ShutdownWrite
  <2>3. CASE D2cRead \/ D2cStep
    <3>1. /\ UNCHANGED <<dIn, stalled>> /\ daemonOpen' \in {daemonOpen, FALSE}
          /\ d2c' \in {"read", "write", "closing"}
          /\ Exit \/ Stay
      BY <2>3 DEF D2cRead, D2cStep, D2cWrite, D2cEnd, D2cOnly, BrokerTypes
    <3>2. daemonOpen' \in BOOLEAN /\ stalled' \in BOOLEAN
      BY <3>1, Zenon DEF BrokerTypes
    <3> QED BY <3>1, <3>2 DEF BrokerTypes, Exit, Stay
  <2>4. CASE MonitorStep
    BY <2>4 DEF BrokerTypes, RestartTimer, Fire, MonitorStep, MonitorPing,
                MonitorTimeout, MonitorOnly
  <2> QED BY <2>1, <2>2, <2>3, <2>4 DEF BrokerMoves, C2dStep
<1>3. CASE C2dRead
  BY <1>1, <1>2, <1>3 DEF C2dRead, C2dOnly, QueueTypes, Advance
<1>4. CASE C2dPong
  BY <1>1, <1>2, <1>4 DEF C2dPong, C2dOnly, ToClient, QueueTypes, TokenInv
<1>5. CASE D2cWrite
  BY <1>1, <1>2, <1>5 DEF D2cWrite, D2cOnly, Stay, ToClient, QueueTypes
<1>6. CASE C2dInput \/ C2dEnd \/ D2cRead \/ D2cEnd \/ MonitorStep
  BY <1>1, <1>2, <1>6 DEF QueueTypes, C2dInput, C2dEnd, C2dOnly, D2cRead, D2cEnd,
         D2cOnly, Stay, MonitorStep, MonitorPing, MonitorTimeout, MonitorOnly
<1> QED BY <1>3, <1>4, <1>5, <1>6 DEF BrokerMoves, C2dStep, D2cStep

\* ... by the daemon, and by time.
LEMMA OtherMovesTypes ==
  ASSUME TypeOK, DaemonMoves \/ Tick
  PROVE  TypeOK'
<1> USE TypeParts, Constants
<1>1. CASE DaemonMoves
  <2>1. ClientTypes' /\ QueueTypes'
    BY <1>1 DEF ClientTypes, QueueTypes, DaemonMoves, DaemonTake, DaemonStall,
                DaemonResume, DaemonClose, DaemonOnly
  <2>2. BrokerTypes'
    <3>1. /\ UNCHANGED <<brokerVars, socket>>
          /\ daemonOpen' \in {daemonOpen, FALSE} /\ stalled' \in BOOLEAN
          /\ dIn' = dIn \/ (dIn > 0 /\ dIn' = dIn - 1)
      BY <1>1 DEF BrokerTypes, DaemonMoves, DaemonTake, DaemonStall,
                  DaemonResume, DaemonClose, DaemonOnly
    <3>2. daemonOpen' \in BOOLEAN
      BY <3>1, Zenon DEF BrokerTypes
    <3> QED BY <3>1, <3>2 DEF BrokerTypes
  <2>3. HistTypes'
    BY <1>1 DEF HistTypes, DaemonMoves, DaemonTake, DaemonStall, DaemonResume,
                DaemonClose, DaemonOnly, Fault
  <2> QED BY <2>1, <2>2, <2>3
<1>2. CASE Tick
  <2>1. ClientTypes' /\ QueueTypes'
    BY <1>2 DEF ClientTypes, QueueTypes, Tick, Down
  <2>2. BrokerTypes' /\ HistTypes'
    BY <1>2 DEF BrokerTypes, HistTypes, Tick, Down
  <2> QED BY <2>1, <2>2
<1> QED BY <1>1, <1>2

-----------------------------------------------------------------------------
(* One ping at a time                                                      *)

\* TokenInv is kept: by the client ...
LEMMA ClientMovesToken ==
  ASSUME TypeOK, TokenInv, ClientMoves
  PROVE  TokenInv'
<1> USE TypeParts, Constants DEF TokenInv, Token, ClientGone
<1>0. /\ UNCHANGED <<enabled, link, upFar, downFar, c2d, monitor, broker, socket>>
      \/ ClientSend
  BY DEF ClientMoves, ClientTimeout, ClientPing, ClientResize, ClientInput,
         ClientIdle, ClientSendFails, ClientPong, ClientOutput, ClientPrinted,
         ClientEnd, ClientDies, Leave, ClientOnly
<1>1. CASE ClientPing
  BY <1>1 DEF ClientPing, PingDue, ClientOnly, ClientTypes, QueueTypes
<1>2. CASE ClientResize \/ ClientInput \/ ClientIdle \/ ClientPrinted
  BY <1>2 DEF ClientResize, ClientInput, ClientIdle, ClientPrinted, AtEvent,
              Head, ClientOnly
<1>3. CASE ClientSend
  BY <1>3 DEF ClientSend, Sending, ClientOnly, QueueTypes, ClientTypes
<1>4. CASE ClientPong
  BY <1>4 DEF ClientPong, AtEvent, Head, PongReceived, ClientOnly, QueueTypes
<1>5. CASE ClientOutput
  BY <1>5 DEF ClientOutput, AtEvent, Head, Advance, ClientOnly, QueueTypes
<1>6. CASE ClientTimeout \/ ClientSendFails \/ ClientEnd \/ ClientDies
  BY <1>6 DEF ClientTimeout, ClientSendFails, ClientEnd, ClientDies, Leave,
              ClientOnly
<1> QED BY <1>1, <1>2, <1>3, <1>4, <1>5, <1>6 DEF ClientMoves

\* ... by the connection ...
LEMMA LinkMovesToken ==
  ASSUME TypeOK, TokenInv, LinkMoves
  PROVE  TokenInv'
<1> USE TypeParts DEF TokenInv, Token, ClientGone
<1>1. CASE Outage
  BY <1>1 DEF Outage
<1>2. CASE Heal
  BY <1>2 DEF Heal
<1>3. CASE Reset
  BY <1>3 DEF Reset, Kept, QueueTypes
<1>4. CASE EofToBroker \/ EofToClient
  BY <1>4 DEF EofToBroker, EofToClient
<1> QED BY <1>1, <1>2, <1>3, <1>4 DEF LinkMoves

\* ... by the broker ...
LEMMA BrokerMovesToken ==
  ASSUME TypeOK, TokenInv, BrokerMoves
  PROVE  TokenInv'
<1> USE TypeParts DEF TokenInv, Token, ClientGone
<1>1. CASE C2dRead
  BY <1>1 DEF C2dRead, C2dOnly, Advance, QueueTypes
<1>2. CASE C2dPong
  BY <1>2 DEF C2dPong, C2dOnly, ToClient, QueueTypes
<1>3. CASE C2dInput \/ C2dEnd
  BY <1>3 DEF C2dInput, C2dEnd, C2dOnly, ShutdownWrite
<1>4. CASE D2cRead \/ D2cEnd
  BY <1>4 DEF D2cRead, D2cEnd, D2cOnly, Stay, Exit
<1>5. CASE D2cWrite
  BY <1>5 DEF D2cWrite, D2cOnly, Stay, ToClient, Exit, QueueTypes
<1>6. CASE MonitorStep
  BY <1>6 DEF MonitorStep, MonitorPing, MonitorTimeout, MonitorOnly, Fire
<1> QED BY <1>1, <1>2, <1>3, <1>4, <1>5, <1>6 DEF BrokerMoves, C2dStep, D2cStep

\* ... by the daemon, and by time.
LEMMA OtherMovesToken ==
  ASSUME TypeOK, TokenInv, DaemonMoves \/ Tick
  PROVE  TokenInv'
<1> USE TypeParts, Constants DEF TokenInv, Token, ClientGone
<1>1. CASE DaemonMoves
  BY <1>1 DEF DaemonMoves, DaemonTake, DaemonStall, DaemonResume, DaemonClose,
              DaemonOnly
<1>2. CASE Tick
  BY <1>2 DEF Tick, Down, ClientTypes
<1> QED BY <1>1, <1>2

\* Every step keeps the types and the token.
LEMMA TokenStep ==
  ASSUME TypeOK, TokenInv, [Next]_vars
  PROVE  TypeOK' /\ TokenInv'
<1>1. CASE UNCHANGED vars
  BY <1>1 DEF vars, TypeOK, TokenInv, Token, ClientGone
<1>2. CASE Next
  BY <1>2, Moves, ClientMovesTypes, LinkMovesTypes, BrokerMovesTypes,
     OtherMovesTypes, ClientMovesToken, LinkMovesToken, BrokerMovesToken,
     OtherMovesToken
<1> QED BY <1>1, <1>2

\* They hold in every state.
LEMMA TokenInvariant == Spec => [](TypeOK /\ TokenInv)
<1>1. Init => TypeOK /\ TokenInv
  <2> SUFFICES ASSUME Init PROVE TypeOK /\ TokenInv
    OBVIOUS
  <2>1. TypeOK
    <3>1. /\ enabled \in BOOLEAN /\ pending \in BOOLEAN
          /\ brokerEof \in BOOLEAN /\ clientEof \in BOOLEAN
          /\ daemonOpen \in BOOLEAN /\ stalled \in BOOLEAN
      BY Zenon DEF Init
    <3>2. /\ nextPing \in 0 .. Interval /\ deadline \in 0 .. PongTimeout
          /\ nonce \in 0 .. NonceMod - 1 /\ carried \in 0 .. NonceMod - 1
          /\ age \in Nat /\ pingLeft \in 0 .. PingTimeout /\ events \in Nat
          /\ dIn \in 0 .. SocketCap /\ HistTypes
      BY Constants DEF Init, HistTypes
    <3>3. /\ upNear \in Nat /\ upFar \in Nat /\ upNear + upFar =< UpCap
          /\ downNear \in Nat /\ downFar \in Nat
          /\ pingAt \in 0 .. upNear + upFar /\ pongAt \in 0 .. downNear + downFar
          /\ pingAt = 0 \/ pongAt = 0
      BY Constants DEF Init
    <3>4. /\ client \in {"loop", "ping", "resize", "event", "input", "printing",
                         "left", "timedout"}
          /\ link \in {"up", "outage"} /\ broker \in {"proxy", "exited"}
          /\ c2d \in {"read", "input", "pong", "ended"}
          /\ d2c \in {"read", "write", "closing"}
          /\ monitor \in {"off", "wait", "fired"}
          /\ socket \in {"open", "eof", "shut"}
      BY DEF Init
    <3> QED BY <3>1, <3>2, <3>3, <3>4 DEF TypeOK, HistTypes
  <2>2. TokenInv
    BY DEF Init, TokenInv, Token, ClientGone
  <2> QED BY <2>1, <2>2
<1>2. TypeOK /\ TokenInv /\ [Next]_vars => TypeOK' /\ TokenInv'
  BY TokenStep
<1> QED BY <1>1, <1>2, PTL DEF Spec

(***************************************************************************)
(* Every variable of Keepalive has its type: counters and timers stay      *)
(* within their ranges, the nonce within its width, and a PING or a PONG   *)
(* has a place in its queue, of which there is at most one.                *)
(***************************************************************************)
THEOREM TypeCorrect == Spec => []TypeOK
BY TokenInvariant, PTL

(***************************************************************************)
(* The PONG on its way is the one the client waits for, through outages,   *)
(* resets and threads blocked in writes: at most one ping is outstanding,  *)
(* and the nonce check of run_attached_session never drops an answer.      *)
(***************************************************************************)
THEOREM PongCorrect == Spec => []PongMatches
<1>1. TypeOK /\ TokenInv => PongMatches
  BY DEF TokenInv, Token, PongMatches
<1> QED BY <1>1, TokenInvariant, PTL

-----------------------------------------------------------------------------
(* No false alarm                                                          *)

\* Without a fault, time passes only while the client is in its loop, no ping
\* is being answered, and none has travelled its time.
LEMMA CalmTick ==
  ASSUME TypeOK, TokenInv, Calm, Healthy, Tick
  PROVE  /\ client = "loop" /\ c2d # "pong" /\ ~PongOverdue /\ ~PingDue
         /\ Token => age < Latency
         /\ monitor = "wait" => events = 0
<1> USE TypeParts, Constants DEF Calm, Healthy
<1>0. ~ClientActs /\ ~MonitorActs /\ ~C2dActs /\ ~D2cActs /\ ~PongActs
  BY DEF Tick
<1>1. CanAnswer /\ upFar = 0 /\ downFar = 0
  BY DEF CanAnswer, TokenInv
<1>2. c2d \in {"read", "input"}
  <2>1. d2c # "closing"
    BY <1>0, <1>1 DEF D2cActs
  <2> QED BY <1>0, <1>1, <2>1 DEF C2dActs, BrokerTypes
<1>3. ~(UpLate /\ upNear > 0)
  BY <1>0, <1>2 DEF C2dActs
<1>4. ~Sending
  <2> SUFFICES ASSUME Sending PROVE FALSE
    OBVIOUS
  <2>1. ~CanSend
    BY <1>0 DEF ClientActs
  <2>2. upNear > 0
    BY <1>1, <2>1 DEF CanSend, QueueTypes
  <2> QED BY <1>3, <2>2 DEF UpLate
<1>5. client = "loop"
  BY <1>0, <1>4 DEF ClientActs, ClientTypes, ClientGone, Sending
<1>6. ~PongOverdue /\ ~PingDue
  BY <1>0, <1>5 DEF ClientActs
<1>7. ASSUME Token PROVE age < Latency
  <2>1. CASE pingAt > 0
    <3>1. upNear > 0
      BY <1>1, <2>1 DEF QueueTypes
    <3> QED BY <1>3, <2>1, <3>1 DEF UpLate, ClientTypes
  <2>2. CASE pongAt > 0
    <3>1. downNear > 0
      BY <1>1, <2>2 DEF QueueTypes
    <3> QED BY <1>0, <1>5, <2>2, <3>1 DEF PongActs, ClientTypes
  <2> QED BY <1>2, <1>7, <2>1, <2>2 DEF Token
<1>8. monitor = "wait" => events = 0
  BY <1>0 DEF MonitorActs, BrokerTypes
<1> QED BY <1>2, <1>5, <1>6, <1>7, <1>8

\* In the time that passes a ping gets on as far as its timers run down.
LEMMA TickCalm ==
  ASSUME TypeOK, TokenInv, CalmInv, Tick
  PROVE  CalmInv'
<1> SUFFICES ASSUME Calm' PROVE Healthy' /\ PongInTime' /\ PingInTime'
  BY DEF CalmInv
<1>0. Calm /\ Healthy /\ PongInTime /\ PingInTime
  BY DEF Tick, Calm, CalmInv
<1>1. /\ client = "loop" /\ c2d # "pong" /\ ~PongOverdue /\ ~PingDue
      /\ Token => age < Latency
      /\ monitor = "wait" => events = 0
  BY <1>0, CalmTick
<1>2. ClientTypes /\ QueueTypes /\ BrokerTypes
  BY TypeParts
<1>3. /\ UNCHANGED <<enabled, client, pending, upVars, downVars, linkVars, c2d,
                     d2c, monitor, events, daemonVars>>
      /\ nextPing' = Down(nextPing) /\ deadline' = Down(deadline)
      /\ pingLeft' = Down(pingLeft)
      /\ age' = IF pingAt + pongAt > 0 /\ age < Latency THEN age + 1 ELSE age
  BY DEF Tick
<1>4. Healthy'
  BY <1>0, <1>3 DEF Healthy, ClientGone
<1>5. /\ pingAt > 0 \/ pongAt > 0 => age' = age + 1 /\ age + 1 =< Latency
      /\ age' \in Nat
  BY <1>1, <1>2, <1>3, Constants DEF Token, ClientTypes, QueueTypes
<1>6. /\ deadline' \in Nat /\ deadline =< deadline' + 1
      /\ pingLeft' \in Nat /\ pingLeft =< pingLeft' + 1
      /\ nextPing' \in Nat /\ (nextPing > 0 => nextPing' = nextPing - 1)
  BY <1>2, <1>3, Constants DEF Down, ClientTypes, BrokerTypes
<1>7. PongInTime'
  BY <1>0, <1>1, <1>2, <1>3, <1>5, <1>6, Constants
  DEF PongInTime, Token, ClientTypes, QueueTypes
<1>8. monitor = "wait" /\ ~pending => nextPing > 0
  BY <1>1, <1>2 DEF PingDue, TokenInv, ClientTypes
<1>9. PingInTime'
  BY <1>0, <1>1, <1>2, <1>3, <1>5, <1>6, <1>8, Constants
  DEF PingInTime, Token, ClientTypes, QueueTypes, BrokerTypes
<1> QED BY <1>4, <1>7, <1>9

\* The client's steps, without a fault: a ping starts with all of its time, a
\* PONG comes within it and leaves the monitor enough for the next round.
LEMMA ClientCalm ==
  ASSUME TypeOK, TokenInv, CalmInv, ClientMoves
  PROVE  CalmInv'
<1> SUFFICES ASSUME Calm' PROVE Healthy' /\ PongInTime' /\ PingInTime'
  BY DEF CalmInv
<1>0. faults' = faults
  <2>1. faults' = faults \/ Fault
    BY DEF ClientMoves, ClientTimeout, ClientPing, ClientResize, ClientInput,
           ClientIdle, ClientSend, ClientSendFails, ClientPong, ClientOutput,
           ClientPrinted, ClientEnd, ClientDies
  <2> QED BY <2>1, TypeParts DEF Fault, HistTypes, Calm
<1>1. /\ UNCHANGED <<enabled, linkVars, brokerVars, daemonVars>> /\ ~Fault
      /\ Calm /\ Healthy /\ PongInTime /\ PingInTime
  <2>1. UNCHANGED <<enabled, linkVars, brokerVars, daemonVars>>
    BY DEF ClientMoves, ClientTimeout, ClientPing, ClientResize, ClientInput,
           ClientIdle, ClientSend, ClientSendFails, ClientPong, ClientOutput,
           ClientPrinted, ClientEnd, ClientDies, Leave, ClientOnly
  <2>2. ~Fault
    BY <1>0, TypeParts DEF Fault, HistTypes
  <2> QED BY <1>0, <2>1, <2>2 DEF Calm, CalmInv
<1>2. ClientTypes /\ QueueTypes /\ BrokerTypes
  BY TypeParts
<1>3. CASE ClientPing
  <2>1. /\ UNCHANGED <<nextPing, pending, upVars, downVars, age>>
        /\ client' = "ping" /\ deadline' = PongTimeout /\ ~pending
    BY <1>3 DEF ClientPing, PingDue
  <2>2. ~Token
    BY <1>1, <2>1 DEF TokenInv, Healthy
  <2> QED BY <1>1, <1>2, <2>1, <2>2
          DEF Healthy, PongInTime, PingInTime, Token, ClientGone, QueueTypes
<1>4. CASE ClientResize \/ ClientInput \/ ClientIdle \/ ClientPrinted
  <2>1. /\ UNCHANGED <<nextPing, pending, deadline, upVars, downVars, age>>
        /\ client' \in {"resize", "input", "loop"}
    BY <1>4 DEF ClientResize, ClientInput, ClientIdle, ClientPrinted
  <2> QED BY <1>1, <2>1 DEF Healthy, PongInTime, PingInTime, Token, ClientGone
<1>5. CASE ClientSend /\ client # "ping"
  <2>1. /\ UNCHANGED <<nextPing, pending, deadline, pingAt, downVars, age>>
        /\ client' \in {"event", "loop"}
    BY <1>5 DEF ClientSend, Sending
  <2> QED BY <1>1, <2>1 DEF Healthy, PongInTime, PingInTime, Token, ClientGone
<1>6. CASE ClientSend /\ client = "ping"
  <2>1. /\ UNCHANGED <<nextPing, deadline, downVars>> /\ pending' = TRUE
        /\ pingAt' = upNear + upFar + 1 /\ age' = 0
        /\ client' \in {"resize", "event"}
    BY <1>6 DEF ClientSend
  <2>2. ~pending /\ nextPing = 0 /\ ~Token /\ deadline = PongTimeout
    BY <1>1, <1>6 DEF TokenInv, Healthy, PongInTime
  <2> QED BY <1>1, <1>2, <2>1, <2>2, Constants
          DEF Healthy, PongInTime, PingInTime, Token, ClientGone, QueueTypes,
              BrokerTypes
<1>7. CASE ClientPong
  <2>1. pending /\ carried = nonce /\ c2d # "pong" /\ pingAt = 0 /\ pongAt = 1
    BY <1>1, <1>2, <1>7 DEF ClientPong, TokenInv, Token, Healthy, QueueTypes
  <2>2. /\ UNCHANGED upVars /\ pongAt' = 0 /\ client' = "loop" /\ ~pending'
        /\ nextPing' = Interval
    BY <1>7, <2>1 DEF ClientPong, PongReceived
  <2> QED BY <1>1, <1>2, <2>1, <2>2, Constants
          DEF Healthy, PongInTime, PingInTime, Token, ClientGone, ClientTypes,
              BrokerTypes
<1>8. CASE ClientOutput
  <2>1. /\ UNCHANGED <<nextPing, pending, deadline, upVars, age>>
        /\ pongAt' = Advance(pongAt) /\ pongAt # 1 /\ client' = "loop"
    BY <1>1, <1>8 DEF ClientOutput
  <2>2. pongAt' > 0 <=> pongAt > 0
    BY <1>2, <2>1 DEF Advance, QueueTypes
  <2> QED BY <1>1, <2>1, <2>2 DEF Healthy, PongInTime, PingInTime, Token,
                                  ClientGone
<1>9. CASE ClientTimeout
  <2>1. pending /\ deadline = 0
    BY <1>9 DEF ClientTimeout, PongOverdue
  <2> QED BY <1>1, <1>2, <2>1, Constants DEF PongInTime, Token, ClientTypes
<1>10. CASE ClientSendFails \/ ClientEnd \/ ClientDies
  BY <1>1, <1>10 DEF ClientSendFails, ClientEnd, ClientDies, Healthy
<1> QED
  BY <1>3, <1>4, <1>5, <1>6, <1>7, <1>8, <1>9, <1>10 DEF ClientMoves

\* The broker's: the monitor hears of a PING before its time has run out.
LEMMA BrokerCalm ==
  ASSUME TypeOK, TokenInv, CalmInv, BrokerMoves
  PROVE  CalmInv'
<1> SUFFICES ASSUME Calm' PROVE Healthy' /\ PongInTime' /\ PingInTime'
  BY DEF CalmInv
<1>1. /\ UNCHANGED <<enabled, clientVars, linkVars, stalled>>
      /\ Calm /\ Healthy /\ PongInTime /\ PingInTime
  BY DEF Calm, CalmInv, BrokerMoves, C2dStep, C2dRead, C2dPong, C2dInput,
         C2dEnd, C2dOnly, D2cRead, D2cStep, D2cWrite, D2cEnd, D2cOnly, Stay, Exit,
         MonitorStep, MonitorPing, MonitorTimeout, MonitorOnly
<1>2. ClientTypes /\ QueueTypes /\ BrokerTypes
  BY TypeParts
<1>3. CASE C2dRead
  <2>1. /\ UNCHANGED <<downVars, age, monitor, pingLeft, d2c, daemonOpen,
                       socket>>
        /\ pingAt' = Advance(pingAt) /\ upNear > 0
        /\ c2d' = IF pingAt = 1 THEN "pong" ELSE "input"
        /\ events' = IF pingAt = 1 /\ monitor = "wait" THEN events + 1
                                                      ELSE events
        /\ c2d = "read"
    BY <1>3 DEF C2dRead, C2dOnly, ReportPing
  <2>2. CASE pingAt = 1
    BY <1>1, <1>2, <2>1, <2>2, Constants
    DEF Healthy, PongInTime, PingInTime, Token, ClientGone, Advance, QueueTypes,
        ClientTypes, BrokerTypes
  <2>3. CASE pingAt # 1
    <3>1. (pingAt' > 0 <=> pingAt > 0) /\ events' = events /\ c2d' = "input"
      BY <1>2, <2>1, <2>3 DEF Advance, QueueTypes
    <3> QED BY <1>1, <2>1, <3>1
            DEF Healthy, PongInTime, PingInTime, Token, ClientGone
  <2> QED BY <2>2, <2>3
<1>4. CASE C2dPong
  <2>1. /\ UNCHANGED <<upVars, monitor, pingLeft, events, d2c, daemonOpen,
                       socket>>
        /\ ToClient(TRUE) /\ age' = 0 /\ c2d' = "read" /\ c2d = "pong"
    BY <1>1, <1>4 DEF C2dPong, C2dOnly, Healthy
  <2>2. pongAt' > 0 /\ pingAt = 0
    BY <1>1, <1>2, <2>1 DEF ToClient, Healthy, QueueTypes, TokenInv
  <2> QED BY <1>1, <1>2, <2>1, <2>2, Constants
          DEF Healthy, PongInTime, PingInTime, Token, ClientGone, ClientTypes,
              BrokerTypes
<1>5. CASE C2dInput
  <2>1. /\ UNCHANGED <<upVars, downVars, age, monitor, pingLeft, events, d2c,
                       daemonOpen, socket>>
        /\ c2d = "input" /\ c2d' \in {"read", "ended"}
        /\ c2d' = "ended" => socket = "shut" \/ ~daemonOpen
    BY <1>5 DEF C2dInput, C2dOnly
  <2>2. socket # "shut"
    BY <1>1 DEF TokenInv, Calm, Healthy
  <2> QED BY <1>1, <2>1, <2>2
          DEF Healthy, PongInTime, PingInTime, Token, ClientGone
<1>6. CASE C2dEnd
  BY <1>1, <1>6 DEF C2dEnd, Healthy
<1>7. CASE D2cRead
  <2>1. /\ UNCHANGED <<upVars, downVars, age, monitor, pingLeft, events, c2d,
                       socket>>
        /\ daemonOpen' \/ (d2c' = "closing" /\ daemonOpen)
    BY <1>7 DEF D2cRead, D2cOnly, Stay
  <2>2. c2d # "ended"
    BY <1>1, <1>7 DEF D2cRead, Healthy
  <2> QED BY <1>1, <2>1, <2>2
          DEF Healthy, PongInTime, PingInTime, Token, ClientGone
<1>8. CASE D2cWrite
  <2>1. /\ UNCHANGED <<upVars, pongAt, age, monitor, pingLeft, events, c2d,
                       daemonOpen, socket>>
        /\ d2c # "closing"
    BY <1>1, <1>8 DEF D2cWrite, D2cOnly, Stay, ToClient, Exit, Healthy, Calm
  <2> QED BY <1>1, <2>1
          DEF Healthy, PongInTime, PingInTime, Token, ClientGone
<1>9. CASE D2cEnd
  BY <1>9 DEF D2cEnd, Exit, Calm
<1>10. CASE MonitorPing
  <2>1. /\ UNCHANGED <<upVars, downVars, age, monitor, c2d, d2c, daemonOpen,
                       socket>>
        /\ pingLeft' = PingTimeout
    BY <1>10 DEF MonitorPing, MonitorOnly, RestartTimer
  <2> QED BY <1>1, <1>2, <2>1, Constants
          DEF Healthy, PongInTime, PingInTime, Token, ClientGone, ClientTypes
<1>11. CASE MonitorTimeout
  <2>1. monitor = "wait" /\ events = 0 /\ pingLeft = 0
    BY <1>11 DEF MonitorTimeout
  <2> QED BY <1>1, <1>2, <2>1, Constants
          DEF PongInTime, PingInTime, Token, ClientTypes
<1> QED
  BY <1>3, <1>4, <1>5, <1>6, <1>7, <1>8, <1>9, <1>10, <1>11
  DEF BrokerMoves, C2dStep, D2cStep, MonitorStep

\* Those of the connection and of the daemon: only faults disturb anything.
LEMMA OtherCalm ==
  ASSUME TypeOK, TokenInv, CalmInv, LinkMoves \/ DaemonMoves
  PROVE  CalmInv'
<1> SUFFICES ASSUME Calm' PROVE Healthy' /\ PongInTime' /\ PingInTime'
  BY DEF CalmInv
<1>0. ~Fault
  BY TypeParts DEF Fault, HistTypes, Calm
<1>1. /\ EofToBroker \/ EofToClient \/ Heal \/ DaemonTake \/ DaemonResume
         \/ DaemonClose
      /\ Calm /\ Healthy /\ PongInTime /\ PingInTime
  BY <1>0 DEF LinkMoves, DaemonMoves, Outage, Reset, DaemonStall, EofToBroker,
              EofToClient, Heal, DaemonTake, DaemonResume, DaemonClose,
              DaemonOnly, Calm, CalmInv
<1>2. socket # "shut" /\ ~ClientGone /\ link = "up"
  BY <1>1 DEF TokenInv, Calm, Healthy
<1>3. CASE EofToBroker \/ EofToClient \/ Heal
  BY <1>1, <1>2, <1>3 DEF EofToBroker, EofToClient, Heal, Calm
<1>4. CASE DaemonTake \/ DaemonResume
  BY <1>1, <1>4 DEF DaemonTake, DaemonResume, DaemonOnly, Healthy, PongInTime,
                    PingInTime, Token, ClientGone
<1>5. CASE DaemonClose
  BY <1>1, <1>5 DEF DaemonClose, Healthy
<1> QED BY <1>1, <1>3, <1>4, <1>5

\* Without a fault a ping is never late.
LEMMA CalmInvariant == Spec => []CalmInv
<1>1. Init => CalmInv
  BY Constants DEF Init, CalmInv, Calm, Healthy, PongInTime, PingInTime, Token,
                   ClientGone
<1>2. TypeOK /\ TokenInv /\ CalmInv /\ [Next]_vars => CalmInv'
  <2> SUFFICES ASSUME TypeOK, TokenInv, CalmInv, [Next]_vars PROVE CalmInv'
    OBVIOUS
  <2>1. CASE UNCHANGED vars
    BY <2>1 DEF vars, CalmInv, Calm, Healthy, PongInTime, PingInTime, Token,
                ClientGone
  <2>2. CASE Next
    BY <2>2, Moves, ClientCalm, BrokerCalm, OtherCalm, TickCalm
  <2> QED BY <2>1, <2>2
<1> QED BY <1>1, <1>2, TokenInvariant, PTL DEF Spec

(***************************************************************************)
(* Neither end gives a working connection up: a client that times its      *)
(* pings from the last PONG and a monitor that restarts at every PING      *)
(* never run out of time, whatever the interval, the latency and the       *)
(* timeouts, as long as a round trip is shorter than the client's timeout  *)
(* and, with an interval, than the monitor's.                              *)
(***************************************************************************)
THEOREM NoFalseAlarmCorrect == Spec => []NoFalseAlarm
<1>1. CalmInv => NoFalseAlarm
  BY DEF CalmInv, Calm, Healthy, NoFalseAlarm, ClientGone
<1> QED BY <1>1, CalmInvariant, PTL

-----------------------------------------------------------------------------
(* The broker lets go                                                      *)

\* While the broker holds the session its monitor waits.
LEMMA Holding ==
  ASSUME TypeOK, TokenInv, enabled, socket # "shut"
  PROVE  broker = "proxy" /\ monitor = "wait"
BY TypeParts DEF TokenInv, BrokerTypes

\* ReleaseInv is kept: by the client, whose last PING is sent when an interval
\* of the monitor's time has passed ...
LEMMA ClientRelease ==
  ASSUME TypeOK, TokenInv, ReleaseInv, ClientMoves
  PROVE  ReleaseInv'
<1>1. UNCHANGED <<enabled, linkVars, brokerVars, daemonVars, late>>
  BY DEF ClientMoves, ClientTimeout, ClientPing, ClientResize, ClientInput,
         ClientIdle, ClientSend, ClientSendFails, ClientPong, ClientOutput,
         ClientPrinted, ClientEnd, ClientDies, Leave, ClientOnly
<1>2. ClientTypes /\ QueueTypes /\ BrokerTypes /\ HistTypes
  BY TypeParts
<1>3. CASE ClientPing \/ ClientResize \/ ClientInput \/ ClientIdle
           \/ ClientPrinted \/ ClientOutput \/ (ClientSend /\ client # "ping")
  <2>1. /\ UNCHANGED <<nextPing, pending, pingAt>> /\ ~ClientGone
        /\ client' \in {"ping", "resize", "input", "loop", "event", "printing"}
    BY <1>3 DEF ClientPing, ClientResize, ClientInput, ClientIdle, Sending,
                ClientPrinted, ClientOutput, ClientSend, AtEvent, Head, ClientGone
  <2> QED BY <1>1, <2>1 DEF ReleaseInv, ClientGone
<1>4. CASE ClientSend /\ client = "ping"
  <2>1. /\ UNCHANGED nextPing /\ pending' = TRUE
        /\ client' \in {"resize", "event"} /\ ~ClientGone
    BY <1>4 DEF ClientSend, ClientGone
  <2>2. ~pending /\ nextPing = 0
    BY <1>4 DEF TokenInv
  <2> QED BY <1>1, <1>2, <2>1, <2>2, Constants
          DEF ReleaseInv, ClientGone, ClientTypes, BrokerTypes, HistTypes
<1>5. CASE ClientPong
  <2>1. /\ ~ClientGone /\ UNCHANGED pingAt /\ client' = "loop" /\ pongAt = 1
        /\ pending /\ carried = nonce => nextPing' = Interval
    BY <1>5 DEF ClientPong, AtEvent, Head, ClientGone, PongReceived
  <2>2. nextPing' = Interval /\ pingAt = 0
    BY <1>2, <2>1 DEF TokenInv, Token, QueueTypes
  <2> QED BY <1>1, <1>2, <2>1, <2>2, Constants
          DEF ReleaseInv, ClientGone, ClientTypes, BrokerTypes, HistTypes
<1>6. CASE ClientTimeout \/ ClientSendFails \/ ClientEnd \/ ClientDies
  <2>1. ~ClientGone /\ UNCHANGED pingAt /\ client' \in {"left", "timedout"}
    BY <1>6 DEF ClientTimeout, ClientSendFails, ClientEnd, ClientDies, Leave,
                AtEvent, Head, Sending, ClientGone
  <2> QED BY <1>1, <1>2, <2>1, Constants
          DEF ReleaseInv, ClientGone, BrokerTypes, HistTypes
<1> QED BY <1>3, <1>4, <1>5, <1>6 DEF ClientMoves

\* ... by the broker, whose monitor starts again for that PING only ...
LEMMA BrokerRelease ==
  ASSUME TypeOK, TokenInv, ReleaseInv, BrokerMoves
  PROVE  ReleaseInv'
<1>1. UNCHANGED <<enabled, clientVars, late>>
  BY DEF BrokerMoves, C2dStep, C2dRead, C2dPong, C2dInput, C2dEnd, C2dOnly,
         D2cRead, D2cStep, D2cWrite, D2cEnd, D2cOnly, Stay, MonitorStep, MonitorPing,
         MonitorTimeout, MonitorOnly
<1>2. ClientTypes /\ QueueTypes /\ BrokerTypes /\ HistTypes
  BY TypeParts
<1>3. CASE C2dRead
  <2>1. /\ UNCHANGED <<pingLeft, socket>> /\ pingAt' = Advance(pingAt)
        /\ events' = IF pingAt = 1 /\ monitor = "wait" THEN events + 1
                                                      ELSE events
    BY <1>3 DEF C2dRead, C2dOnly, ReportPing
  <2>2. CASE pingAt = 1
    BY <1>1, <1>2, <2>1, <2>2, Constants, Holding
    DEF ReleaseInv, ClientGone, Advance, TokenInv, Token, BrokerTypes, HistTypes
  <2>3. CASE pingAt # 1
    <3>1. (pingAt' > 0 => pingAt > 0) /\ events' = events
      BY <1>2, <2>1, <2>3 DEF Advance, QueueTypes
    <3> QED BY <1>1, <2>1, <3>1 DEF ReleaseInv, ClientGone
  <2> QED BY <2>2, <2>3
<1>4. CASE C2dPong \/ C2dInput \/ C2dEnd \/ D2cRead \/ D2cStep
  <2>1. \/ socket' = "shut"
        \/ /\ UNCHANGED <<pingLeft, events, pingAt>>
           /\ socket' = socket \/ (socket' = "eof" /\ socket # "shut")
    BY <1>2, <1>4 DEF C2dPong, C2dInput, C2dEnd, C2dOnly, ShutdownWrite, D2cRead,
       D2cStep, D2cWrite, D2cEnd, D2cOnly, Stay, Exit, BrokerTypes
  <2> QED BY <1>1, <2>1 DEF ReleaseInv, ClientGone
<1>5. CASE MonitorPing
  <2>1. /\ UNCHANGED <<pingAt, socket>> /\ events > 0
        /\ events' = events - 1 /\ pingLeft' = PingTimeout
    BY <1>5 DEF MonitorPing, MonitorOnly, RestartTimer
  <2> QED BY <1>1, <1>2, <2>1, Constants
          DEF ReleaseInv, ClientGone, ClientTypes, BrokerTypes, HistTypes
<1>6. CASE MonitorTimeout
  BY <1>6 DEF MonitorTimeout, Fire, ReleaseInv
<1> QED BY <1>3, <1>4, <1>5, <1>6
        DEF BrokerMoves, C2dStep, MonitorStep

\* ... and by the connection, the daemon and time.
LEMMA OtherRelease ==
  ASSUME TypeOK, TokenInv, ReleaseInv, LinkMoves \/ DaemonMoves \/ Tick
  PROVE  ReleaseInv'
<1>2. ClientTypes /\ QueueTypes /\ BrokerTypes /\ HistTypes
  BY TypeParts
<1>3. CASE LinkMoves \/ DaemonMoves
  <2>1. UNCHANGED <<enabled, clientVars, pingLeft, events, socket, late>>
    BY <1>3 DEF LinkMoves, Outage, Heal, Reset, EofToBroker, EofToClient,
                DaemonMoves, DaemonTake, DaemonStall, DaemonResume, DaemonClose,
                DaemonOnly
  <2>2. pingAt' \in {pingAt, 0}
    BY <1>3 DEF LinkMoves, Outage, Heal, Reset, Kept, EofToBroker, EofToClient,
                DaemonMoves, DaemonTake, DaemonStall, DaemonResume, DaemonClose,
                DaemonOnly
  <2> QED BY <1>2, <2>1, <2>2 DEF ReleaseInv, ClientGone
<1>4. CASE Tick
  <2>1. /\ UNCHANGED <<enabled, client, pending, pingAt, events, socket>>
        /\ nextPing' = Down(nextPing) /\ pingLeft' = Down(pingLeft)
        /\ late' = IF ~Bereft THEN 0
                   ELSE IF (ClientGone \/ client = "loop") /\ late < LateMax
                        THEN late + 1 ELSE late
        /\ ~MonitorActs
    BY <1>4 DEF Tick
  <2>2. ~ClientGone /\ socket # "shut" => late' = 0
    BY <2>1 DEF Bereft
  <2>3. late' =< late + 1 /\ late' \in Nat
    BY <1>2, <2>1, Constants DEF HistTypes
  <2>4. enabled /\ socket = "open" =>
          events = 0 /\ pingLeft > 0 /\ pingLeft' = pingLeft - 1
    BY <1>2, <2>1, Holding DEF MonitorActs, BrokerTypes, Down
  <2>5. nextPing' \in Nat /\ nextPing =< nextPing' + 1
    BY <1>2, <2>1, Constants DEF ClientTypes, Down
  <2> QED BY <1>2, <2>1, <2>2, <2>3, <2>4, <2>5, Constants
          DEF ReleaseInv, ClientGone, ClientTypes, BrokerTypes, HistTypes
<1> QED BY <1>3, <1>4

\* It holds in every state.
LEMMA ReleaseInvariant == Spec => []ReleaseInv
<1>1. Init => ReleaseInv
  BY Constants DEF Init, ReleaseInv, ClientGone
<1>2. TypeOK /\ TokenInv /\ ReleaseInv /\ [Next]_vars => ReleaseInv'
  <2> SUFFICES ASSUME TypeOK, TokenInv, ReleaseInv, [Next]_vars
               PROVE  ReleaseInv'
    OBVIOUS
  <2>1. CASE UNCHANGED vars
    BY <2>1 DEF vars, ReleaseInv, ClientGone
  <2>2. CASE Next
    BY <2>2, Moves, ClientRelease, BrokerRelease, OtherRelease
  <2> QED BY <2>1, <2>2
<1> QED BY <1>1, <1>2, TokenInvariant, PTL DEF Spec

(***************************************************************************)
(* The broker lets go of a session whose client is gone within twice its   *)
(* timeout less an interval, for all timings: no PING buys it more time    *)
(* than the one that may still wait in the connection, and neither an      *)
(* outage nor a thread stuck in a write keeps the monitor from firing.     *)
(***************************************************************************)
THEOREM ReleasedCorrect == Spec => []ReleasedInTime
<1>1. TypeOK /\ ReleaseInv => ReleasedInTime
  <2> SUFFICES ASSUME TypeOK, ReleaseInv PROVE ReleasedInTime
    OBVIOUS
  <2> QED BY TypeParts, Constants
          DEF ReleaseInv, ReleasedInTime, BrokerTypes, HistTypes, NoticeClient
<1> QED BY <1>1, TokenInvariant, ReleaseInvariant, PTL

-----------------------------------------------------------------------------
(* The client notices                                                      *)

\* NoticeInv is kept: by time, which does not pass while the broker can exit, or
\* while the client is in its loop and its timer has run out ...
LEMMA TickNotice ==
  ASSUME TypeOK, TokenInv, NoticeInv, Tick
  PROVE  NoticeInv'
<1>1. ClientTypes /\ QueueTypes /\ BrokerTypes /\ HistTypes
  BY TypeParts
<1>2. /\ UNCHANGED <<enabled, client, pending, downVars, brokerEof, broker, c2d,
                     d2c, events, socket>>
      /\ nextPing' = Down(nextPing) /\ deadline' = Down(deadline)
      /\ pingLeft' = Down(pingLeft)
      /\ late' = IF ~Bereft THEN 0
                 ELSE IF (ClientGone \/ client = "loop") /\ late < LateMax
                      THEN late + 1 ELSE late
      /\ ~ClientActs /\ ~MonitorActs /\ ~D2cActs
  BY DEF Tick
<1>3. AnsweredInTime'
  <2>1. enabled /\ socket # "shut" => pingLeft > 0 \/ events > 0
    BY <1>1, <1>2, Holding DEF MonitorActs, BrokerTypes
  <2> QED BY <1>1, <1>2, <2>1
          DEF NoticeInv, AnsweredInTime, ClientGone, Down, ClientTypes, BrokerTypes
<1>4. CASE ~Severed
  BY <1>2, <1>3, <1>4 DEF NoticeInv, Severed, ClientGone
<1>5. CASE Severed /\ client = "loop"
  <2>1. late' =< late + 1 /\ late' \in Nat
    BY <1>1, <1>2, Constants DEF HistTypes
  <2>2. pending => deadline > 0 /\ deadline' = deadline - 1
    BY <1>1, <1>2, <1>5 DEF ClientActs, PongOverdue, ClientTypes, Down
  <2>3. ~pending => nextPing > 0 /\ nextPing' = nextPing - 1
    BY <1>1, <1>2, <1>5 DEF ClientActs, PingDue, Severed, ClientTypes, Down
  <2>4. ~Exiting
    BY <1>1, <1>2, <1>5, Constants
    DEF Exiting, D2cActs, CanAnswer, Severed, BrokerTypes, QueueTypes
  <2>5. ASSUME pending PROVE FirstWait' \/ SecondWait'
    <3>1. FirstWait \/ SecondWait
      BY <1>5, <2>5 DEF NoticeInv
    <3> QED BY <1>1, <1>2, <1>5, <2>1, <2>2, <2>5, <3>1, Constants
            DEF FirstWait, SecondWait, Mute, ClientTypes, HistTypes
  <2>6. ASSUME ~pending PROVE FirstPause' \/ SecondPause'
    <3>1. FirstPause \/ SecondPause
      BY <1>5, <2>6 DEF NoticeInv
    <3> QED BY <1>1, <1>2, <2>1, <2>3, <2>4, <2>6, <3>1, Constants
            DEF FirstPause, SecondPause, Mute, ClientTypes, HistTypes
  <2>7. ASSUME broker = "proxy", ~brokerEof, pongAt > 0 PROVE LastPong'
    <3>1. LastPong /\ pending
      BY <1>5, <2>7 DEF NoticeInv, TokenInv, Token, Severed
    <3> QED BY <1>2, <2>2, <3>1 DEF LastPong
  <2> QED BY <1>2, <1>3, <2>5, <2>6, <2>7 DEF NoticeInv, Severed
<1>6. CASE Severed /\ client # "loop"
  <2>1. late' = late
    BY <1>2, <1>6 DEF Bereft, Severed
  <2>2. /\ deadline' \in Nat /\ deadline' =< deadline /\ deadline =< deadline' + 1
        /\ nextPing' \in Nat /\ nextPing' =< nextPing
        /\ (deadline = 0 => deadline' = 0)
    BY <1>1, <1>2, Constants DEF Down, ClientTypes
  <2>4. ~Exiting
    BY <1>1, <1>2, <1>6, Constants
    DEF Exiting, D2cActs, CanAnswer, Severed, BrokerTypes, QueueTypes
  <2>5. ASSUME pending PROVE FirstWait' \/ SecondWait'
    <3>1. FirstWait \/ SecondWait
      BY <1>6, <2>5 DEF NoticeInv
    <3> QED BY <1>1, <1>2, <1>6, <2>1, <2>2, <2>5, <3>1, Constants
            DEF FirstWait, SecondWait, Mute, ClientTypes, HistTypes
  <2>6. ASSUME ~pending PROVE FirstPause' \/ SecondPause'
    <3>1. FirstPause \/ SecondPause
      BY <1>6, <2>6 DEF NoticeInv
    <3> QED BY <1>1, <1>2, <2>1, <2>2, <2>4, <2>6, <3>1, Constants
            DEF FirstPause, SecondPause, Mute, ClientTypes, HistTypes
  <2>7. ASSUME broker = "proxy", ~brokerEof, pongAt > 0 PROVE LastPong'
    <3>1. LastPong
      BY <1>6, <2>7 DEF NoticeInv
    <3> QED BY <1>2, <2>1, <2>2, <3>1 DEF LastPong
  <2> QED BY <1>2, <1>3, <2>5, <2>6, <2>7 DEF NoticeInv, Severed
<1> QED BY <1>4, <1>5, <1>6

\* ... by the client, whose ping waits at most PongTimeout, and whose last PONG
\* lets the broker exit ...
LEMMA ClientNotice ==
  ASSUME TypeOK, TokenInv, NoticeInv, ClientMoves
  PROVE  NoticeInv'
<1>1. UNCHANGED <<enabled, linkVars, brokerVars, daemonVars, late>>
  BY DEF ClientMoves, ClientTimeout, ClientPing, ClientResize, ClientInput,
         ClientIdle, ClientSend, ClientSendFails, ClientPong, ClientOutput,
         ClientPrinted, ClientEnd, ClientDies, Leave, ClientOnly
<1>2. ClientTypes /\ QueueTypes /\ BrokerTypes /\ HistTypes
  BY TypeParts
<1>3. CASE ClientPing
  <2>1. /\ UNCHANGED <<nextPing, pending, downVars>> /\ ~pending
        /\ client' = "ping" /\ ~ClientGone
    BY <1>3 DEF ClientPing, PingDue, ClientGone
  <2>2. pongAt = 0 /\ c2d # "pong"
    BY <1>2, <2>1 DEF TokenInv, Token, QueueTypes
  <2> QED BY <1>1, <2>1, <2>2
          DEF NoticeInv, AnsweredInTime, Severed, ClientGone, FirstPause,
              SecondPause, Mute, Exiting
<1>4. CASE ClientResize \/ ClientInput \/ ClientIdle \/ ClientPrinted
           \/ (ClientSend /\ client # "ping")
  <2>1. /\ UNCHANGED <<nextPing, pending, deadline, downVars>> /\ ~ClientGone
        /\ client' \in {"resize", "input", "loop", "event"}
        /\ client = "loop" => ~PongOverdue
    BY <1>4 DEF ClientResize, ClientInput, ClientIdle, ClientPrinted, ClientSend,
                Sending, AtEvent, Head, ClientGone
  <2>2. ~ClientGone' /\ (Severed' <=> Severed)
    BY <1>1, <2>1 DEF ClientGone, Severed
  <2>3. AnsweredInTime'
    BY <1>1, <2>1, <2>2 DEF NoticeInv, AnsweredInTime
  <2>4. (Mute' <=> Mute) /\ (Exiting' <=> Exiting) /\ (LastPong' <=> LastPong)
    BY <1>1, <2>1 DEF Mute, Exiting, LastPong
  <2>5. ASSUME pending, FirstWait PROVE FirstWait'
    BY <1>1, <2>1, <2>5 DEF FirstWait, PongOverdue
  <2>6. SecondWait => SecondWait'
    BY <1>1, <2>1, <2>4 DEF SecondWait
  <2>7. (FirstPause => FirstPause') /\ (SecondPause => SecondPause')
    BY <1>1, <2>1, <2>4 DEF FirstPause, SecondPause
  <2> QED BY <1>1, <2>1, <2>2, <2>3, <2>4, <2>5, <2>6, <2>7 DEF NoticeInv
<1>5. CASE ClientSend /\ client = "ping"
  <2>1. /\ UNCHANGED <<nextPing, deadline, downVars>> /\ pending' = TRUE
        /\ client' \in {"resize", "event"} /\ ~ClientGone
    BY <1>5 DEF ClientSend, ClientGone
  <2>2. ~pending /\ nextPing = 0 /\ pongAt = 0 /\ c2d # "pong"
    BY <1>2, <1>5, <2>1 DEF TokenInv, Token, QueueTypes
  <2>3. ~ClientGone' /\ (Severed' <=> Severed) /\ AnsweredInTime'
    BY <1>1, <2>1, <2>2 DEF ClientGone, Severed, AnsweredInTime
  <2>4. ASSUME Severed PROVE FirstWait' \/ SecondWait'
    <3>1. FirstPause \/ SecondPause
      BY <2>2, <2>4 DEF NoticeInv
    <3>2. CASE FirstPause
      BY <1>1, <1>2, <2>1, <2>2, <3>2, Constants
      DEF FirstPause, FirstWait, ClientTypes, HistTypes
    <3>3. CASE SecondPause
      BY <1>1, <1>2, <2>1, <2>2, <3>3, Constants
      DEF SecondPause, SecondWait, Mute, ClientTypes, HistTypes
    <3> QED BY <3>1, <3>2, <3>3
  <2> QED BY <1>1, <2>1, <2>2, <2>3, <2>4 DEF NoticeInv
<1>6. CASE ClientPong
  <2>1. /\ ~ClientGone /\ client' = "loop" /\ pongAt = 1 /\ pongAt' = 0
        /\ downNear > 0 /\ downNear' = downNear - 1 /\ downFar' = downFar
        /\ pending /\ carried = nonce => pending' = FALSE /\ nextPing' = Interval
        /\ client = "loop" => ~PongOverdue
    BY <1>6 DEF ClientPong, AtEvent, Head, ClientGone, PongReceived
  <2>2. /\ pending /\ c2d # "pong" /\ nextPing' = Interval /\ ~pending'
    BY <1>2, <2>1 DEF TokenInv, Token
  <2>3. ~ClientGone' /\ (Severed' <=> Severed) /\ AnsweredInTime'
    BY <1>1, <2>1, <2>2 DEF ClientGone, Severed, AnsweredInTime
  <2>4. ASSUME Severed PROVE FirstPause' \/ SecondPause'
    <3>1. FirstWait
      BY <2>1, <2>2, <2>4 DEF NoticeInv, SecondWait, Mute
    <3>2. late < Interval + PongTimeout
      BY <1>2, <2>1, <2>2, <3>1, Constants
      DEF FirstWait, PongOverdue, ClientTypes, HistTypes
    <3>3. late' + nextPing' < 2 * Interval + PongTimeout /\ nextPing' > 0
      BY <1>1, <1>2, <2>2, <3>2, Constants DEF HistTypes
    <3>4. CASE broker = "exited" \/ brokerEof
      BY <1>1, <2>1, <3>3, <3>4 DEF SecondPause, Mute
    <3>5. CASE broker = "proxy" /\ ~brokerEof
      <4>1. LastPong
        BY <2>1, <2>4, <3>5 DEF NoticeInv
      <4>2. CASE pongAt = downNear + downFar \/ d2c = "read"
        <5>1. Exiting'
          BY <1>1, <1>2, <2>1, <3>5, <4>2 DEF Exiting, QueueTypes
        <5> QED BY <3>3, <5>1 DEF SecondPause
      <4>3. CASE late = 0
        BY <1>1, <2>2, <4>3, Constants DEF FirstPause
      <4> QED BY <4>1, <4>2, <4>3 DEF LastPong
    <3> QED BY <1>2, <3>4, <3>5 DEF BrokerTypes
  <2> QED BY <2>1, <2>2, <2>3, <2>4 DEF NoticeInv
<1>7. CASE ClientOutput
  <2>1. /\ UNCHANGED <<nextPing, pending, deadline>> /\ ~ClientGone
        /\ client' \in {"loop", "printing"} /\ pongAt # 1
        /\ pongAt' = Advance(pongAt) /\ downNear > 0
        /\ downNear' = downNear - 1 /\ downFar' = downFar
        /\ client = "loop" => ~PongOverdue
    BY <1>7 DEF ClientOutput, AtEvent, Head, ClientGone
  <2>2. ~ClientGone' /\ (Severed' <=> Severed)
    BY <1>1, <2>1 DEF ClientGone, Severed
  <2>3. /\ pongAt' > 0 => pongAt > 0
        /\ pongAt = 0 => pongAt' = 0
        /\ pongAt = downNear + downFar => pongAt' = downNear' + downFar'
    BY <1>2, <2>1 DEF Advance, QueueTypes
  <2>4. AnsweredInTime'
    BY <1>1, <2>1, <2>2, <2>3 DEF NoticeInv, AnsweredInTime
  <2>5. (Mute => Mute') /\ (LastPong => LastPong')
    BY <1>1, <2>1, <2>3 DEF Mute, LastPong
  <2>6. Exiting => Exiting'
    BY <1>1, <1>2, <2>1 DEF Exiting, QueueTypes
  <2>7. ASSUME pending, FirstWait PROVE FirstWait'
    BY <1>1, <2>1, <2>7 DEF FirstWait, PongOverdue
  <2>8. SecondWait => SecondWait'
    BY <1>1, <2>1, <2>5 DEF SecondWait
  <2>9. (FirstPause => FirstPause') /\ (SecondPause => SecondPause')
    BY <1>1, <2>1, <2>5, <2>6 DEF FirstPause, SecondPause
  <2> QED BY <1>1, <2>1, <2>2, <2>3, <2>4, <2>5, <2>7, <2>8, <2>9 DEF NoticeInv
<1>8. CASE ClientTimeout \/ ClientSendFails \/ ClientEnd \/ ClientDies
  <2>1. ClientGone'
    BY <1>8 DEF ClientTimeout, ClientSendFails, ClientEnd, ClientDies, Leave,
                ClientGone
  <2> QED BY <2>1 DEF NoticeInv, AnsweredInTime, Severed
<1> QED BY <1>3, <1>4, <1>5, <1>6, <1>7, <1>8 DEF ClientMoves

\* ... by the connection, which may lose the PONG but brings no other ...
LEMMA LinkNotice ==
  ASSUME TypeOK, TokenInv, NoticeInv, LinkMoves \/ DaemonMoves
  PROVE  NoticeInv'
<1>1. UNCHANGED <<enabled, clientVars, brokerVars, socket, late>>
  BY DEF LinkMoves, Outage, Heal, Reset, EofToBroker, EofToClient, DaemonMoves,
         DaemonTake, DaemonStall, DaemonResume, DaemonClose, DaemonOnly
<1>2. ClientTypes /\ QueueTypes /\ BrokerTypes /\ HistTypes
  BY TypeParts
<1>3. CASE EofToBroker
  BY <1>1, <1>3 DEF EofToBroker, NoticeInv, AnsweredInTime, Severed, ClientGone
<1>4. CASE EofToClient \/ DaemonMoves
  <2>1. UNCHANGED <<downVars, brokerEof>>
    BY <1>4 DEF EofToClient, DaemonMoves, DaemonTake, DaemonStall, DaemonResume,
                DaemonClose, DaemonOnly
  <2> QED BY <1>1, <2>1
          DEF NoticeInv, AnsweredInTime, Severed, ClientGone, FirstWait,
              SecondWait, FirstPause, SecondPause, LastPong, Mute, Exiting
<1>5. CASE Outage \/ Heal \/ Reset
  <2>0. /\ downNear + downFar = 0 => downNear' + downFar' = 0
        /\ pongAt' > 0 /\ pongAt' = downNear + downFar
             => pongAt' = downNear' + downFar'
    <3>1. CASE Outage
      BY <1>2, <3>1 DEF Outage, QueueTypes, TokenInv
    <3>2. CASE Heal
      BY <1>2, <3>2 DEF Heal, QueueTypes
    <3>3. CASE Reset
      BY <1>2, <3>3 DEF Reset, Kept, QueueTypes
    <3> QED BY <1>5, <3>1, <3>2, <3>3
  <2>1. pongAt' \in {pongAt, 0} /\ (brokerEof => brokerEof')
    BY <1>5 DEF Outage, Heal, Reset, Kept
  <2>2. /\ pongAt' > 0 => pongAt > 0 /\ pongAt' = pongAt
        /\ pongAt = 0 => pongAt' = 0
    BY <2>1
  <2>3. (Severed' <=> Severed) /\ AnsweredInTime'
    BY <1>1, <2>2 DEF Severed, ClientGone, NoticeInv, AnsweredInTime
  <2>4. Mute => Mute'
    BY <1>1, <2>1, <2>2 DEF Mute
  <2>5. ASSUME Severed, ~pending, Exiting PROVE Mute' \/ Exiting'
    <3>1. pongAt = 0
      BY <1>2, <2>5 DEF TokenInv, Token, Severed, QueueTypes
    <3>2. broker' = "proxy" /\ d2c' = d2c
      BY <1>1, <2>5 DEF Exiting
    <3>3. d2c = "read" \/ downNear + downFar = 0
      BY <2>5 DEF Exiting
    <3> QED BY <2>0, <2>2, <3>1, <3>2, <3>3 DEF Mute, Exiting
  <2>6. ASSUME LastPong, pongAt' > 0 PROVE LastPong'
    <3>1. UNCHANGED <<d2c, deadline, late>>
      BY <1>1
    <3>2. ASSUME pongAt = downNear + downFar PROVE pongAt' = downNear' + downFar'
      BY <2>0, <2>2, <2>6, <3>2
    <3> QED BY <2>6, <3>1, <3>2 DEF LastPong
  <2>7. (FirstWait => FirstWait') /\ (SecondWait => SecondWait')
    BY <1>1, <2>4 DEF FirstWait, SecondWait
  <2>8. ASSUME Severed, ~pending, FirstPause \/ SecondPause
        PROVE  FirstPause' \/ SecondPause'
    BY <1>1, <2>4, <2>5, <2>8 DEF FirstPause, SecondPause
  <2> QED BY <1>1, <2>1, <2>2, <2>3, <2>6, <2>7, <2>8 DEF NoticeInv
<1> QED BY <1>3, <1>4, <1>5 DEF LinkMoves

\* ... and by the broker: when it lets go, no time has passed yet, and a PONG
\* it sent before has less time left than the monitor had ...
LEMMA BrokerNotice ==
  ASSUME TypeOK, TokenInv, ReleaseInv, NoticeInv, BrokerMoves
  PROVE  NoticeInv'
<1>1. UNCHANGED <<enabled, clientVars, linkVars, late>>
  BY DEF BrokerMoves, C2dStep, C2dRead, C2dPong, C2dInput, C2dEnd, C2dOnly,
         D2cRead, D2cStep, D2cWrite, D2cEnd, D2cOnly, Stay, MonitorStep, MonitorPing,
         MonitorTimeout, MonitorOnly
<1>2. ClientTypes /\ QueueTypes /\ BrokerTypes /\ HistTypes
  BY TypeParts
<1>3. ASSUME socket # "shut", Severed'
      PROVE  FirstWait' /\ FirstPause' /\ late' = 0
  <2>1. late' = 0
    BY <1>1, <1>3 DEF ReleaseInv, Severed, ClientGone
  <2> QED BY <1>1, <1>2, <2>1, Constants DEF FirstWait, FirstPause, ClientTypes
<1>4. CASE C2dRead \/ C2dInput
  <2>1. /\ UNCHANGED <<downVars, broker, d2c, pingLeft, socket>>
        /\ \/ c2d' # "pong" /\ events' = events
           \/ monitor = "wait" => events' = events + 1
    BY <1>4 DEF C2dRead, C2dInput, C2dOnly, ReportPing
  <2>2. AnsweredInTime'
    BY <1>1, <1>2, <2>1, Holding
    DEF NoticeInv, AnsweredInTime, ClientGone, BrokerTypes
  <2> QED BY <1>1, <2>1, <2>2
          DEF NoticeInv, Severed, ClientGone, FirstWait, SecondWait, FirstPause,
              SecondPause, LastPong, Mute, Exiting
<1>5. CASE C2dPong
  <2>1. /\ UNCHANGED <<broker, d2c, events, pingLeft, socket>> /\ c2d = "pong"
        /\ broker = "proxy" /\ c2d' # "pong"
        /\ brokerEof => UNCHANGED downVars
        /\ ~brokerEof => ToClient(TRUE)
    BY <1>5 DEF C2dPong, C2dOnly, ToClient
  <2>2. AnsweredInTime'
    BY <1>1, <2>1 DEF NoticeInv, AnsweredInTime, ClientGone
  <2>3. Severed => pending
    BY <2>1 DEF TokenInv, Token, Severed
  <2>4. ASSUME ~brokerEof PROVE pongAt' = downNear' + downFar'
    BY <1>2, <2>1, <2>4 DEF ToClient, QueueTypes
  <2>5. (Severed' <=> Severed) /\ (Mute => Mute') /\ (FirstWait => FirstWait')
    BY <1>1, <2>1 DEF Severed, ClientGone, Mute, FirstWait
  <2>6. SecondWait => SecondWait'
    BY <1>1, <2>5 DEF SecondWait
  <2>7. ~brokerEof => LastPong'
    BY <2>4 DEF LastPong
  <2> QED BY <1>1, <2>2, <2>3, <2>5, <2>6, <2>7 DEF NoticeInv
<1>6. CASE C2dEnd \/ D2cRead
  <2>1. /\ UNCHANGED <<downVars, broker, events, pingLeft>>
        /\ c2d' = c2d \/ c2d' = "ended"
        /\ (socket' = socket /\ d2c' = d2c) \/ socket' # "shut"
        /\ socket' # "shut" => socket # "shut"
    BY <1>2, <1>6 DEF C2dEnd, C2dOnly, ShutdownWrite, D2cRead, D2cOnly, Stay,
                      BrokerTypes
  <2>2. AnsweredInTime'
    BY <1>1, <2>1 DEF NoticeInv, AnsweredInTime, ClientGone
  <2>3. CASE socket' # "shut"
    BY <2>2, <2>3 DEF NoticeInv, Severed
  <2>4. CASE socket' = socket /\ d2c' = d2c
    BY <1>1, <2>1, <2>2, <2>4
    DEF NoticeInv, Severed, ClientGone, FirstWait, SecondWait, FirstPause,
        SecondPause, LastPong, Mute, Exiting
  <2> QED BY <2>1, <2>3, <2>4
<1>7. CASE D2cStep
  <2>1. UNCHANGED pongAt /\ d2c' = "read" /\ broker = "proxy" /\ (Exit \/ Stay)
    BY <1>7 DEF D2cStep, D2cWrite, D2cEnd, D2cOnly, ToClient
  <2>2. AnsweredInTime'
    BY <1>1, <2>1 DEF NoticeInv, AnsweredInTime, ClientGone, Exit, Stay
  <2>3. LastPong'
    BY <2>1 DEF LastPong
  <2>4. CASE socket # "shut"
    BY <1>1, <1>3, <2>2, <2>3, <2>4 DEF NoticeInv
  <2>5. CASE socket = "shut"
    <3>1. (Severed' <=> Severed) /\ (Mute => Mute') /\ (FirstWait => FirstWait')
          /\ (FirstPause => FirstPause')
      BY <1>1, <2>1, <2>5
      DEF Severed, ClientGone, Mute, FirstWait, FirstPause, Exit, Stay
    <3>2. SecondWait => SecondWait'
      BY <1>1, <3>1 DEF SecondWait
    <3>3. ASSUME Severed, ~pending, Exiting PROVE Mute' \/ Exiting'
      <4>1. pongAt = 0 /\ ~brokerEof
        BY <1>2, <3>3 DEF TokenInv, Token, Severed, QueueTypes, Exiting
      <4>2. CASE Exit
        BY <2>1, <4>1, <4>2 DEF Mute, Exit
      <4>3. CASE Stay
        BY <1>1, <2>1, <4>1, <4>3 DEF Exiting, Stay
      <4> QED BY <2>1, <4>2, <4>3
    <3>4. ASSUME Severed, ~pending, FirstPause \/ SecondPause
          PROVE  FirstPause' \/ SecondPause'
      BY <1>1, <3>1, <3>3, <3>4 DEF SecondPause
    <3> QED BY <1>1, <2>2, <2>3, <3>1, <3>2, <3>4 DEF NoticeInv
  <2> QED BY <2>4, <2>5
<1>8. CASE MonitorPing
  <2>1. /\ UNCHANGED <<downVars, broker, c2d, d2c, socket>>
        /\ pingLeft' = PingTimeout
    BY <1>8 DEF MonitorPing, MonitorOnly, RestartTimer
  <2>2. AnsweredInTime'
    BY <1>1, <1>2, <2>1, Constants DEF AnsweredInTime, ClientTypes
  <2> QED BY <1>1, <2>1, <2>2
          DEF NoticeInv, Severed, ClientGone, FirstWait, SecondWait, FirstPause,
              SecondPause, LastPong, Mute, Exiting
<1>9. CASE MonitorTimeout
  <2>1. /\ UNCHANGED <<downVars, broker, c2d, d2c>> /\ broker = "proxy"
        /\ monitor = "wait" /\ events = 0 /\ pingLeft = 0 /\ socket' = "shut"
    BY <1>9 DEF MonitorTimeout, MonitorOnly, Fire
  <2>2. socket # "shut"
    BY <2>1 DEF TokenInv
  <2>3. ASSUME Severed', pongAt' > 0 PROVE LastPong'
    <3>1. deadline =< pingLeft
      BY <1>1, <2>1, <2>2, <2>3
      DEF NoticeInv, AnsweredInTime, Severed, ClientGone
    <3>2. deadline' = 0 /\ late' = 0
      BY <1>1, <1>2, <1>3, <2>1, <2>2, <2>3, <3>1 DEF ClientTypes
    <3> QED BY <3>2 DEF LastPong
  <2> QED BY <1>3, <2>1, <2>2, <2>3 DEF NoticeInv, AnsweredInTime
<1> QED BY <1>4, <1>5, <1>6, <1>7, <1>8, <1>9
        DEF BrokerMoves, C2dStep, MonitorStep

\* It holds in every state.
LEMMA NoticeInvariant == Spec => []NoticeInv
<1>1. Init => NoticeInv
  BY DEF Init, NoticeInv, AnsweredInTime, Severed
<1>2. TypeOK /\ TokenInv /\ ReleaseInv /\ NoticeInv /\ [Next]_vars => NoticeInv'
  <2> SUFFICES ASSUME TypeOK, TokenInv, ReleaseInv, NoticeInv, [Next]_vars
               PROVE  NoticeInv'
    OBVIOUS
  <2>1. CASE UNCHANGED vars
    BY <2>1 DEF vars, NoticeInv, AnsweredInTime, Severed, ClientGone, FirstWait,
                SecondWait, FirstPause, SecondPause, LastPong, Mute, Exiting
  <2>2. CASE Next
    BY <2>2, Moves, ClientNotice, LinkNotice, BrokerNotice, TickNotice
  <2> QED BY <2>1, <2>2
<1> QED BY <1>1, <1>2, TokenInvariant, ReleaseInvariant, PTL DEF Spec

(***************************************************************************)
(* A client that is not blocked in a write notices within NoticeBroker     *)
(* ticks that the broker has let go of the session, for all timings and    *)
(* also if no end of file ever reaches it: of a broker that let go, at     *)
(* most one more PONG arrives.                                             *)
(***************************************************************************)
THEOREM NoticedCorrect == Spec => []NoticedInTime
<1>1. TypeOK /\ NoticeInv => NoticedInTime
  <2> SUFFICES ASSUME TypeOK, NoticeInv, Severed PROVE late =< NoticeBroker
    BY DEF NoticedInTime, Severed
  <2>1. ClientTypes /\ HistTypes
    BY TypeParts
  <2>2. CASE pending
    <3>1. late + deadline < 2 * (Interval + PongTimeout)
      BY <2>1, <2>2, Constants
      DEF NoticeInv, FirstWait, SecondWait, ClientTypes, HistTypes
    <3> QED BY <2>1, <3>1, Constants DEF NoticeBroker, ClientTypes, HistTypes
  <2>3. CASE ~pending
    <3>1. late + nextPing < 2 * (Interval + PongTimeout)
      BY <2>1, <2>3, Constants
      DEF NoticeInv, FirstPause, SecondPause, ClientTypes, HistTypes
    <3> QED BY <2>1, <3>1, Constants DEF NoticeBroker, ClientTypes, HistTypes
  <2> QED BY <2>2, <2>3
<1> QED BY <1>1, TokenInvariant, NoticeInvariant, PTL

=============================================================================
