--------------------------- MODULE ReconnectProofs ---------------------------
(***************************************************************************)
(* Machine-checked facts about Reconnect, for any number of clients,       *)
(* however they were started, and any number of faults.                    *)
(***************************************************************************)
EXTENDS Reconnect, Recursions, SequenceTheorems

-----------------------------------------------------------------------------
(* The inductive invariants                                                *)

\* The last frame of a connection that has ended.
Closing(frames) == frames # << >> /\ frames[Len(frames)] = "EOF"

\* SettledClientHolds is not inductive: a client may still have frames to read
\* before it is settled.  What makes it hold is that a request is only pending
\* on a connection that is up, that the session is held over one, and that a
\* client whose request was answered holds the session, has an end of file on
\* its way, or was dropped over a connection that is still up.
Consistent(c) ==
  /\ link[c] => pc[c] = "attached"
  /\ request[c] # "none" => link[c]
  /\ holder = c => link[c] /\ request[c] = "none" /\ c \notin dropped
  /\ c \in dropped => link[c] /\ request[c] = "none"
  /\ pc[c] # "attached" => inbox[c] = << >>
  /\ pc[c] = "attached" /\ request[c] = "none"
       => holder = c \/ c \in dropped \/ Closing(inbox[c])
ConnectionInv == \A c \in Clients : Consistent(c)

\* A client that was told to exit, or will be.
Tells(frames) == \E i \in 1 .. Len(frames) : frames[i] = "CLIENT_SHOULD_EXIT"
ToldToExit(c) == outcome[c] = "detached" \/ Tells(inbox[c])

\* NotAllEvicted is not inductive either: whoever asked for a detach that the
\* daemon has yet to handle is not attached, so it is not the one evicted, and
\* was not told to exit before.
DetachInv ==
  /\ \A c \in Clients : pc[c] # "exited" => outcome[c] = "running"
  /\ \A c \in detaches : pc[c] \in {"connect", "sleep", "exited"}
                         /\ outcome[c] # "detached"
SomebodyStays == Clients # {} => \E c \in Clients : ~ToldToExit(c)

\* A client only waits, or asks for a detach, after it has counted a failure.
DelayInv ==
  \A c \in Clients : pc[c] \in {"sleep", "detach"} => attempts[c] > 0

-----------------------------------------------------------------------------
(* Type correctness                                                        *)

Frames == {"ATTACHED_SESSION", "SESSION_BUSY", "CLIENT_SHOULD_EXIT",
           "EXIT_STATUS", "EOF"}

ClientTypes ==
  /\ pc \in [Clients -> {"predetach", "connect", "attached", "detach", "sleep",
                         "exited"}]
  /\ known \in [Clients -> BOOLEAN] /\ recovering \in [Clients -> BOOLEAN]
  /\ attempts \in [Clients -> 0 .. AttemptMax]
  /\ confirmed \in [Clients -> BOOLEAN]
  /\ outcome \in [Clients -> {"running", "detached", "status", "error",
                              "elsewhere"}]
LinkTypes ==
  /\ link \in [Clients -> BOOLEAN]
  /\ inbox \in [Clients -> Seq(Frames)]
  /\ request \in [Clients -> {"none", "broker", "daemon"}]
  /\ orphans \in Nat
DaemonTypes ==
  /\ session \in {"live", "gone"}
  /\ holder \in Clients \cup {Nobody, Stale}
  /\ detaches \subseteq Clients
  /\ reader \in {"read", "write", "late"} /\ dropped \subseteq Clients
  /\ faults \in 0 .. MaxFaults

\* The type invariant by component.
LEMMA TypeParts == TypeOK <=> ClientTypes /\ LinkTypes /\ DaemonTypes
BY DEF TypeOK, ClientTypes, LinkTypes, DaemonTypes, Frames

USE DEF clientVars, linkVars, daemonVars

\* Counting attempts never overflows the counter, and never goes back.
LEMMA SaturatingIncType ==
  ASSUME NEW n \in 0 .. AttemptMax
  PROVE  SaturatingInc(n) \in 0 .. AttemptMax /\ SaturatingInc(n) >= n
         /\ SaturatingInc(n) > 0
BY DelayAssumption DEF SaturatingInc

\* A fault is counted within its bound.
LEMMA FaultType == ASSUME DaemonTypes, Fault PROVE faults' \in 0 .. MaxFaults
BY SwitchAssumption DEF DaemonTypes, Fault

\* Frames delivered to a client join those that were in flight.
LEMMA DeliverType ==
  ASSUME LinkTypes, NEW c \in Clients, NEW msgs \in Seq(Frames), Deliver(c, msgs)
  PROVE  /\ inbox' \in [Clients -> Seq(Frames)]
         /\ inbox'[c] = inbox[c] \o msgs
         /\ \A d \in Clients \ {c} : inbox'[d] = inbox[d]
<1>1. inbox[c] \o msgs \in Seq(Frames)
  BY DEF LinkTypes
<1> QED BY <1>1 DEF LinkTypes, Deliver

\* What happens to a connection whose client's end goes away.
LEMMA DropLinkEffect ==
  ASSUME TypeOK, NEW c \in Clients, NEW left \in Seq(Frames), DropLink(c, left)
  PROVE  /\ LinkTypes'
         /\ UNCHANGED <<session, detaches, reader>>
         /\ dropped' = dropped \ {c}
         /\ holder' = IF holder = c THEN Stale ELSE holder
         /\ ~link'[c] /\ request'[c] = "none" /\ inbox'[c] = left
         /\ \A d \in Clients \ {c} : /\ link'[d] = link[d]
                                     /\ request'[d] = request[d]
                                     /\ inbox'[d] = inbox[d]
BY TypeParts DEF LinkTypes, DropLink

\* Every step keeps the types of run_client's locals.
LEMMA ClientTypesStep == TypeOK /\ Next => ClientTypes'
<1> SUFFICES ASSUME TypeOK, Next PROVE ClientTypes'
  OBVIOUS
<1>0. ClientTypes
  BY TypeParts
<1>1. CASE OrphanAttach \/ StaleGone \/ ReaderStep \/ ShellExit
  BY <1>0, <1>1 DEF OrphanAttach, StaleGone, ReaderStep, ReaderWrites,
                    ReaderWritten, ReaderDetaches, ShellExit, ClientTypes
<1>2. ASSUME NEW c \in Clients, RemoteStep(c) PROVE ClientTypes'
  BY <1>0, <1>2
  DEF RemoteStep, BrokerAttach, DaemonAttach, DaemonDetach, ClientTypes
<1>3. ASSUME NEW c \in Clients, NEW o \in {"detached", "status", "error", "elsewhere"},
             Exit(c, o)
      PROVE  ClientTypes'
  BY <1>0, <1>3 DEF Exit, Goto, ClientTypes
<1>4. ASSUME NEW c \in Clients, NEW p \in {"sleep", "detach"}, Backoff(c, p)
      PROVE  ClientTypes'
  <2>1. SaturatingInc(attempts[c]) \in 0 .. AttemptMax
    BY <1>0, SaturatingIncType DEF ClientTypes
  <2> QED BY <1>0, <1>4, <2>1 DEF Backoff, Goto, ClientTypes
<1>5. ASSUME NEW c \in Clients, FaultStep(c) PROVE ClientTypes'
  <2>1. CASE LinkCut(c)
    BY <1>0, <2>1 DEF LinkCut, ClientTypes
  <2> QED BY <1>3, <1>4, <1>5, <2>1 DEF FaultStep, ConnectFails, LocalFailure
<1>6. ASSUME NEW c \in Clients, ClientStep(c) PROVE ClientTypes'
  <2>1. CASE Connect(c)
    <3>1. CASE Exit(c, "elsewhere")
      BY <1>3, <3>1
    <3> QED BY <1>0, <2>1, <3>1 DEF Connect, Goto, ClientTypes
  <2>2. CASE RecvAttached(c)
    BY <1>0, <2>2 DEF RecvAttached, ClientTypes
  <2>3. CASE RecvShouldExit(c) \/ RecvExitStatus(c) \/ RecvBusy(c)
    BY <1>3, <1>4, <2>3 DEF RecvShouldExit, RecvExitStatus, RecvBusy
  <2>4. CASE RecvEof(c)
    <3>1. CASE Exit(c, "error")
      BY <1>3, <3>1
    <3>2. AttemptsAfterLoss(c) \in 0 .. AttemptMax
      BY <1>0, DelayAssumption DEF AttemptsAfterLoss, ClientTypes
    <3>3. SaturatingInc(AttemptsAfterLoss(c)) \in 0 .. AttemptMax
      BY <3>2, SaturatingIncType
    <3>4. CASE /\ Goto(c, "sleep")
               /\ attempts' = [attempts EXCEPT ![c] = SaturatingInc(AttemptsAfterLoss(c))]
               /\ known' = [known EXCEPT ![c] = TRUE]
               /\ recovering' = [recovering EXCEPT ![c] = TRUE]
               /\ UNCHANGED <<confirmed, outcome>>
      BY <1>0, <3>3, <3>4 DEF Goto, ClientTypes
    <3> QED BY <2>4, <3>1, <3>4 DEF RecvEof
  <2>5. CASE DetachStale(c)
    BY <1>0, <2>5 DEF DetachStale, Goto, ClientTypes
  <2>6. CASE DetachFirst(c)
    <3>1. CASE Exit(c, "error")
      BY <1>3, <3>1
    <3> QED BY <1>0, <2>6, <3>1 DEF DetachFirst, Goto, ClientTypes
  <2>7. CASE Wake(c)
    BY <1>0, <2>7 DEF Wake, Goto, ClientTypes
  <2> QED BY <1>6, <2>1, <2>2, <2>3, <2>4, <2>5, <2>6, <2>7 DEF ClientStep
<1> QED BY <1>1, <1>2, <1>5, <1>6 DEF Next

\* Every step keeps the types of the connections.
LEMMA LinkTypesStep == TypeOK /\ Next => LinkTypes'
<1> SUFFICES ASSUME TypeOK, Next PROVE LinkTypes'
  OBVIOUS
<1>0. LinkTypes /\ DaemonTypes
  BY TypeParts
<1>1. ASSUME NEW c \in Clients, NEW left \in Seq(Frames), DropLink(c, left)
      PROVE  LinkTypes'
  BY <1>1, DropLinkEffect
<1>2. /\ << >> \in Seq(Frames)
      /\ <<"EOF">> \in Seq(Frames) /\ <<"ATTACHED_SESSION">> \in Seq(Frames)
      /\ <<"SESSION_BUSY", "EOF">> \in Seq(Frames)
      /\ <<"EXIT_STATUS", "EOF">> \in Seq(Frames)
      /\ <<"CLIENT_SHOULD_EXIT", "EOF">> \in Seq(Frames)
  BY DEF Frames
<1>3. CASE OrphanAttach \/ StaleGone \/ ReaderStep
  BY <1>0, <1>3 DEF OrphanAttach, StaleGone, ReaderStep, ReaderWrites,
                    ReaderWritten, ReaderDetaches, LinkTypes
<1>4. CASE ShellExit
  <2>1. PICK last \in {<<"EXIT_STATUS", "EOF">>, <<"EOF">>} :
          inbox' = [c \in Clients |-> inbox[c] \o Parting(c, last)]
    BY <1>4 DEF ShellExit
  <2>2. ASSUME NEW c \in Clients PROVE inbox[c] \o Parting(c, last) \in Seq(Frames)
    <3>1. Parting(c, last) \in Seq(Frames)
      BY <1>2 DEF Parting
    <3>2. inbox[c] \in Seq(Frames)
      BY <1>0 DEF LinkTypes
    <3> QED BY <3>1, <3>2
  <2>3. inbox' \in [Clients -> Seq(Frames)]
    BY <2>1, <2>2
  <2>4. link' \in [Clients -> BOOLEAN] /\ UNCHANGED <<request, orphans>>
    BY <1>4, Zenon DEF ShellExit
  <2> QED BY <1>0, <2>3, <2>4 DEF LinkTypes
<1>5. ASSUME NEW c \in Clients, RemoteStep(c) PROVE LinkTypes'
  <2>1. CASE BrokerAttach(c)
    <3>1. inbox' \in [Clients -> Seq(Frames)]
      BY <1>0, <1>2, <2>1, DeliverType DEF BrokerAttach
    <3> QED BY <1>0, <2>1, <3>1 DEF BrokerAttach, LinkTypes
  <2>2. CASE DaemonAttach(c)
    <3>1. inbox' \in [Clients -> Seq(Frames)]
      BY <1>0, <1>2, <2>2, DeliverType DEF DaemonAttach, Refuse, LinkTypes
    <3> QED BY <1>0, <2>2, <3>1 DEF DaemonAttach, LinkTypes
  <2>3. CASE DaemonDetach(c)
    <3>1. CASE holder \in Clients
      <4>1. inbox' \in [Clients -> Seq(Frames)]
        BY <1>0, <1>2, <2>3, <3>1, DeliverType DEF DaemonDetach, Evict
      <4> QED BY <1>0, <2>3, <3>1, <4>1 DEF DaemonDetach, Evict, LinkTypes
    <3> QED BY <1>0, <2>3, <3>1 DEF DaemonDetach, Evict, LinkTypes
  <2> QED BY <1>5, <2>1, <2>2, <2>3 DEF RemoteStep
<1>6. ASSUME NEW c \in Clients, FaultStep(c) PROVE LinkTypes'
  <2>1. CASE ConnectFails(c)
    BY <1>0, <2>1 DEF ConnectFails, LinkTypes
  <2>2. CASE LocalFailure(c)
    BY <1>1, <1>2, <2>2 DEF LocalFailure
  <2>3. CASE LinkCut(c)
    <3>1. PICK k \in 0 .. Len(inbox[c]) :
            DropLink(c, Append(SubSeq(inbox[c], 1, k), "EOF"))
      BY <2>3 DEF LinkCut
    <3>2. Append(SubSeq(inbox[c], 1, k), "EOF") \in Seq(Frames)
      BY <1>0 DEF LinkTypes, Frames
    <3> QED BY <1>1, <3>1, <3>2
  <2> QED BY <1>6, <2>1, <2>2, <2>3 DEF FaultStep
<1>7. ASSUME NEW c \in Clients, ClientStep(c) PROVE LinkTypes'
  <2>1. CASE Connect(c)
    BY <1>0, <2>1 DEF Connect, LinkTypes
  <2>2. CASE RecvAttached(c)
    <3>1. Tail(inbox[c]) \in Seq(Frames)
      BY <1>0, <2>2 DEF RecvAttached, FrameIs, LinkTypes
    <3> QED BY <1>0, <2>2, <3>1 DEF RecvAttached, LinkTypes
  <2>3. CASE RecvShouldExit(c) \/ RecvExitStatus(c) \/ RecvBusy(c) \/ RecvEof(c)
    BY <1>1, <1>2, <2>3 DEF RecvShouldExit, RecvExitStatus, RecvBusy, RecvEof
  <2>4. CASE DetachStale(c) \/ DetachFirst(c) \/ Wake(c)
    BY <1>0, <2>4 DEF DetachStale, DetachFirst, Wake, LinkTypes
  <2> QED BY <1>7, <2>1, <2>2, <2>3, <2>4 DEF ClientStep
<1> QED BY <1>3, <1>4, <1>5, <1>6, <1>7 DEF Next

\* Every step keeps the types of the daemon's state.
LEMMA DaemonTypesStep == TypeOK /\ Next => DaemonTypes'
<1> SUFFICES ASSUME TypeOK, Next PROVE DaemonTypes'
  OBVIOUS
<1>0. DaemonTypes
  BY TypeParts
<1>1. ASSUME NEW c \in Clients, NEW left, DropLink(c, left),
             faults' \in 0 .. MaxFaults
      PROVE  DaemonTypes'
  BY <1>0, <1>1 DEF DropLink, DaemonTypes
<1>2. CASE OrphanAttach \/ StaleGone \/ ReaderStep \/ ShellExit
  BY <1>0, <1>2 DEF OrphanAttach, StaleGone, Unregister, ReaderStep, ReaderWrites,
                    ReaderWritten, ReaderDetaches, ShellExit, DaemonTypes
<1>3. ASSUME NEW c \in Clients, RemoteStep(c) PROVE DaemonTypes'
  BY <1>0, <1>3
  DEF RemoteStep, BrokerAttach, DaemonAttach, DaemonDetach, Unregister,
      DaemonTypes
<1>4. ASSUME NEW c \in Clients, FaultStep(c) PROVE DaemonTypes'
  <2>1. faults' \in 0 .. MaxFaults
    BY <1>0, <1>4, FaultType DEF FaultStep, ConnectFails, LocalFailure, LinkCut
  <2>2. CASE ConnectFails(c)
    BY <1>0, <2>1, <2>2 DEF ConnectFails, DaemonTypes
  <2> QED BY <1>1, <1>4, <2>1, <2>2 DEF FaultStep, LocalFailure, LinkCut
<1>5. ASSUME NEW c \in Clients, ClientStep(c) PROVE DaemonTypes'
  <2>1. CASE RecvShouldExit(c) \/ RecvExitStatus(c) \/ RecvBusy(c) \/ RecvEof(c)
    BY <1>0, <1>1, <2>1
    DEF RecvShouldExit, RecvExitStatus, RecvBusy, RecvEof, DaemonTypes
  <2>2. CASE Connect(c) \/ RecvAttached(c) \/ Wake(c)
    BY <1>0, <2>2 DEF Connect, RecvAttached, Wake, DaemonTypes
  <2>3. CASE DetachStale(c) \/ DetachFirst(c)
    <3>1. faults' \in 0 .. MaxFaults
      BY <1>0, <2>3, FaultType DEF DetachStale, DetachFirst, DaemonTypes
    <3>2. detaches' \subseteq Clients
      BY <1>0, <2>3
      DEF DetachStale, DetachFirst, SendDetach, MaybeSendDetach, DaemonTypes
    <3> QED BY <1>0, <2>3, <3>1, <3>2 DEF DetachStale, DetachFirst, DaemonTypes
  <2> QED BY <1>5, <2>1, <2>2, <2>3 DEF ClientStep
<1> QED BY <1>2, <1>3, <1>4, <1>5 DEF Next

(***************************************************************************)
(* Type correctness of the clients, their connections and the daemon; in   *)
(* particular the attempt counter saturates within its width.              *)
(***************************************************************************)
THEOREM TypeCorrect == Spec => []TypeOK
<1>1. Init => TypeOK
  <2> SUFFICES ASSUME Init PROVE TypeOK
    OBVIOUS
  <2>1. ClientTypes
    BY DelayAssumption DEF Init, ClientTypes
  <2>2. LinkTypes
    BY DEF Init, LinkTypes
  <2>3. DaemonTypes
    BY SwitchAssumption DEF Init, DaemonTypes
  <2> QED BY <2>1, <2>2, <2>3, TypeParts
<1>2. TypeOK /\ [Next]_vars => TypeOK'
  <2> SUFFICES ASSUME TypeOK, [Next]_vars PROVE TypeOK'
    OBVIOUS
  <2>1. CASE UNCHANGED vars
    BY <2>1 DEF vars, TypeOK
  <2>2. CASE Next
    <3>1. ClientTypes' /\ LinkTypes' /\ DaemonTypes'
      BY <2>2, ClientTypesStep, LinkTypesStep, DaemonTypesStep
    <3> QED BY <3>1 DEF TypeOK, ClientTypes, LinkTypes, DaemonTypes, Frames
  <2> QED BY <2>1, <2>2
<1> QED BY <1>1, <1>2, PTL DEF Spec

-----------------------------------------------------------------------------
(* Clients that have nothing left to hear                                  *)

\* A step that leaves a client alone, and at most takes away, or drops, a holder
\* other than it, keeps its connection consistent.
LEMMA OthersConsistent ==
  ASSUME NEW c \in Clients, Consistent(c), pc'[c] = pc[c], link'[c] = link[c],
         request'[c] = request[c], inbox'[c] = inbox[c],
         holder' = c <=> holder = c, c \in dropped' <=> c \in dropped
  PROVE  Consistent(c)'
BY DEF Consistent

\* A connection is given up: the client has left it, or reads its end later.
LEMMA DropLinkConsistent ==
  ASSUME TypeOK, ConnectionInv, NEW c \in Clients, NEW left \in Seq(Frames),
         DropLink(c, left),
         \/ pc[c] = "attached" /\ UNCHANGED pc /\ Closing(left)
         \/ /\ left = << >>
            /\ \E p : p # "attached" /\ pc' = [pc EXCEPT ![c] = p]
  PROVE  ConnectionInv'
<1>1. /\ holder' = IF holder = c THEN Stale ELSE holder
      /\ dropped' = dropped \ {c}
      /\ ~link'[c] /\ request'[c] = "none" /\ inbox'[c] = left
      /\ \A d \in Clients \ {c} : /\ link'[d] = link[d]
                                  /\ request'[d] = request[d]
                                  /\ inbox'[d] = inbox[d]
  BY DropLinkEffect
<1>2. holder' # c /\ \A d \in Clients \ {c} : holder' = d <=> holder = d
  BY <1>1, ClientsAssumption
<1>3. \A d \in Clients \ {c} : pc'[d] = pc[d]
  BY DEF TypeOK
<1>4. Consistent(c)'
  BY <1>1, <1>2 DEF Consistent, TypeOK
<1>5. ASSUME NEW d \in Clients, d # c PROVE Consistent(d)'
  BY <1>1, <1>2, <1>3, <1>5, OthersConsistent DEF ConnectionInv
<1> QED BY <1>4, <1>5 DEF ConnectionInv

\* Frames that end a connection end it whatever was in flight before them.
LEMMA ConcatCloses ==
  ASSUME NEW s \in Seq(Frames), NEW t \in Seq(Frames), Closing(t)
  PROVE  Closing(s \o t)
<1>1. Len(s) \in Nat /\ Len(t) \in Nat /\ Len(t) > 0
  BY DEF Closing
<1>2. /\ Len(s \o t) = Len(s) + Len(t)
      /\ (s \o t)[Len(s) + Len(t)] = t[Len(t)]
  BY <1>1
<1>3. Len(s \o t) > 0
  BY <1>1, <1>2
<1> QED BY <1>2, <1>3 DEF Closing

\* After a frame that ends a connection there is nothing else to come.
LEMMA DeliverCloses ==
  ASSUME TypeOK, NEW c \in Clients, NEW msgs \in Seq(Frames), Closing(msgs),
         Deliver(c, msgs)
  PROVE  /\ Closing(inbox'[c])
         /\ \A d \in Clients \ {c} : inbox'[d] = inbox[d]
<1>1. /\ inbox'[c] = inbox[c] \o msgs /\ inbox[c] \in Seq(Frames)
      /\ \A d \in Clients \ {c} : inbox'[d] = inbox[d]
  BY DeliverType, TypeParts DEF LinkTypes
<1> QED BY <1>1, ConcatCloses

\* The holder is told, and its connection ends.
LEMMA HolderConsistent ==
  ASSUME TypeOK, ConnectionInv, holder \in Clients,
         NEW msgs \in Seq(Frames), Closing(msgs), Deliver(holder, msgs),
         link' = [link EXCEPT ![holder] = FALSE], holder' = Nobody,
         UNCHANGED <<pc, request, dropped>>
  PROVE  ConnectionInv'
<1>1. PICK c \in Clients : c = holder
  OBVIOUS
<1>2. Closing(inbox'[c]) /\ \A d \in Clients \ {c} : inbox'[d] = inbox[d]
  BY <1>1, DeliverCloses
<1>3. ~link'[c] /\ \A d \in Clients \ {c} : link'[d] = link[d]
  BY <1>1 DEF TypeOK
<1>4. \A d \in Clients : holder' # d
  BY ClientsAssumption
<1>5. Consistent(c)'
  BY <1>1, <1>2, <1>3, <1>4 DEF ConnectionInv, Consistent
<1>6. ASSUME NEW d \in Clients, d # c PROVE Consistent(d)'
  BY <1>1, <1>2, <1>3, <1>4, <1>6, OthersConsistent DEF ConnectionInv
<1> QED BY <1>5, <1>6 DEF ConnectionInv

\* The frames that end a connection.
LEMMA ClosingFrames ==
  /\ << >> \in Seq(Frames)
  /\ <<"EOF">> \in Seq(Frames) /\ Closing(<<"EOF">>)
  /\ <<"SESSION_BUSY", "EOF">> \in Seq(Frames) /\ Closing(<<"SESSION_BUSY", "EOF">>)
  /\ <<"EXIT_STATUS", "EOF">> \in Seq(Frames) /\ Closing(<<"EXIT_STATUS", "EOF">>)
  /\ <<"CLIENT_SHOULD_EXIT", "EOF">> \in Seq(Frames)
  /\ Closing(<<"CLIENT_SHOULD_EXIT", "EOF">>)
BY DEF Frames, Closing

\* ConnectionInv is inductive: the clients' own steps ...
LEMMA ClientConsistent ==
  ASSUME TypeOK, ConnectionInv, NEW c \in Clients, ClientStep(c)
  PROVE  ConnectionInv'
<1>0. /\ pc \in [Clients -> {"predetach", "connect", "attached", "detach",
                             "sleep", "exited"}]
      /\ link \in [Clients -> BOOLEAN]
      /\ request \in [Clients -> {"none", "broker", "daemon"}]
      /\ inbox \in [Clients -> Seq(Frames)]
  BY TypeParts DEF ClientTypes, LinkTypes
<1>1. CASE Connect(c)
  <2>1. pc[c] = "connect" /\ UNCHANGED <<holder, dropped, inbox>>
    BY <1>1 DEF Connect
  <2>2. holder # c /\ c \notin dropped /\ ~link[c] /\ request[c] = "none"
    BY <2>1 DEF ConnectionInv, Consistent
  <2>3. CASE /\ pc' = [pc EXCEPT ![c] = "attached"]
             /\ link' = [link EXCEPT ![c] = TRUE]
             /\ request' = [request EXCEPT ![c] = "broker"]
    <3>1. Consistent(c)'
      BY <1>0, <2>1, <2>2, <2>3 DEF Consistent
    <3>2. ASSUME NEW d \in Clients, d # c PROVE Consistent(d)'
      BY <1>0, <2>1, <2>3, <3>2, OthersConsistent DEF ConnectionInv
    <3> QED BY <3>1, <3>2 DEF ConnectionInv
  <2>4. CASE pc' = [pc EXCEPT ![c] = "exited"] /\ UNCHANGED linkVars
    <3>1. Consistent(c)'
      BY <1>0, <2>1, <2>2, <2>4 DEF ConnectionInv, Consistent
    <3>2. ASSUME NEW d \in Clients, d # c PROVE Consistent(d)'
      BY <1>0, <2>1, <2>4, <3>2, OthersConsistent DEF ConnectionInv
    <3> QED BY <3>1, <3>2 DEF ConnectionInv
  <2> QED BY <1>1, <2>3, <2>4 DEF Connect, Goto, Exit
<1>2. CASE RecvAttached(c)
  <2>1. /\ UNCHANGED <<pc, link, request, holder, dropped>>
        /\ inbox' = [inbox EXCEPT ![c] = Tail(@)]
        /\ pc[c] = "attached" /\ inbox[c] # << >>
        /\ inbox[c][1] = "ATTACHED_SESSION"
    BY <1>0, <1>2 DEF RecvAttached, FrameIs
  <2>2. Closing(inbox[c]) => Closing(inbox'[c])
    <3> SUFFICES ASSUME Closing(inbox[c]) PROVE Closing(inbox'[c])
      OBVIOUS
    <3>1. inbox[c] \in Seq(Frames) /\ inbox'[c] = Tail(inbox[c])
      BY <1>0, <2>1
    <3>2. Len(inbox[c]) \in Nat /\ Len(inbox[c]) > 1
      BY <2>1, <3>1 DEF Closing
    <3>3. /\ Len(Tail(inbox[c])) = Len(inbox[c]) - 1
          /\ Tail(inbox[c])[Len(inbox[c]) - 1] = inbox[c][Len(inbox[c])]
      BY <3>1, <3>2
    <3>4. Tail(inbox[c]) # << >>
      <4>1. Len(Tail(inbox[c])) # 0
        BY <3>2, <3>3
      <4>2. Len(<< >>) = 0
        OBVIOUS
      <4> QED BY <4>1, <4>2, Zenon
    <3>5. inbox[c][Len(inbox[c])] = "EOF"
      BY DEF Closing
    <3> QED BY <3>1, <3>3, <3>4, <3>5 DEF Closing
  <2>3. Consistent(c)'
    BY <2>1, <2>2 DEF ConnectionInv, Consistent
  <2>4. ASSUME NEW d \in Clients, d # c PROVE Consistent(d)'
    BY <1>0, <2>1, <2>4, OthersConsistent DEF ConnectionInv
  <2> QED BY <2>3, <2>4 DEF ConnectionInv
<1>3. CASE RecvShouldExit(c) \/ RecvExitStatus(c) \/ RecvBusy(c) \/ RecvEof(c)
  <2>1. DropLink(c, << >>)
    BY <1>3 DEF RecvShouldExit, RecvExitStatus, RecvBusy, RecvEof
  <2>2. \E p : p # "attached" /\ pc' = [pc EXCEPT ![c] = p]
    BY <1>3 DEF RecvShouldExit, RecvExitStatus, RecvBusy, RecvEof, Exit,
                Backoff, Goto
  <2> QED BY <2>1, <2>2, DropLinkConsistent, ClosingFrames
<1>4. CASE DetachStale(c) \/ DetachFirst(c) \/ Wake(c)
  <2>1. /\ UNCHANGED <<link, request, inbox, holder, dropped>>
        /\ pc[c] # "attached"
        /\ \E p : p # "attached" /\ pc' = [pc EXCEPT ![c] = p]
    BY <1>4 DEF DetachStale, DetachFirst, Wake, Goto, Exit
  <2>2. Consistent(c)'
    BY <1>0, <2>1 DEF ConnectionInv, Consistent
  <2>3. ASSUME NEW d \in Clients, d # c PROVE Consistent(d)'
    BY <1>0, <2>1, <2>3, OthersConsistent DEF ConnectionInv
  <2> QED BY <2>2, <2>3 DEF ConnectionInv
<1> QED BY <1>1, <1>2, <1>3, <1>4 DEF ClientStep

\* ... those of the remote host ...
LEMMA RemoteConsistent ==
  ASSUME TypeOK, ConnectionInv, NEW c \in Clients, RemoteStep(c)
  PROVE  ConnectionInv'
<1>0. /\ link \in [Clients -> BOOLEAN]
      /\ request \in [Clients -> {"none", "broker", "daemon"}]
      /\ inbox \in [Clients -> Seq(Frames)]
      /\ LinkTypes
  BY TypeParts DEF LinkTypes
<1>1. CASE BrokerAttach(c)
  <2>1. UNCHANGED <<pc, holder, dropped>> /\ request[c] = "broker"
    BY <1>1 DEF BrokerAttach
  <2>2. link[c] /\ pc[c] = "attached" /\ holder # c /\ c \notin dropped
    BY <2>1 DEF ConnectionInv, Consistent
  <2>3. CASE /\ Deliver(c, <<"ATTACHED_SESSION">>)
             /\ request' = [request EXCEPT ![c] = "daemon"] /\ UNCHANGED link
    <3>1. <<"ATTACHED_SESSION">> \in Seq(Frames)
      BY DEF Frames
    <3>2. \A d \in Clients \ {c} : inbox'[d] = inbox[d]
      BY <1>0, <2>3, <3>1, DeliverType
    <3>3. Consistent(c)'
      BY <1>0, <2>1, <2>2, <2>3 DEF Consistent
    <3>4. ASSUME NEW d \in Clients, d # c PROVE Consistent(d)'
      BY <1>0, <2>1, <2>3, <3>2, <3>4, OthersConsistent DEF ConnectionInv
    <3> QED BY <3>3, <3>4 DEF ConnectionInv
  <2>4. CASE /\ Deliver(c, <<"EOF">>)
             /\ request' = [request EXCEPT ![c] = "none"]
             /\ link' = [link EXCEPT ![c] = FALSE]
    <3>1. Closing(inbox'[c]) /\ \A d \in Clients \ {c} : inbox'[d] = inbox[d]
      BY <2>4, DeliverCloses, ClosingFrames
    <3>2. Consistent(c)'
      BY <1>0, <2>1, <2>2, <2>4, <3>1 DEF Consistent
    <3>3. ASSUME NEW d \in Clients, d # c PROVE Consistent(d)'
      BY <1>0, <2>1, <2>4, <3>1, <3>3, OthersConsistent DEF ConnectionInv
    <3> QED BY <3>2, <3>3 DEF ConnectionInv
  <2> QED BY <1>1, <2>3, <2>4 DEF BrokerAttach
<1>2. CASE DaemonAttach(c)
  <2>1. /\ UNCHANGED <<pc, dropped>> /\ request[c] = "daemon"
        /\ request' = [request EXCEPT ![c] = "none"]
    BY <1>2 DEF DaemonAttach
  <2>2. link[c] /\ pc[c] = "attached" /\ holder # c /\ c \notin dropped
    BY <2>1 DEF ConnectionInv, Consistent
  <2>3. CASE holder = Nobody /\ holder' = c /\ UNCHANGED <<link, inbox>>
    <3>1. Consistent(c)'
      BY <1>0, <2>1, <2>2, <2>3 DEF Consistent
    <3>2. ASSUME NEW d \in Clients, d # c PROVE Consistent(d)'
      BY <1>0, <2>1, <2>3, <3>2, OthersConsistent, ClientsAssumption
      DEF ConnectionInv
    <3> QED BY <3>1, <3>2 DEF ConnectionInv
  <2>4. ASSUME NEW msgs \in Seq(Frames), Closing(msgs), Deliver(c, msgs),
               link' = [link EXCEPT ![c] = FALSE], UNCHANGED holder
        PROVE  ConnectionInv'
    <3>1. Closing(inbox'[c]) /\ \A d \in Clients \ {c} : inbox'[d] = inbox[d]
      BY <2>4, DeliverCloses
    <3>2. Consistent(c)'
      BY <1>0, <2>1, <2>2, <2>4, <3>1 DEF Consistent
    <3>3. ASSUME NEW d \in Clients, d # c PROVE Consistent(d)'
      BY <1>0, <2>1, <2>4, <3>1, <3>3, OthersConsistent DEF ConnectionInv
    <3> QED BY <3>2, <3>3 DEF ConnectionInv
  <2> QED BY <1>2, <2>3, <2>4, ClosingFrames DEF DaemonAttach, Refuse
<1>3. CASE DaemonDetach(c)
  <2>1. UNCHANGED <<pc, request, dropped>> /\ holder' = Nobody
    BY <1>3 DEF DaemonDetach, Unregister
  <2>2. CASE holder \in Clients
    BY <1>3, <2>1, <2>2, HolderConsistent, ClosingFrames DEF DaemonDetach, Evict
  <2>3. CASE holder \notin Clients
    <3>1. UNCHANGED <<link, inbox>>
      BY <1>3, <2>3 DEF DaemonDetach, Evict
    <3> QED BY <2>1, <2>3, <3>1, OthersConsistent, ClientsAssumption
            DEF ConnectionInv
  <2> QED BY <2>2, <2>3
<1> QED BY <1>1, <1>2, <1>3 DEF RemoteStep

\* The end of the daemon ends every connection it served: the holder's and those
\* of the clients that were dropped.
LEMMA ExitConsistent ==
  ASSUME TypeOK, ConnectionInv, ShellExit
  PROVE  ConnectionInv'
<1>1. PICK last \in {<<"EXIT_STATUS", "EOF">>, <<"EOF">>} :
        inbox' = [c \in Clients |-> inbox[c] \o Parting(c, last)]
  BY DEF ShellExit
<1>2. /\ UNCHANGED <<pc, request>> /\ holder' = Nobody /\ dropped' = {}
      /\ link' = [c \in Clients |-> link[c] /\ c # holder /\ c \notin dropped]
  BY DEF ShellExit
<1>3. last \in Seq(Frames) /\ Closing(last)
  BY <1>1, ClosingFrames
<1>4. ASSUME NEW c \in Clients PROVE Consistent(c)'
  <2>1. /\ inbox[c] \in Seq(Frames) /\ Consistent(c) /\ holder' # c
        /\ inbox'[c] = inbox[c] \o Parting(c, last)
        /\ link'[c] <=> link[c] /\ c # holder /\ c \notin dropped
    BY <1>1, <1>2, TypeParts, ClientsAssumption DEF LinkTypes, ConnectionInv
  <2>2. CASE holder = c \/ c \in dropped
    <3>1. Parting(c, last) \in Seq(Frames) /\ Closing(Parting(c, last))
      BY <1>3, <2>2, ClosingFrames DEF Parting
    <3>2. Closing(inbox'[c])
      BY <2>1, <3>1, ConcatCloses
    <3>3. pc[c] = "attached" /\ request[c] = "none" /\ ~link'[c]
      BY <2>1, <2>2 DEF Consistent
    <3> QED BY <1>2, <2>1, <3>2, <3>3 DEF Consistent
  <2>3. CASE holder # c /\ c \notin dropped
    <3>1. inbox'[c] = inbox[c] \o << >>
      BY <2>1, <2>3 DEF Parting
    <3>2. inbox'[c] = inbox[c]
      BY <2>1, <3>1
    <3>3. link'[c] <=> link[c]
      BY <2>1, <2>3
    <3> QED BY <1>2, <2>1, <2>3, <3>2, <3>3 DEF Consistent
  <2> QED BY <2>2, <2>3
<1> QED BY <1>4 DEF ConnectionInv

\* ... faults, and what the daemon does by itself.
LEMMA OtherConsistent ==
  ASSUME TypeOK, ConnectionInv,
         \/ \E c \in Clients : FaultStep(c)
         \/ OrphanAttach \/ StaleGone \/ ReaderStep \/ ShellExit
  PROVE  ConnectionInv'
<1>1. ASSUME NEW c \in Clients, ConnectFails(c) PROVE ConnectionInv'
  <2>1. /\ UNCHANGED <<link, request, inbox, holder, dropped>>
        /\ pc[c] # "attached"
        /\ \E p : p # "attached" /\ pc' = [pc EXCEPT ![c] = p]
    BY <1>1 DEF ConnectFails, Backoff, Exit, Goto
  <2>2. Consistent(c)'
    BY <2>1 DEF ConnectionInv, Consistent, TypeOK
  <2>3. ASSUME NEW d \in Clients, d # c PROVE Consistent(d)'
    BY <2>1, <2>3, OthersConsistent DEF ConnectionInv, TypeOK
  <2> QED BY <2>2, <2>3 DEF ConnectionInv
<1>2. ASSUME NEW c \in Clients, LocalFailure(c) PROVE ConnectionInv'
  <2>1. DropLink(c, << >>) /\ pc' = [pc EXCEPT ![c] = "exited"]
    BY <1>2 DEF LocalFailure, Exit, Goto
  <2> QED BY <2>1, DropLinkConsistent, ClosingFrames
<1>3. ASSUME NEW c \in Clients, LinkCut(c) PROVE ConnectionInv'
  <2>1. PICK k \in 0 .. Len(inbox[c]) :
          DropLink(c, Append(SubSeq(inbox[c], 1, k), "EOF"))
    BY <1>3 DEF LinkCut
  <2> DEFINE left == Append(SubSeq(inbox[c], 1, k), "EOF")
  <2>2. inbox[c] \in Seq(Frames)
    BY TypeParts DEF LinkTypes
  <2>3. SubSeq(inbox[c], 1, k) \in Seq(Frames)
    BY <2>2
  <2>4. left \in Seq(Frames) /\ Closing(left)
    BY <2>3 DEF Frames, Closing
  <2>5. pc[c] = "attached" /\ UNCHANGED pc
    BY <1>3 DEF LinkCut, ConnectionInv, Consistent
  <2> QED BY <2>1, <2>4, <2>5, DropLinkConsistent
<1>4. CASE OrphanAttach \/ StaleGone \/ ReaderWrites \/ ReaderWritten
  BY <1>4, OthersConsistent, ClientsAssumption
  DEF OrphanAttach, StaleGone, Unregister, ReaderWrites, ReaderWritten,
      ConnectionInv
<1>5. CASE ReaderDetaches
  <2>1. /\ UNCHANGED <<pc, link, request, inbox>> /\ holder' = Nobody
        /\ dropped' = dropped \cup ({holder} \cap Clients)
    BY <1>5 DEF ReaderDetaches
  <2>2. ASSUME NEW c \in Clients PROVE Consistent(c)'
    <3>1. holder' # c
      BY <2>1, ClientsAssumption
    <3>2. c \in dropped' <=> c \in dropped \/ holder = c
      BY <2>1
    <3> QED BY <2>1, <3>1, <3>2 DEF ConnectionInv, Consistent
  <2> QED BY <2>2 DEF ConnectionInv
<1>6. CASE ShellExit
  BY <1>6, ExitConsistent
<1> QED BY <1>1, <1>2, <1>3, <1>4, <1>5, <1>6 DEF FaultStep, ReaderStep

\* ConnectionInv holds in every state.
LEMMA ConnectionInvariant == Spec => []ConnectionInv
<1>1. Init => ConnectionInv
  BY ClientsAssumption DEF Init, ConnectionInv, Consistent
<1>2. TypeOK /\ ConnectionInv /\ [Next]_vars => ConnectionInv'
  <2> SUFFICES ASSUME TypeOK, ConnectionInv, [Next]_vars PROVE ConnectionInv'
    OBVIOUS
  <2>1. CASE UNCHANGED vars
    BY <2>1 DEF vars, ConnectionInv, Consistent
  <2>2. CASE Next
    BY <2>2, ClientConsistent, RemoteConsistent, OtherConsistent DEF Next
  <2> QED BY <2>1, <2>2
<1> QED BY <1>1, <1>2, TypeCorrect, PTL DEF Spec

(***************************************************************************)
(* A client that has nothing left to hear holds the session, or was        *)
(* dropped by the PTY reader's detach_current after a failed write to an   *)
(* earlier broker: anything else that takes the session from a client      *)
(* leaves it a frame, or at least an end of file, to react to, in whatever *)
(* order requests, refusals, evictions, broken connections and the end of  *)
(* the shell come.                                                         *)
(***************************************************************************)
THEOREM SettledCorrect == Spec => []SettledClientHolds
<1>1. ConnectionInv => SettledClientHolds
  BY DEF ConnectionInv, Consistent, Closing, SettledClientHolds
<1> QED BY <1>1, ConnectionInvariant, PTL

-----------------------------------------------------------------------------
(* Clients that clear each other out of the way                            *)

\* CLIENT_SHOULD_EXIT is among the frames in flight only if it was sent.
LEMMA TellsConcat ==
  ASSUME NEW s \in Seq(Frames), NEW t \in Seq(Frames), Tells(s \o t)
  PROVE  Tells(s) \/ Tells(t)
<1>1. PICK i \in 1 .. Len(s \o t) : (s \o t)[i] = "CLIENT_SHOULD_EXIT"
  BY DEF Tells
<1>2. Len(s \o t) = Len(s) + Len(t) /\ Len(s) \in Nat /\ Len(t) \in Nat
  OBVIOUS
<1>3. CASE i \in 1 .. Len(s)
  <2>1. s[i] = "CLIENT_SHOULD_EXIT"
    BY <1>1, <1>3
  <2> QED BY <1>3, <2>1 DEF Tells
<1>4. CASE i \in Len(s) + 1 .. Len(s) + Len(t)
  <2>1. i - Len(s) \in 1 .. Len(t)
    BY <1>2, <1>4
  <2>2. t[i - Len(s)] = "CLIENT_SHOULD_EXIT"
    BY <1>1, <1>4
  <2> QED BY <2>1, <2>2 DEF Tells
<1> QED BY <1>1, <1>2, <1>3, <1>4

\* Reading a frame adds none ...
LEMMA TellsTail ==
  ASSUME NEW s \in Seq(Frames), s # << >>, Tells(Tail(s))
  PROVE  Tells(s)
<1>1. PICK i \in 1 .. Len(Tail(s)) : Tail(s)[i] = "CLIENT_SHOULD_EXIT"
  BY DEF Tells
<1>2. i + 1 \in 1 .. Len(s) /\ s[i + 1] = "CLIENT_SHOULD_EXIT"
  BY <1>1
<1> QED BY <1>2 DEF Tells

\* ... and neither does a connection that breaks.
LEMMA TellsCut ==
  ASSUME NEW s \in Seq(Frames), NEW k \in 0 .. Len(s),
         Tells(Append(SubSeq(s, 1, k), "EOF"))
  PROVE  Tells(s)
<1> DEFINE t == SubSeq(s, 1, k)
<1>1. /\ t \in Seq(Frames) /\ Len(t) = k /\ k \in Nat
      /\ \A i \in 1 .. k : i \in 1 .. Len(s) /\ t[i] = s[i]
  OBVIOUS
<1> HIDE DEF t
<1>2. PICK i \in 1 .. Len(Append(t, "EOF")) :
        Append(t, "EOF")[i] = "CLIENT_SHOULD_EXIT"
  BY DEF Tells, t
<1>3. i \in 1 .. k
  BY <1>1, <1>2
<1>4. t[i] = "CLIENT_SHOULD_EXIT"
  BY <1>1, <1>2, <1>3
<1> QED BY <1>1, <1>3, <1>4 DEF Tells

\* None of the other frames tells a client to exit.
LEMMA OtherFrames ==
  /\ ~Tells(<< >>) /\ ~Tells(<<"EOF">>) /\ ~Tells(<<"ATTACHED_SESSION">>)
  /\ ~Tells(<<"SESSION_BUSY", "EOF">>) /\ ~Tells(<<"EXIT_STATUS", "EOF">>)
BY DEF Tells

\* Frames that do not tell a client to exit leave it as it was.
LEMMA DeliverTells ==
  ASSUME TypeOK, NEW c \in Clients, NEW msgs \in Seq(Frames), ~Tells(msgs),
         Deliver(c, msgs), UNCHANGED outcome, NEW d \in Clients, ToldToExit(d)'
  PROVE  ToldToExit(d)
<1>1. /\ inbox'[c] = inbox[c] \o msgs /\ inbox[c] \in Seq(Frames)
      /\ \A e \in Clients \ {c} : inbox'[e] = inbox[e]
  BY DeliverType, TypeParts DEF LinkTypes
<1>2. CASE d = c
  BY <1>1, <1>2, TellsConcat DEF ToldToExit
<1>3. CASE d # c
  BY <1>1, <1>3 DEF ToldToExit
<1> QED BY <1>2, <1>3

\* A client is told to exit only by the daemon, and only while it holds the
\* session.
LEMMA ToldStep ==
  ASSUME TypeOK, ConnectionInv, Next, NEW d \in Clients, ToldToExit(d)'
  PROVE  \/ ToldToExit(d)
         \/ holder = d /\ \E c \in Clients : DaemonDetach(c)
<1>0. /\ outcome \in [Clients -> {"running", "detached", "status", "error",
                                  "elsewhere"}]
      /\ inbox \in [Clients -> Seq(Frames)]
      /\ <<"ATTACHED_SESSION">> \in Seq(Frames)
  BY TypeParts DEF ClientTypes, LinkTypes, Frames
<1>1. CASE OrphanAttach \/ StaleGone \/ ReaderStep
  BY <1>1 DEF OrphanAttach, StaleGone, ReaderStep, ReaderWrites, ReaderWritten,
              ReaderDetaches, ToldToExit
<1>2. CASE ShellExit
  <2>1. PICK last \in {<<"EXIT_STATUS", "EOF">>, <<"EOF">>} :
          inbox' = [c \in Clients |-> inbox[c] \o Parting(c, last)]
    BY <1>2 DEF ShellExit
  <2>2. Parting(d, last) \in Seq(Frames) /\ ~Tells(Parting(d, last))
    BY ClosingFrames, OtherFrames DEF Parting
  <2>3. inbox'[d] = inbox[d] \o Parting(d, last) /\ inbox[d] \in Seq(Frames)
    BY <1>0, <2>1
  <2>4. Tells(inbox'[d]) => Tells(inbox[d])
    BY <2>2, <2>3, TellsConcat
  <2> QED BY <1>2, <2>4 DEF ShellExit, ToldToExit
<1>3. ASSUME NEW c \in Clients, BrokerAttach(c) PROVE ToldToExit(d)
  BY <1>0, <1>3, DeliverTells, ClosingFrames, OtherFrames DEF BrokerAttach
<1>4. ASSUME NEW c \in Clients, DaemonAttach(c) PROVE ToldToExit(d)
  <2>1. CASE UNCHANGED <<outcome, inbox>>
    BY <2>1 DEF ToldToExit
  <2> QED BY <1>4, <2>1, DeliverTells, ClosingFrames, OtherFrames
          DEF DaemonAttach, Refuse
<1>5. ASSUME NEW c \in Clients, DaemonDetach(c)
      PROVE  ToldToExit(d) \/ holder = d
  <2>1. CASE holder \in Clients
    <3>1. PICK h \in Clients : h = holder
      BY <2>1
    <3>2. \A e \in Clients \ {h} : inbox'[e] = inbox[e]
      BY <1>0, <1>5, <2>1, <3>1 DEF DaemonDetach, Evict, Deliver
    <3> QED BY <1>5, <3>1, <3>2 DEF DaemonDetach, ToldToExit
  <2>2. CASE holder \notin Clients
    BY <1>5, <2>2 DEF DaemonDetach, Evict, ToldToExit
  <2> QED BY <2>1, <2>2
<1>6. ASSUME NEW c \in Clients, LinkCut(c) PROVE ToldToExit(d)
  <2>1. PICK k \in 0 .. Len(inbox[c]) :
          inbox' = [inbox EXCEPT ![c] = Append(SubSeq(inbox[c], 1, k), "EOF")]
    BY <1>6 DEF LinkCut, DropLink
  <2>2. CASE d = c
    <3>1. inbox'[c] = Append(SubSeq(inbox[c], 1, k), "EOF")
      BY <1>0, <2>1
    <3>2. inbox[c] \in Seq(Frames)
      BY <1>0
    <3>3. Tells(inbox'[c]) => Tells(inbox[c])
      BY <3>1, <3>2, TellsCut
    <3> QED BY <1>6, <2>2, <3>3 DEF LinkCut, ToldToExit
  <2>3. CASE d # c
    BY <1>0, <1>6, <2>1, <2>3 DEF LinkCut, ToldToExit
  <2> QED BY <2>2, <2>3
<1>7. ASSUME NEW c \in Clients, RecvShouldExit(c) PROVE ToldToExit(d)
  <2>1. /\ inbox[c] \in Seq(Frames) /\ inbox[c] # << >>
        /\ Head(inbox[c]) = "CLIENT_SHOULD_EXIT"
    BY <1>0, <1>7 DEF RecvShouldExit, FrameIs
  <2>2. 1 \in 1 .. Len(inbox[c]) /\ inbox[c][1] = "CLIENT_SHOULD_EXIT"
    BY <2>1
  <2>3. CASE d = c
    BY <2>2, <2>3 DEF ToldToExit, Tells
  <2>4. CASE d # c
    BY <1>0, <1>7, <2>4 DEF RecvShouldExit, Exit, DropLink, ToldToExit
  <2> QED BY <2>3, <2>4
<1>8. ASSUME NEW c \in Clients, RecvAttached(c) PROVE ToldToExit(d)
  <2>1. /\ inbox' = [inbox EXCEPT ![c] = Tail(inbox[c])] /\ UNCHANGED outcome
        /\ inbox[c] # << >> /\ inbox[c] \in Seq(Frames)
    BY <1>0, <1>8 DEF RecvAttached, FrameIs
  <2>2. Tells(inbox'[c]) => Tells(inbox[c])
    BY <1>0, <2>1, TellsTail
  <2> QED BY <1>0, <2>1, <2>2 DEF ToldToExit
<1>9. ASSUME NEW c \in Clients,
             RecvExitStatus(c) \/ RecvBusy(c) \/ RecvEof(c) \/ LocalFailure(c)
      PROVE  ToldToExit(d)
  <2>1. inbox' = [inbox EXCEPT ![c] = << >>]
    BY <1>9 DEF RecvExitStatus, RecvBusy, RecvEof, LocalFailure, DropLink
  <2>2. \/ UNCHANGED outcome
        \/ \E o \in {"status", "error"} : outcome' = [outcome EXCEPT ![c] = o]
    BY <1>9 DEF RecvExitStatus, RecvBusy, RecvEof, LocalFailure, Exit, Backoff
  <2> QED BY <1>0, <2>1, <2>2, OtherFrames DEF ToldToExit
<1>10. ASSUME NEW c \in Clients,
              \/ ConnectFails(c) \/ Connect(c) \/ DetachStale(c)
              \/ DetachFirst(c) \/ Wake(c)
       PROVE  ToldToExit(d)
  <2>1. UNCHANGED inbox
    BY <1>10 DEF ConnectFails, Connect, DetachStale, DetachFirst, Wake
  <2>2. \/ UNCHANGED outcome
        \/ \E o \in {"elsewhere", "error"} : outcome' = [outcome EXCEPT ![c] = o]
    BY <1>10 DEF ConnectFails, Connect, DetachStale, DetachFirst, Wake, Exit,
                 Backoff
  <2> QED BY <1>0, <2>1, <2>2 DEF ToldToExit
<1> QED
  BY <1>1, <1>2, <1>3, <1>4, <1>5, <1>6, <1>7, <1>8, <1>9, <1>10
  DEF Next, ClientStep, RemoteStep, FaultStep

\* A client ends once, and leaves nothing of its detach request to be undone:
\* DetachInv is kept by every step, if a retry does not overtake its request.
LEMMA DetachStep ==
  ASSUME DetachLag = FALSE, TypeOK, DetachInv, [Next]_vars
  PROVE  DetachInv'
<1> USE DEF DetachInv
<1>0. ClientTypes /\ detaches \subseteq Clients
  BY TypeParts DEF DaemonTypes
<1>1. CASE UNCHANGED vars
  BY <1>1 DEF vars
<1>2. CASE OrphanAttach \/ StaleGone \/ ReaderStep \/ ShellExit
  BY <1>2 DEF OrphanAttach, StaleGone, ReaderStep, ReaderWrites, ReaderWritten,
              ReaderDetaches, ShellExit
<1>3. ASSUME NEW c \in Clients, RemoteStep(c) \/ LinkCut(c) PROVE DetachInv'
  BY <1>3 DEF RemoteStep, BrokerAttach, DaemonAttach, DaemonDetach, LinkCut,
              DropLink
<1>4. ASSUME NEW c \in Clients, DetachStale(c) \/ DetachFirst(c)
      PROVE  DetachInv'
  BY <1>0, <1>4 DEF DetachStale, DetachFirst, SendDetach, MaybeSendDetach, Goto,
                    Exit, ClientTypes
<1>5. ASSUME NEW c \in Clients, Connect(c) PROVE DetachInv'
  <2>1. c \notin detaches /\ pc[c] = "connect" /\ UNCHANGED detaches
    BY <1>5 DEF Connect
  <2> QED BY <1>0, <1>5, <2>1 DEF Connect, Goto, Exit, ClientTypes
<1>6. ASSUME NEW c \in Clients, ConnectFails(c) \/ Wake(c) PROVE DetachInv'
  BY <1>0, <1>6 DEF ConnectFails, Wake, Backoff, Exit, Goto, ClientTypes
<1>7. ASSUME NEW c \in Clients,
             \/ RecvAttached(c) \/ RecvShouldExit(c) \/ RecvExitStatus(c)
             \/ RecvBusy(c) \/ RecvEof(c) \/ LocalFailure(c)
      PROVE  DetachInv'
  <2>1. c \notin detaches /\ UNCHANGED detaches
    BY <1>7 DEF RecvAttached, RecvShouldExit, RecvExitStatus, RecvBusy, RecvEof,
                LocalFailure, FrameIs, DropLink
  <2>2. \/ UNCHANGED <<pc, outcome>>
        \/ UNCHANGED outcome /\ pc[c] # "exited"
           /\ \E p : pc' = [pc EXCEPT ![c] = p]
        \/ pc' = [pc EXCEPT ![c] = "exited"]
           /\ \E o : outcome' = [outcome EXCEPT ![c] = o]
    BY <1>7 DEF RecvAttached, RecvShouldExit, RecvExitStatus, RecvBusy, RecvEof,
                LocalFailure, FrameIs, Exit, Backoff, Goto
  <2> QED BY <1>0, <2>1, <2>2 DEF ClientTypes
<1> QED
  BY <1>1, <1>2, <1>3, <1>4, <1>5, <1>6, <1>7
  DEF Next, ClientStep, RemoteStep, FaultStep

\* Whoever's request evicts the holder was not told to exit itself.
LEMMA StaysStep ==
  ASSUME TypeOK, ConnectionInv, DetachInv, SomebodyStays, [Next]_vars
  PROVE  SomebodyStays'
<1> SUFFICES ASSUME Clients # {} PROVE \E c \in Clients : ~ToldToExit(c)'
  BY DEF SomebodyStays
<1>1. CASE UNCHANGED vars
  BY <1>1 DEF vars, SomebodyStays, ToldToExit
<1>2. CASE Next /\ \E c \in Clients : DaemonDetach(c)
  <2>1. PICK c \in Clients : DaemonDetach(c)
    BY <1>2
  <2>2. c \in detaches
    BY <2>1 DEF DaemonDetach
  <2>3. pc[c] # "attached" /\ outcome[c] # "detached"
    BY <2>2 DEF DetachInv
  <2>4. inbox[c] = << >> /\ holder # c
    BY <2>3 DEF ConnectionInv, Consistent
  <2>5. ~ToldToExit(c)
    BY <2>3, <2>4, OtherFrames DEF ToldToExit
  <2> QED BY <1>2, <2>4, <2>5, ToldStep
<1>3. CASE Next /\ ~\E c \in Clients : DaemonDetach(c)
  <2>1. PICK c \in Clients : ~ToldToExit(c)
    BY DEF SomebodyStays
  <2> QED BY <1>3, <2>1, ToldStep
<1> QED BY <1>1, <1>2, <1>3

(***************************************************************************)
(* However many recovering clients clear each other out of the way, they   *)
(* are never all told to exit, provided that the daemon handles a detach   *)
(* request (detach_stale_client_for_reconnect) before the retry that       *)
(* follows it.  Without that proviso a client is evicted by its own        *)
(* request, which TLC finds as soon as DetachLag is TRUE.                  *)
(***************************************************************************)
THEOREM SomebodySurvives ==
  ASSUME DetachLag = FALSE
  PROVE  Spec => []NotAllEvicted
<1>1. Init => DetachInv /\ SomebodyStays
  BY DEF Init, DetachInv, SomebodyStays, ToldToExit, Tells
<1>2. TypeOK /\ DetachInv /\ [Next]_vars => DetachInv'
  BY DetachStep
<1>3. TypeOK /\ ConnectionInv /\ DetachInv /\ SomebodyStays /\ [Next]_vars
        => SomebodyStays'
  BY StaysStep
<1>4. SomebodyStays => NotAllEvicted
  BY DEF SomebodyStays, NotAllEvicted, ToldToExit
<1> QED BY <1>1, <1>2, <1>3, <1>4, TypeCorrect, ConnectionInvariant, PTL
        DEF Spec

-----------------------------------------------------------------------------
(* Backoff                                                                 *)

\* The powers of two satisfy their recursive definition ...
LEMMA Doubling ==
  /\ PowerOfTwo \in [Nat -> Nat \ {0}] /\ PowerOfTwo[0] = 1
  /\ \A n \in Nat : PowerOfTwo[n + 1] = 2 * PowerOfTwo[n]
<1> DEFINE V == Nat \ {0}
           h == [r \in Nat \ {0} |-> [v \in V |-> 2 * v]]
           Body(g) == [n \in Nat |-> IF n = 0 THEN 1 ELSE 2 * g[n - 1]]
<1>1. h \in [Nat \ {0} -> [V -> V]] /\ 1 \in V
  OBVIOUS
<1>2. PICK g \in [Nat -> V] : \A n \in Nat : Recurs(g, n, 1, h)
  <2> HIDE DEF V, h
  <2> QED BY <1>1, RecursionOnNat
<1>3. g[0] = 1 /\ \A r \in Nat \ {0} : g[r] = 2 * g[r - 1]
  <2>1. ASSUME NEW r \in Nat \ {0} PROVE g[r] = 2 * g[r - 1]
    <3>1. r \in Nat /\ r \in 1 .. r /\ r - 1 \in Nat
      OBVIOUS
    <3>2. g[r] = h[r][g[r - 1]]
      <4> HIDE DEF h
      <4> QED BY <1>2, <3>1 DEF Recurs
    <3> QED BY <3>1, <3>2
  <2>2. g[0] = 1
    BY <1>2 DEF Recurs
  <2> QED BY <2>1, <2>2
<1>4. g = Body(g)
  BY <1>3
<1>5. PowerOfTwo = CHOOSE f : f = Body(f)
  BY Zenon DEF PowerOfTwo
<1>6. PowerOfTwo = Body(PowerOfTwo)
  <2> HIDE DEF Body
  <2> QED BY <1>4, <1>5, Zenon
<1> DEFINE f == PowerOfTwo
<1> HIDE DEF f
<1>7. f = [n \in Nat |-> IF n = 0 THEN 1 ELSE 2 * f[n - 1]]
  BY <1>6 DEF f
<1>8. f[0] = 1 /\ \A n \in Nat : f[n + 1] = 2 * f[n]
  <2>1. \A n \in Nat : f[n] = IF n = 0 THEN 1 ELSE 2 * f[n - 1]
    BY <1>7
  <2>2. ASSUME NEW n \in Nat PROVE f[n + 1] = 2 * f[n]
    <3>1. n + 1 \in Nat /\ n + 1 # 0 /\ (n + 1) - 1 = n
      OBVIOUS
    <3> QED BY <2>1, <3>1
  <2> QED BY <2>1, <2>2
<1>9. Nat \subseteq {n \in Nat : f[n] \in V}
  <2> DEFINE S == {n \in Nat : f[n] \in V}
  <2>1. 0 \in S /\ \A n \in Nat : n \in S => n + 1 \in S
    BY <1>8
  <2> HIDE DEF S
  <2> QED BY <2>1, Induction DEF S
<1>10. f \in [Nat -> V]
  <2>1. f = [n \in Nat |-> f[n]]
    BY <1>7
  <2> QED BY <1>9, <2>1
<1> QED BY <1>8, <1>10 DEF f

\* ... and grow.
LEMMA PowerMonotone ==
  ASSUME NEW m \in Nat, NEW n \in Nat, m <= n
  PROVE  PowerOfTwo[m] <= PowerOfTwo[n]
<1> DEFINE S == {k \in Nat : PowerOfTwo[m] <= PowerOfTwo[m + k]}
<1>1. 0 \in S
  <2>1. m + 0 = m /\ PowerOfTwo[m] \in Nat
    BY Doubling
  <2> QED BY <2>1
<1>2. ASSUME NEW k \in Nat, k \in S PROVE k + 1 \in S
  <2>1. m + k \in Nat /\ m + (k + 1) = (m + k) + 1
    OBVIOUS
  <2>2. /\ PowerOfTwo[m + (k + 1)] = 2 * PowerOfTwo[m + k]
        /\ PowerOfTwo[m + k] \in Nat /\ PowerOfTwo[m] \in Nat
    BY <2>1, Doubling
  <2> QED BY <1>2, <2>2
<1>3. Nat \subseteq S
  <2> HIDE DEF S
  <2> QED BY <1>1, <1>2, Induction
<1>4. n - m \in Nat /\ m + (n - m) = n
  OBVIOUS
<1>5. n - m \in S
  BY <1>3, <1>4
<1> QED BY <1>4, <1>5

\* The multiplier of checked_shl, with u32::MAX where the shift fails, gives
\* the same delay as one that never overflows.
LEMMA DelayExact ==
  ASSUME NEW a \in Nat \ {0}
  PROVE  LET exact == InitialDelay * PowerOfTwo[a - 1]
         IN  ReconnectDelay(a) = IF exact < MaxDelay THEN exact ELSE MaxDelay
<1>1. /\ Width \in Nat /\ a - 1 \in Nat
      /\ InitialDelay \in Nat \ {0} /\ MaxDelay \in Nat
      /\ MaxDelay <= InitialDelay * (PowerOfTwo[Width] - 1)
  BY DelayAssumption
<1>2. CASE a - 1 < Width
  BY <1>2 DEF ReconnectDelay, Multiplier
<1>3. CASE ~(a - 1 < Width)
  <2>1. Width <= a - 1
    BY <1>1, <1>3
  <2>2. /\ PowerOfTwo[Width] \in Nat /\ PowerOfTwo[a - 1] \in Nat
    BY <1>1, Doubling
  <2>3. PowerOfTwo[Width] <= PowerOfTwo[a - 1]
    BY <1>1, <2>1, PowerMonotone
  <2> DEFINE u == PowerOfTwo[Width]
             v == PowerOfTwo[a - 1]
  <2>4. u \in Nat /\ v \in Nat /\ u <= v /\ MaxDelay <= InitialDelay * (u - 1)
    BY <1>1, <2>2, <2>3
  <2>5. ReconnectDelay(a) = IF InitialDelay * (u - 1) < MaxDelay
                            THEN InitialDelay * (u - 1) ELSE MaxDelay
    BY <1>3 DEF ReconnectDelay, Multiplier
  <2> SUFFICES ReconnectDelay(a) = IF InitialDelay * v < MaxDelay
                                   THEN InitialDelay * v ELSE MaxDelay
    OBVIOUS
  <2> HIDE DEF u, v
  <2>6. InitialDelay * (u - 1) <= InitialDelay * v
    BY <1>1, <2>4
  <2>7. /\ InitialDelay * v \in Int /\ InitialDelay * (u - 1) \in Int
    BY <1>1, <2>4
  <2> QED BY <1>1, <2>4, <2>5, <2>6, <2>7
<1> QED BY <1>2, <1>3

\* Whatever leads to a wait counts an attempt first.
LEMMA DelayStep ==
  ASSUME TypeOK, DelayInv, [Next]_vars
  PROVE  DelayInv'
<1> USE DEF DelayInv
<1>0. /\ pc \in [Clients -> {"predetach", "connect", "attached", "detach",
                              "sleep", "exited"}]
      /\ attempts \in [Clients -> 0 .. AttemptMax]
  BY DEF TypeOK
<1>1. ASSUME UNCHANGED <<pc, attempts>> PROVE DelayInv'
  BY <1>1
<1>2. ASSUME NEW c \in Clients, UNCHANGED attempts,
             \E p \in {"predetach", "connect", "attached", "exited"} :
               pc' = [pc EXCEPT ![c] = p]
      PROVE  DelayInv'
  BY <1>0, <1>2
<1>3. ASSUME NEW c \in Clients, NEW n \in 0 .. AttemptMax,
             attempts' = [attempts EXCEPT ![c] = SaturatingInc(n)],
             \E p : pc' = [pc EXCEPT ![c] = p]
      PROVE  DelayInv'
  <2>1. SaturatingInc(n) > 0
    BY SaturatingIncType
  <2> QED BY <1>0, <1>3, <2>1
<1>4. CASE UNCHANGED vars
  BY <1>1, <1>4 DEF vars
<1>5. CASE OrphanAttach \/ StaleGone \/ ReaderStep \/ ShellExit
  BY <1>1, <1>5 DEF OrphanAttach, StaleGone, ReaderStep, ReaderWrites,
                    ReaderWritten, ReaderDetaches, ShellExit
<1>6. ASSUME NEW c \in Clients, RemoteStep(c) \/ LinkCut(c) PROVE DelayInv'
  BY <1>1, <1>6 DEF RemoteStep, BrokerAttach, DaemonAttach, DaemonDetach, LinkCut
<1>7. ASSUME NEW c \in Clients, ConnectFails(c) \/ LocalFailure(c)
      PROVE  DelayInv'
  <2>1. attempts[c] \in 0 .. AttemptMax
    BY <1>0
  <2> QED BY <1>2, <1>3, <1>7, <2>1
          DEF ConnectFails, LocalFailure, Backoff, Exit, Goto
<1>8. ASSUME NEW c \in Clients, DetachStale(c) PROVE DelayInv'
  <2>1. pc[c] = "detach" /\ UNCHANGED attempts
    BY <1>8 DEF DetachStale
  <2>2. \E p \in {"sleep", "exited"} : pc' = [pc EXCEPT ![c] = p]
    BY <1>8 DEF DetachStale, Goto
  <2> QED BY <1>0, <2>1, <2>2
<1>9. ASSUME NEW c \in Clients, RecvEof(c) PROVE DelayInv'
  <2>1. AttemptsAfterLoss(c) \in 0 .. AttemptMax
    BY <1>0, DelayAssumption DEF AttemptsAfterLoss
  <2> QED BY <1>2, <1>3, <1>9, <2>1 DEF RecvEof, Exit, Goto
<1>10. ASSUME NEW c \in Clients,
              \/ Connect(c) \/ RecvAttached(c) \/ RecvShouldExit(c)
              \/ RecvExitStatus(c) \/ RecvBusy(c) \/ DetachFirst(c) \/ Wake(c)
       PROVE  DelayInv'
  <2>1. attempts[c] \in 0 .. AttemptMax
    BY <1>0
  <2> QED BY <1>1, <1>2, <1>3, <1>10, <2>1
          DEF Connect, RecvAttached, RecvShouldExit, RecvExitStatus, RecvBusy,
              DetachFirst, Wake, Backoff, Exit, Goto
<1> QED
  BY <1>4, <1>5, <1>6, <1>7, <1>8, <1>9, <1>10
  DEF Next, ClientStep, FaultStep

(***************************************************************************)
(* The delay before a retry is InitialDelay doubled for every failed       *)
(* attempt but the first and cut at MaxDelay, for every number of attempts *)
(* up to where the counter saturates, although reconnect_delay_for_attempt *)
(* computes with a multiplier that is Width bits wide.                     *)
(***************************************************************************)
THEOREM DelayCorrect == Spec => []DelayIsCappedDoubling
<1>1. Init => DelayInv
  BY DEF Init, DelayInv
<1>2. TypeOK /\ DelayInv /\ [Next]_vars => DelayInv'
  BY DelayStep
<1>3. TypeOK /\ DelayInv => DelayIsCappedDoubling
  <2> SUFFICES ASSUME TypeOK, DelayInv, NEW c \in Clients, pc[c] = "sleep"
               PROVE  LET exact == InitialDelay * PowerOfTwo[attempts[c] - 1]
                      IN  ReconnectDelay(attempts[c]) =
                            IF exact < MaxDelay THEN exact ELSE MaxDelay
    BY DEF DelayIsCappedDoubling
  <2>1. attempts[c] \in 0 .. AttemptMax /\ attempts[c] > 0
    BY DEF TypeOK, DelayInv
  <2>2. attempts[c] \in Nat \ {0}
    BY <2>1, DelayAssumption
  <2> QED BY <2>2, DelayExact
<1> QED BY <1>1, <1>2, <1>3, TypeCorrect, PTL DEF Spec

=============================================================================
