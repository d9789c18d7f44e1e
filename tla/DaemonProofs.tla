---------------------------- MODULE DaemonProofs ----------------------------
(***************************************************************************)
(* Machine-checked facts about Daemon, for every value of its constants.   *)
(***************************************************************************)
EXTENDS Daemon, TLAPS, FiniteSetTheorems, SequenceTheorems

-----------------------------------------------------------------------------
(* Lemmas about the operators Daemon is built from                         *)

\* The attach counter has at least one value, so the modulus is well defined.
LEMMA TokenModPositive == TokenMod \in Nat \ {0}
BY ConnsAssumption, TokenAssumption, FS_CardinalityType

\* DaemonState::next_attach_token stays within the counter's width.
LEMMA NextTokenType ==
  ASSUME attachToken \in Nat PROVE NextAttachToken \in 0 .. TokenMod - 1
BY TokenModPositive DEF NextAttachToken

\* ReplayBuffer::append returns a sequence of bytes.
LEMMA ReplayAppendType ==
  ASSUME NEW bytes \in Seq(Nat), NEW chunk \in Seq(Nat)
  PROVE  ReplayAppend(Capacity, bytes, chunk) \in Seq(Nat)
BY CapacityAssumption DEF ReplayAppend, SaturatingSub

\* What one read of the PTY master returns: n consecutive output bytes.
LEMMA ChunkType ==
  ASSUME nread \in Nat, NEW n \in Nat
  PROVE  /\ [i \in 1 .. n |-> nread + i] \in Seq(Nat)
         /\ Len([i \in 1 .. n |-> nread + i]) = n
OBVIOUS

\* Writing a frame without payload keeps the types of sockets and history.
LEMMA WriteTypes ==
  ASSUME SocketTypes, PtyTypes, NEW c \in Conns, NEW k \in ReplyKinds,
         Write(c, k)
  PROVE  sent' \in [Conns -> Seq(ReplyKinds)] /\ view' \in [Conns -> Seq(Nat)]
<1>1. Append(sent[c], k) \in Seq(ReplyKinds)
  BY DEF SocketTypes
<1> QED BY <1>1 DEF SocketTypes, PtyTypes, Write

\* write_broker_pty_data keeps the types of sockets and history.
LEMMA WriteDataTypes ==
  ASSUME SocketTypes, PtyTypes, NEW c \in Conns, NEW b \in Seq(Nat),
         WriteData(c, b)
  PROVE  sent' \in [Conns -> Seq(ReplyKinds)] /\ view' \in [Conns -> Seq(Nat)]
<1>1. Append(sent[c], "PTY_DATA") \in Seq(ReplyKinds)
  BY DEF SocketTypes, ReplyKinds
<1>2. view[c] \o b \in Seq(Nat)
  BY DEF PtyTypes
<1>3. sent' \in [Conns -> Seq(ReplyKinds)]
  BY <1>1 DEF SocketTypes, WriteData
<1>4. view' \in [Conns -> Seq(Nat)]
  BY <1>2 DEF PtyTypes, WriteData
<1> QED BY <1>3, <1>4

\* Reading a frame keeps the frame count within its bound.
LEMMA ReadType ==
  ASSUME SocketTypes, NEW c \in Conns, NEW f, Read(c, f)
  PROVE  nframes' \in [Conns -> 0 .. MaxFrames]
<1>1. nframes[c] + 1 \in 0 .. MaxFrames
  BY BoundsAssumption DEF SocketTypes, Read
<1> QED BY <1>1 DEF SocketTypes, Read

-----------------------------------------------------------------------------
(* Type correctness, part by part                                          *)

USE DEF stateVars, regVars, connVars, locals, socketVars, outVars, ptyVars,
        histVars, NoOr

\* Every step keeps the types of DaemonState's fields.
LEMMA StateTypesStep == TypeOK /\ Next => StateTypes'
<1> SUFFICES ASSUME TypeOK, Next PROVE StateTypes'
  OBVIOUS
<1> USE ConnsAssumption, TokenModPositive DEF TypeOK, StateTypes
<1>1. CASE MainStep \/ AcceptError
  BY <1>1 DEF MainStep, CheckShutdown, AcceptNone, MainExit, AcceptConn,
              AcceptError, MainUnchanged
<1>2. CASE ShellStep
  BY <1>2 DEF ShellStep, ShellOutput, ShellInput, ShellExit, ShellVarsOnly
<1>3. CASE WaiterStep
  BY <1>3 DEF WaiterStep, WaiterReap, WaiterWrite, WaiterUnlink,
              WaiterUnchanged, RequestShutdown
<1>4. ASSUME NEW n \in 1 .. MaxRead, ReaderRead(n) PROVE StateTypes'
  <2>1. replay' \in Seq(Nat)
    BY <1>4, ChunkType, ReplayAppendType, SMTT(30) DEF PtyTypes, ReaderRead
  <2> QED BY <1>4, <2>1 DEF ReaderRead, ReaderUnchanged
<1>5. CASE ReaderWrite
  BY <1>5 DEF ReaderWrite, ReaderUnchanged
<1>6. CASE ReaderDetach
  BY <1>6 DEF ReaderDetach, ReaderUnchanged, DetachCurrent, NoBroker
<1>7. CASE ReaderEnd
  BY <1>7 DEF ReaderEnd, ReaderUnchanged
<1>8. ASSUME NEW c \in Conns, PeerStep(c) PROVE StateTypes'
  BY <1>8 DEF PeerStep, PeerConnect, PeerShutdown, PeerClose, PeerRead
<1>9. ASSUME NEW c \in Conns, FrameStep(c) PROVE StateTypes'
  <2>1. CASE HandleDetach(c)
    BY <2>1 DEF HandleDetach, HandlerUnchanged, DetachCurrent, NoBroker
  <2>2. CASE HandleInitialWindowSize(c)
    BY <2>2 DEF HandleInitialWindowSize, HandlerUnchanged
  <2>3. CASE HandleInfo(c)
    BY <2>3 DEF HandleInfo, HandlerUnchanged
  <2>4. CASE Quiet
    BY <2>4 DEF Quiet, HandlerUnchanged
  <2> QED
    BY <1>9, <2>1, <2>2, <2>3, <2>4
    DEF FrameStep, HandleCapabilities, HandleAttach, HandleUnknown,
        HandleOther, AttachedData, AttachedWindowSize, AttachedDetach
<1>10. ASSUME NEW c \in Conns, ThreadStep(c) PROVE StateTypes'
  <2>1. CASE AttachRegister(c)
    BY <2>1, NextTokenType DEF AttachRegister
  <2>2. CASE AttachBusy(c)
    BY <2>2 DEF AttachBusy, HandlerUnchanged
  <2>3. CASE ResizeInitial(c) \/ Finish(c)
    <3>1. broker' \in {broker, NoBroker}
      BY <2>3 DEF ResizeInitial, Finish, DetachIfMine, DetachCurrent
    <3>2. everDetached' \in BOOLEAN
      BY <2>3 DEF ResizeInitial, Finish, DetachIfMine, DetachCurrent
    <3>3. UNCHANGED <<attachToken, replay, shutdown, lockHolder>>
      BY <2>3 DEF ResizeInitial, Finish, HandlerUnchanged
    <3> QED BY <3>1, <3>2, <3>3 DEF NoBroker
  <2>4. CASE WriteInfo(c) \/ WriteShouldExit(c) \/ WriteReplay(c)
    BY <2>4 DEF WriteInfo, WriteShouldExit, WriteReplay, ReplayCopy, HandlerUnchanged
  <2>5. CASE WriteInput(c)
    BY <2>5 DEF WriteInput
  <2>6. CASE RequestEnd(c) \/ AttachedEnd(c)
    BY <2>6 DEF RequestEnd, AttachedEnd, Quiet, HandlerUnchanged
  <2> QED BY <1>10, <2>1, <2>2, <2>3, <2>4, <2>5, <2>6 DEF ThreadStep
<1> QED
  BY <1>1, <1>2, <1>3, <1>4, <1>5, <1>6, <1>7, <1>8, <1>9, <1>10
  DEF Next, ReaderStep

\* Every step keeps the threads at one of their program points.
LEMMA ThreadTypesStep == TypeOK /\ Next => ThreadTypes'
<1> SUFFICES ASSUME TypeOK, Next PROVE ThreadTypes'
  OBVIOUS
<1> USE ConnsAssumption DEF TypeOK, ThreadTypes
<1>1. CASE MainStep \/ AcceptError
  BY <1>1 DEF MainStep, CheckShutdown, AcceptNone, MainExit, AcceptConn,
              AcceptError, MainUnchanged, Goto, ThreadStates, Handling
<1>2. CASE ShellStep
  BY <1>2 DEF ShellStep, ShellOutput, ShellInput, ShellExit, ShellVarsOnly
<1>3. CASE WaiterReap
  BY <1>3 DEF WaiterReap, WaiterUnchanged, StateTypes
<1>4. CASE WaiterWrite \/ WaiterUnlink
  BY <1>4 DEF WaiterWrite, WaiterUnlink, WaiterUnchanged
<1>5. ASSUME NEW n \in 1 .. MaxRead, ReaderRead(n) PROVE ThreadTypes'
  <2>1. CASE broker.conn = NoConn
    <3>1. reader' = reader
      BY <1>5, <2>1 DEF ReaderRead, Forward
    <3> QED BY <1>5, <3>1 DEF ReaderRead, ReaderUnchanged
  <2>2. CASE broker.conn # NoConn
    <3>1. broker.conn \in Conns
      BY <2>2 DEF StateTypes
    <3> DEFINE chunk == [i \in 1 .. n |-> nread + i]
    <3>2. chunk \in Seq(Nat)
      BY ChunkType DEF PtyTypes
    <3>3. reader' = [pc |-> "write", to |-> broker.conn, bytes |-> chunk]
      BY <1>5, <2>2 DEF ReaderRead, Forward, ForwardTo
    <3> HIDE DEF chunk
    <3>4. UNCHANGED <<main, waiter, thread, masterOwner>>
      BY <1>5 DEF ReaderRead, ReaderUnchanged
    <3> QED BY <3>1, <3>2, <3>3, <3>4
  <2> QED BY <2>1, <2>2
<1>6. CASE ReaderWrite \/ ReaderDetach \/ ReaderEnd
  <2>1. UNCHANGED <<main, waiter, thread, masterOwner>>
    BY <1>6 DEF ReaderWrite, ReaderDetach, ReaderEnd, ReaderUnchanged
  <2>2. CASE reader' = ReaderAtRead
    BY <2>1, <2>2 DEF ReaderAtRead
  <2>3. CASE reader' = [pc |-> "detach", to |-> reader.to, bytes |-> << >>]
    BY <2>1, <2>3
  <2>4. CASE reader' = [reader EXCEPT !.pc = "done"]
    BY <2>1, <2>4
  <2> QED BY <1>6, <2>2, <2>3, <2>4 DEF ReaderWrite, ReaderDetach, ReaderEnd,
                                        AfterFailedWrite
<1>8. ASSUME NEW c \in Conns, PeerStep(c) PROVE ThreadTypes'
  BY <1>8 DEF PeerStep, PeerConnect, PeerShutdown, PeerClose, PeerRead, Goto,
              ThreadStates
<1>9. ASSUME NEW c \in Conns, FrameStep(c) PROVE ThreadTypes'
  <2>1. UNCHANGED <<main, reader, waiter, masterOwner>>
    BY <1>9
    DEF FrameStep, HandleCapabilities, HandleInitialWindowSize, HandleInfo,
        HandleDetach, HandleAttach, HandleUnknown, HandleOther, AttachedData,
        AttachedWindowSize, AttachedDetach, Quiet, HandlerUnchanged
  <2>2. \E t \in ThreadStates : thread' = [thread EXCEPT ![c] = t]
    BY <1>9
    DEF FrameStep, HandleCapabilities, HandleInitialWindowSize, HandleInfo,
        HandleDetach, HandleAttach, HandleUnknown, HandleOther, AttachedData,
        AttachedWindowSize, AttachedDetach, Goto, ThreadStates, Handling,
        Attaching
  <2> QED BY <2>1, <2>2
<1>10. ASSUME NEW c \in Conns, ThreadStep(c) PROVE ThreadTypes'
  <2>1. UNCHANGED <<main, reader, waiter>> /\ masterOwner' \in NoOr(Conns)
    BY <1>10
    DEF ThreadStep, RequestEnd, WriteInfo, WriteShouldExit, AttachBusy,
        AttachRegister, ResizeInitial, WriteReplay, ReplayCopy, AttachedEnd, WriteInput,
        Finish, ReleaseMaster, Quiet, HandlerUnchanged
  <2>2. \E t \in ThreadStates : thread' = [thread EXCEPT ![c] = t]
    BY <1>10
    DEF ThreadStep, RequestEnd, WriteInfo, WriteShouldExit, AttachBusy,
        AttachRegister, ResizeInitial, WriteReplay, ReplayCopy, AttachedEnd, WriteInput,
        Finish, Goto, ThreadStates, Handling, Attaching
  <2> QED BY <2>1, <2>2
<1> QED
  BY <1>1, <1>2, <1>3, <1>4, <1>5, <1>6, <1>8, <1>9, <1>10
  DEF Next, ReaderStep, WaiterStep

\* Every step keeps the types of the PTY and of the output history.
LEMMA PtyTypesStep == TypeOK /\ Next => PtyTypes'
<1> SUFFICES ASSUME TypeOK, Next PROVE PtyTypes'
  OBVIOUS
<1> USE DEF TypeOK, PtyTypes
<1>1. CASE MainStep \/ AcceptError
  BY <1>1 DEF MainStep, CheckShutdown, AcceptNone, MainExit, AcceptConn,
              AcceptError, MainUnchanged
<1>2. CASE ShellStep
  BY <1>2 DEF ShellStep, ShellOutput, ShellInput, ShellExit, ShellVarsOnly
<1>3. CASE WaiterStep
  <2>1. UNCHANGED <<shell, pending, ptyIn, nread, base>>
    BY <1>3 DEF WaiterStep, WaiterReap, WaiterWrite, WaiterUnlink,
                WaiterUnchanged
  <2>2. UNCHANGED view
    BY <1>3 DEF WaiterStep, WaiterReap, WaiterWrite, WaiterUnlink, Write
  <2> QED BY <2>1, <2>2
<1>4. CASE ReaderStep
  <2>1. pending' \in Nat /\ ptyIn' \in Nat /\ nread' \in Nat
    <3>1. ASSUME NEW n \in 1 .. MaxRead, ReaderRead(n)
          PROVE  pending' \in Nat /\ ptyIn' \in Nat /\ nread' \in Nat
      <4>1. n \in Nat /\ n <= pending /\ pending' = pending - n
        BY <3>1, BoundsAssumption DEF ReaderRead
      <4>2. nread' = nread + n /\ ptyIn' = ptyIn
        BY <3>1 DEF ReaderRead, ReaderUnchanged
      <4> QED BY <4>1, <4>2
    <3> QED
      BY <1>4, <3>1 DEF ReaderStep, ReaderWrite, ReaderDetach, ReaderEnd,
                        ReaderUnchanged
  <2>2. UNCHANGED <<shell, base>>
    BY <1>4 DEF ReaderStep, ReaderRead, ReaderWrite, ReaderDetach, ReaderEnd,
                ReaderUnchanged
  <2>3. view' \in [Conns -> Seq(Nat)]
    <3>1. CASE ReaderWrite /\ WriteData(reader.to, reader.bytes)
      BY <3>1, WriteDataTypes DEF ReaderWrite, ThreadTypes
    <3>2. CASE UNCHANGED view
      BY <3>2
    <3> QED BY <1>4, <3>1, <3>2 DEF ReaderStep, ReaderRead, ReaderWrite,
                                    ReaderDetach, ReaderEnd
  <2> QED BY <2>1, <2>2, <2>3
<1>5. ASSUME NEW c \in Conns, PeerStep(c) PROVE PtyTypes'
  BY <1>5 DEF PeerStep, PeerConnect, PeerShutdown, PeerClose, PeerRead
<1>6. ASSUME NEW c \in Conns, FrameStep(c) PROVE PtyTypes'
  <2>1. UNCHANGED <<shell, pending, ptyIn, nread, base>>
    BY <1>6
    DEF FrameStep, HandleCapabilities, HandleInitialWindowSize, HandleInfo,
        HandleDetach, HandleAttach, HandleUnknown, HandleOther, AttachedData,
        AttachedWindowSize, AttachedDetach, Quiet, HandlerUnchanged
  <2>2. UNCHANGED view
    BY <1>6
    DEF FrameStep, HandleCapabilities, HandleInitialWindowSize, HandleInfo,
        HandleDetach, HandleAttach, HandleUnknown, HandleOther, AttachedData,
        AttachedWindowSize, AttachedDetach, Write
  <2> QED BY <2>1, <2>2
<1>7. ASSUME NEW c \in Conns, ThreadStep(c) PROVE PtyTypes'
  <2>1. UNCHANGED <<shell, pending, nread>> /\ ptyIn' \in Nat
    BY <1>7
    DEF ThreadStep, RequestEnd, WriteInfo, WriteShouldExit, AttachBusy,
        AttachRegister, ResizeInitial, WriteReplay, ReplayCopy, AttachedEnd, WriteInput,
        Finish, Quiet, HandlerUnchanged
  <2>2. base' \in [Conns -> Nat]
    BY <1>7
    DEF ThreadStep, RequestEnd, WriteInfo, WriteShouldExit, AttachBusy,
        AttachRegister, ResizeInitial, WriteReplay, ReplayCopy, AttachedEnd, WriteInput,
        Finish, Quiet, HandlerUnchanged
  <2>3. view' \in [Conns -> Seq(Nat)]
    <3>1. CASE WriteReplay(c) /\ WriteData(c, snapshot[c])
      BY <3>1, WriteDataTypes DEF LocalTypes
    <3>2. CASE UNCHANGED view
      BY <3>2
    <3> QED
      BY <1>7, <3>1, <3>2
      DEF ThreadStep, RequestEnd, WriteInfo, WriteShouldExit, AttachBusy,
          AttachRegister, ResizeInitial, WriteReplay, ReplayCopy, AttachedEnd, WriteInput,
          Finish, Write
  <2> QED BY <2>1, <2>2, <2>3
<1> QED BY <1>1, <1>2, <1>3, <1>4, <1>5, <1>6, <1>7 DEF Next


\* Every step keeps the types of the connection threads' locals; a thread
\* about to write CLIENT_SHOULD_EXIT has a writer to write it to.
LEMMA LocalTypesStep == TypeOK /\ Next => LocalTypes'
<1> SUFFICES ASSUME TypeOK, Next PROVE LocalTypes'
  OBVIOUS
<1> USE ConnsAssumption DEF TypeOK, LocalTypes
<1>1. CASE MainStep \/ AcceptError \/ ShellStep \/ WaiterStep \/ ReaderStep
  <2>1. UNCHANGED connVars
    BY <1>1
    DEF MainStep, CheckShutdown, AcceptNone, MainExit, AcceptConn, AcceptError,
        MainUnchanged, ShellStep, ShellOutput, ShellInput, ShellExit,
        ShellVarsOnly, WaiterStep, WaiterReap, WaiterWrite, WaiterUnlink,
        WaiterUnchanged, ReaderStep, ReaderRead, ReaderWrite, ReaderDetach,
        ReaderEnd, ReaderUnchanged
  <2>2. \A c \in Conns : thread'[c] = "evict" => thread[c] = "evict"
    BY <1>1
    DEF MainStep, CheckShutdown, AcceptNone, MainExit, AcceptConn, AcceptError,
        MainUnchanged, ShellStep, ShellOutput, ShellInput, ShellExit,
        ShellVarsOnly, WaiterStep, WaiterReap, WaiterWrite, WaiterUnlink,
        WaiterUnchanged, ReaderStep, ReaderRead, ReaderWrite, ReaderDetach,
        ReaderEnd, ReaderUnchanged, Goto, ThreadTypes
  <2> QED BY <2>1, <2>2
<1>2. ASSUME NEW c \in Conns, PeerStep(c) PROVE LocalTypes'
  <2>1. UNCHANGED connVars
    BY <1>2 DEF PeerStep, PeerConnect, PeerShutdown, PeerClose, PeerRead
  <2>2. \A d \in Conns : thread'[d] = "evict" => thread[d] = "evict"
    BY <1>2 DEF PeerStep, PeerConnect, PeerShutdown, PeerClose, PeerRead, Goto,
                ThreadTypes
  <2> QED BY <2>1, <2>2
<1>3. ASSUME NEW c \in Conns, FrameStep(c) PROVE LocalTypes'
  <2>1. CASE HandleDetach(c)
    <3>1. UNCHANGED <<token, snapshot, sized>>
      BY <2>1 DEF HandleDetach, HandlerUnchanged
    <3>2. target' = [target EXCEPT ![c] = broker.conn]
      BY <2>1 DEF HandleDetach
    <3>3. thread' = [thread EXCEPT ![c] = IF broker.conn = NoConn
                                          THEN "done" ELSE "evict"]
      BY <2>1 DEF HandleDetach, Goto
    <3>4. target' \in [Conns -> NoOr(Conns)]
      BY <3>2 DEF StateTypes
    <3>5. \A d \in Conns : thread'[d] = "evict" => target'[d] \in Conns
      BY <3>2, <3>3 DEF StateTypes, ThreadTypes
    <3> QED BY <3>1, <3>4, <3>5
  <2>2. CASE HandleInfo(c)
    <3>1. target' \in [Conns -> NoOr(Conns)]
      BY <2>2 DEF HandleInfo, StateTypes
    <3>2. \A d \in Conns : thread'[d] = "evict"
                             => thread[d] = "evict" /\ target'[d] = target[d]
      BY <2>2 DEF HandleInfo, Goto, ThreadTypes
    <3>3. UNCHANGED <<token, snapshot, sized>>
      BY <2>2 DEF HandleInfo, HandlerUnchanged
    <3> QED BY <3>1, <3>2, <3>3
  <2>3. CASE ~HandleDetach(c) /\ ~HandleInfo(c)
    <3>1. UNCHANGED <<token, snapshot, target>> /\ sized' \in [Conns -> BOOLEAN]
      BY <1>3, <2>3
      DEF FrameStep, HandleCapabilities, HandleInitialWindowSize, HandleInfo,
          HandleDetach, HandleAttach, HandleUnknown, HandleOther, AttachedData,
          AttachedWindowSize, AttachedDetach, Quiet, HandlerUnchanged
    <3>2. \A d \in Conns : thread'[d] = "evict" => thread[d] = "evict"
      BY <1>3, <2>3
      DEF FrameStep, HandleCapabilities, HandleInitialWindowSize, HandleInfo,
          HandleDetach, HandleAttach, HandleUnknown, HandleOther, AttachedData,
          AttachedWindowSize, AttachedDetach, Goto, ThreadTypes
    <3> QED BY <3>1, <3>2
  <2> QED BY <2>1, <2>2, <2>3
<1>4. ASSUME NEW c \in Conns, ThreadStep(c) PROVE LocalTypes'
  <2>1. UNCHANGED sized /\ token' \in [Conns -> 0 .. TokenMod - 1]
    <3>1. CASE AttachRegister(c)
      BY <3>1, NextTokenType, TokenModPositive DEF AttachRegister, StateTypes
    <3> QED
      BY <1>4, <3>1
      DEF ThreadStep, RequestEnd, WriteInfo, WriteShouldExit, AttachBusy,
          AttachRegister, ResizeInitial, WriteReplay, ReplayCopy, AttachedEnd, WriteInput,
          Finish, Quiet, HandlerUnchanged
  <2>2. snapshot' \in [Conns -> Seq(Nat)]
    <3>1. CASE AttachRegister(c)
      BY <3>1 DEF AttachRegister, StateTypes
    <3>2. CASE WriteReplay(c)
      <4>1. << >> \in Seq(Nat)
        OBVIOUS
      <4> QED BY <3>2, <4>1 DEF WriteReplay, ReplayCopy
    <3> QED
      BY <1>4, <3>1, <3>2
      DEF ThreadStep, RequestEnd, WriteInfo, WriteShouldExit, AttachBusy,
          AttachRegister, ResizeInitial, WriteReplay, ReplayCopy, AttachedEnd, WriteInput,
          Finish, Quiet
  <2>3. target' \in [Conns -> NoOr(Conns)]
    BY <1>4
    DEF ThreadStep, RequestEnd, WriteInfo, WriteShouldExit, AttachBusy,
        AttachRegister, ResizeInitial, WriteReplay, ReplayCopy, AttachedEnd, WriteInput,
        Finish, Quiet
  <2>4. \A d \in Conns : thread'[d] = "evict" => target'[d] \in Conns
    <3>1. CASE WriteInfo(c) \/ WriteShouldExit(c)
      <4>1. thread' \in {[thread EXCEPT ![c] = "done"],
                         [thread EXCEPT ![c] = "failed"]}
        BY <3>1 DEF WriteInfo, WriteShouldExit, Goto
      <4>2. target' = [target EXCEPT ![c] = NoConn]
        BY <3>1 DEF WriteInfo, WriteShouldExit
      <4> QED BY <4>1, <4>2 DEF ThreadTypes
    <3>2. CASE ~WriteInfo(c) /\ ~WriteShouldExit(c)
      <4>1. UNCHANGED target
        BY <1>4, <3>2
        DEF ThreadStep, RequestEnd, WriteInfo, WriteShouldExit, AttachBusy,
            AttachRegister, ResizeInitial, WriteReplay, ReplayCopy, AttachedEnd,
            WriteInput, Finish, Quiet
      <4>2. \A d \in Conns : thread'[d] = "evict" => thread[d] = "evict"
        BY <1>4, <3>2
        DEF ThreadStep, RequestEnd, WriteInfo, WriteShouldExit, AttachBusy,
            AttachRegister, ResizeInitial, WriteReplay, ReplayCopy, AttachedEnd,
            WriteInput, Finish, Goto, ThreadTypes
      <4> QED BY <4>1, <4>2
    <3> QED BY <3>1, <3>2
  <2> QED BY <2>1, <2>2, <2>3, <2>4
<1> QED BY <1>1, <1>2, <1>3, <1>4 DEF Next

\* Every step keeps the types of the sockets.
LEMMA SocketTypesStep == TypeOK /\ Next => SocketTypes'
<1> SUFFICES ASSUME TypeOK, Next PROVE SocketTypes'
  OBVIOUS
<1> USE DEF TypeOK, SocketTypes
<1>1. CASE MainStep \/ AcceptError \/ ShellStep \/ WaiterStep \/ ReaderStep
  <2>1. UNCHANGED socketVars
    BY <1>1
    DEF MainStep, CheckShutdown, AcceptNone, MainExit, AcceptConn, AcceptError,
        MainUnchanged, ShellStep, ShellOutput, ShellInput, ShellExit,
        ShellVarsOnly, WaiterStep, WaiterReap, WaiterWrite, WaiterUnlink,
        WaiterUnchanged, ReaderStep, ReaderRead, ReaderWrite, ReaderDetach,
        ReaderEnd, ReaderUnchanged
  <2>2. bound' \in BOOLEAN
    BY <1>1
    DEF MainStep, CheckShutdown, AcceptNone, MainExit, AcceptConn, AcceptError,
        MainUnchanged, ShellStep, ShellOutput, ShellInput, ShellExit,
        ShellVarsOnly, WaiterStep, WaiterReap, WaiterWrite, WaiterUnlink,
        WaiterUnchanged, ReaderStep, ReaderRead, ReaderWrite, ReaderDetach,
        ReaderEnd, ReaderUnchanged
  <2>3. sent' \in [Conns -> Seq(ReplyKinds)]
    <3>1. CASE WaiterWrite
      BY <3>1, WriteTypes DEF WaiterWrite, ThreadTypes, ReplyKinds
    <3>2. CASE ReaderWrite
      BY <3>2, WriteDataTypes DEF ReaderWrite, ThreadTypes
    <3> QED
      BY <1>1, <3>1, <3>2
      DEF MainStep, CheckShutdown, AcceptNone, MainExit, AcceptConn,
          AcceptError, MainUnchanged, ShellStep, ShellOutput, ShellInput,
          ShellExit, ShellVarsOnly, WaiterStep, WaiterReap, WaiterWrite,
          WaiterUnlink, WaiterUnchanged, ReaderStep, ReaderRead, ReaderWrite,
          ReaderDetach, ReaderEnd, ReaderUnchanged
  <2> QED BY <2>1, <2>2, <2>3
<1>2. ASSUME NEW c \in Conns, PeerStep(c) PROVE SocketTypes'
  <2>1. UNCHANGED <<bound, nframes, sent>>
    BY <1>2 DEF PeerStep, PeerConnect, PeerShutdown, PeerClose, PeerRead
  <2>2. hangup' \in [Conns -> {"open", "eof", "error"}]
    BY <1>2 DEF PeerStep, PeerConnect, PeerShutdown, PeerClose, PeerRead
  <2>3. peerOpen' \in [Conns -> BOOLEAN]
    BY <1>2 DEF PeerStep, PeerConnect, PeerShutdown, PeerClose, PeerRead
  <2>4. rcvd' \in [Conns -> Nat]
    BY <1>2 DEF PeerStep, PeerConnect, PeerShutdown, PeerClose, PeerRead
  <2> QED BY <2>1, <2>2, <2>3, <2>4
<1>3. ASSUME NEW c \in Conns, FrameStep(c) PROVE SocketTypes'
  <2>1. UNCHANGED <<bound, hangup, peerOpen, rcvd>>
    BY <1>3
    DEF FrameStep, HandleCapabilities, HandleInitialWindowSize, HandleInfo,
        HandleDetach, HandleAttach, HandleUnknown, HandleOther, AttachedData,
        AttachedWindowSize, AttachedDetach, Read, Quiet, HandlerUnchanged
  <2>2. \E f : Read(c, f)
    BY <1>3
    DEF FrameStep, HandleCapabilities, HandleInitialWindowSize, HandleInfo,
        HandleDetach, HandleAttach, HandleUnknown, HandleOther, AttachedData,
        AttachedWindowSize, AttachedDetach
  <2>3. nframes' \in [Conns -> 0 .. MaxFrames]
    BY <2>2, ReadType
  <2>4. sent' \in [Conns -> Seq(ReplyKinds)]
    <3>1. UNCHANGED sent \/ \E k \in ReplyKinds : Write(c, k)
      BY <1>3
      DEF FrameStep, HandleCapabilities, HandleInitialWindowSize, HandleInfo,
          HandleDetach, HandleAttach, HandleUnknown, HandleOther, AttachedData,
          AttachedWindowSize, AttachedDetach, ReplyKinds
    <3> QED BY <3>1, WriteTypes
  <2> QED BY <2>1, <2>3, <2>4
<1>4. ASSUME NEW c \in Conns, ThreadStep(c) PROVE SocketTypes'
  <2>1. UNCHANGED <<bound, socketVars>>
    BY <1>4
    DEF ThreadStep, RequestEnd, WriteInfo, WriteShouldExit, AttachBusy,
        AttachRegister, ResizeInitial, WriteReplay, ReplayCopy, AttachedEnd, WriteInput,
        Finish, Quiet, HandlerUnchanged
  <2>2. sent' \in [Conns -> Seq(ReplyKinds)]
    <3>1. CASE WriteShouldExit(c)
      BY <3>1, WriteTypes DEF WriteShouldExit, ThreadTypes, LocalTypes,
                              ReplyKinds
    <3>2. CASE WriteReplay(c)
      BY <3>2, WriteDataTypes DEF WriteReplay, ReplayCopy, LocalTypes
    <3>3. CASE AttachBusy(c)
      BY <3>3, WriteTypes DEF AttachBusy, ReplyKinds
    <3>4. CASE WriteInfo(c)
      BY <3>4, WriteTypes DEF WriteInfo, ReplyKinds
    <3> QED
      BY <1>4, <3>1, <3>2, <3>3, <3>4
      DEF ThreadStep, RequestEnd, WriteInfo, WriteShouldExit, AttachBusy,
          AttachRegister, ResizeInitial, WriteReplay, ReplayCopy, AttachedEnd, WriteInput,
          Finish
  <2> QED BY <2>1, <2>2
<1> QED BY <1>1, <1>2, <1>3, <1>4 DEF Next

(***************************************************************************)
(* Type correctness: every variable of the daemon keeps its type, and a    *)
(* thread about to write to a cloned or taken broker writer has one (the   *)
(* Option the code unwraps with if-let is Some).                           *)
(***************************************************************************)
THEOREM TypeCorrect == Spec => []TypeOK
<1>1. Init => TypeOK
  <2> SUFFICES ASSUME Init PROVE TypeOK
    OBVIOUS
  <2> USE TokenModPositive, BoundsAssumption DEF Init
  <2>1. broker \in [token : 0 .. TokenMod - 1, conn : NoOr(Conns)]
    BY DEF NoBroker
  <2>2. attachToken \in 0 .. TokenMod - 1 /\ replay \in Seq(Nat)
    BY DEF EmptyReplay
  <2>3. everDetached \in BOOLEAN /\ shutdown \in BOOLEAN
    OBVIOUS
  <2>4. StateTypes
    BY <2>1, <2>2, <2>3 DEF StateTypes
  <2>5. ThreadTypes
    BY DEF ThreadTypes, ReaderAtRead, ThreadStates
  <2>6. LocalTypes
    BY DEF LocalTypes
  <2>7. SocketTypes /\ PtyTypes
    BY DEF SocketTypes, PtyTypes
  <2> QED BY <2>4, <2>5, <2>6, <2>7 DEF TypeOK
<1>2. TypeOK /\ [Next]_vars => TypeOK'
  <2>1. TypeOK /\ Next => TypeOK'
    BY StateTypesStep, ThreadTypesStep, LocalTypesStep, SocketTypesStep,
       PtyTypesStep DEF TypeOK
  <2>2. TypeOK /\ UNCHANGED vars => TypeOK'
    <3> SUFFICES ASSUME TypeOK, UNCHANGED vars PROVE TypeOK'
      OBVIOUS
    <3>1. StateTypes'
      BY DEF TypeOK, vars, StateTypes
    <3>2. ThreadTypes'
      BY DEF TypeOK, vars, ThreadTypes
    <3>3. LocalTypes'
      BY DEF TypeOK, vars, LocalTypes
    <3>4. SocketTypes'
      BY DEF TypeOK, vars, SocketTypes
    <3>5. PtyTypes'
      BY DEF TypeOK, vars, PtyTypes
    <3> QED BY <3>1, <3>2, <3>3, <3>4, <3>5 DEF TypeOK
  <2> QED BY <2>1, <2>2
<1> QED BY <1>1, <1>2, PTL DEF Spec

-----------------------------------------------------------------------------
(* The replay ring                                                         *)

\* The last cap bytes of a stream of n bytes, each named by its position.
IsWindow(s, cap, n) ==
  /\ Len(s) = IF n < cap THEN n ELSE cap
  /\ \A i \in 1 .. Len(s) : s[i] = n - Len(s) + i

\* ReplayBuffer::append on consecutive bytes keeps the window, in the branch
\* that replaces the ring as in the one that drains it.
LEMMA ReplayAppendWindow ==
  ASSUME NEW cap \in Nat \ {0}, NEW n \in Nat, NEW k \in Nat,
         NEW s \in Seq(Nat), IsWindow(s, cap, n),
         NEW chunk \in Seq(Nat), Len(chunk) = k,
         \A i \in 1 .. k : chunk[i] = n + i
  PROVE  IsWindow(ReplayAppend(cap, s, chunk), cap, n + k)
<1> DEFINE r == ReplayAppend(cap, s, chunk)
<1>1. CASE k >= cap
  <2>1. r = SubSeq(chunk, k - cap + 1, k)
    BY <1>1 DEF ReplayAppend
  <2>2. Len(r) = cap /\ \A i \in 1 .. cap : r[i] = chunk[k - cap + i]
    BY <1>1, <2>1
  <2>3. \A i \in 1 .. cap : r[i] = n + k - cap + i
    BY <1>1, <2>2
  <2> QED BY <1>1, <2>2, <2>3 DEF IsWindow
<1>2. CASE k < cap
  <2> DEFINE m == Len(s)
             o == SaturatingSub(m + k, cap)
             t == SubSeq(s, o + 1, m)
             q == m - o
  <2>1. r = t \o chunk
    <3>1. ~(Len(chunk) >= cap)
      BY <1>2
    <3> QED BY <3>1, Zenon DEF ReplayAppend
  <2>2. m \in Nat /\ m = IF n < cap THEN n ELSE cap
    BY DEF IsWindow
  <2>3. t \in Seq(Nat) /\ Len(t) = q /\ q \in Nat /\ o \in Nat
        /\ \A i \in 1 .. q : t[i] = s[o + i]
    <3> HIDE DEF m
    <3>1. o \in Nat /\ o <= m
      BY <1>2, <2>2 DEF SaturatingSub
    <3> HIDE DEF o
    <3>2. SubSeq(s, o + 1, m) \in Seq(Nat)
      BY <2>2, <3>1 DEF m
    <3>3. Len(SubSeq(s, o + 1, m)) = m - o
      BY <2>2, <3>1 DEF m
    <3>4. \A i \in 1 .. m - o : SubSeq(s, o + 1, m)[i] = s[o + i]
      BY <2>2, <3>1 DEF m
    <3>5. q \in Nat
      BY <2>2, <3>1
    <3> QED BY <3>1, <3>2, <3>3, <3>4, <3>5
  <2>4. \A i \in 1 .. m : s[i] = n - m + i
    BY DEF IsWindow
  <2>5. q + k = IF n + k < cap THEN n + k ELSE cap
    <3> HIDE DEF m
    <3> QED BY <1>2, <2>2 DEF SaturatingSub
  <2>6. \A i \in 1 .. q : t[i] = n - q + i
    <3> HIDE DEF m, o, t
    <3> TAKE i \in 1 .. q
    <3>1. o + i \in 1 .. m
      BY <2>2, <2>3
    <3>2. t[i] = n - m + (o + i)
      BY <2>3, <2>4, <3>1
    <3> QED BY <2>2, <2>3, <3>2
  <2> HIDE DEF m, o, t, q, r
  <2>7. /\ Len(r) = q + k
        /\ \A i \in 1 .. q + k : r[i] = IF i <= q THEN t[i] ELSE chunk[i - q]
    <3>1. /\ Len(t \o chunk) = Len(t) + Len(chunk)
          /\ \A i \in 1 .. Len(t) + Len(chunk) :
               (t \o chunk)[i] = IF i <= Len(t) THEN t[i]
                                                ELSE chunk[i - Len(t)]
      BY <2>3, ConcatProperties
    <3> QED BY <2>1, <2>3, <3>1
  <2>9. \A i \in 1 .. q + k : r[i] = n + k - (q + k) + i
    <3> TAKE i \in 1 .. q + k
    <3>1. CASE i <= q
      BY <2>3, <2>6, <2>7, <3>1
    <3>2. CASE i > q
      <4>1. i - q \in 1 .. k
        BY <2>3, <3>2
      <4>2. r[i] = n + (i - q)
        BY <2>3, <2>7, <3>2, <4>1
      <4> QED BY <2>3, <4>2
    <3> QED BY <2>3, <3>1, <3>2
  <2>10. IsWindow(r, cap, n + k)
    BY <2>5, <2>7, <2>9 DEF IsWindow
  <2> QED BY <2>10 DEF r
<1> QED BY <1>1, <1>2

\* Only spawn_pty_reader's read appends to the ring or consumes output.
LEMMA OnlyReaderReads ==
  TypeOK /\ Next /\ ~(\E n \in 1 .. MaxRead : ReaderRead(n))
    => UNCHANGED <<replay, nread>>
<1> SUFFICES ASSUME TypeOK, Next, ~(\E n \in 1 .. MaxRead : ReaderRead(n))
             PROVE  UNCHANGED <<replay, nread>>
  OBVIOUS
<1>1. CASE MainStep \/ AcceptError \/ ShellStep \/ WaiterStep
  BY <1>1
  DEF MainStep, CheckShutdown, AcceptNone, MainExit, AcceptConn, AcceptError,
      MainUnchanged, ShellStep, ShellOutput, ShellInput, ShellExit,
      ShellVarsOnly, WaiterStep, WaiterReap, WaiterWrite, WaiterUnlink,
      WaiterUnchanged
<1>2. CASE ReaderStep
  BY <1>2 DEF ReaderStep, ReaderWrite, ReaderDetach, ReaderEnd, ReaderUnchanged
<1>3. ASSUME NEW c \in Conns, PeerStep(c) PROVE UNCHANGED <<replay, nread>>
  BY <1>3 DEF PeerStep, PeerConnect, PeerShutdown, PeerClose, PeerRead
<1>4. ASSUME NEW c \in Conns, FrameStep(c) PROVE UNCHANGED <<replay, nread>>
  BY <1>4
  DEF FrameStep, HandleCapabilities, HandleInitialWindowSize, HandleInfo,
      HandleDetach, HandleAttach, HandleUnknown, HandleOther, AttachedData,
      AttachedWindowSize, AttachedDetach, Quiet, HandlerUnchanged
<1>5. ASSUME NEW c \in Conns, ThreadStep(c) PROVE UNCHANGED <<replay, nread>>
  BY <1>5
  DEF ThreadStep, RequestEnd, WriteInfo, WriteShouldExit, AttachBusy,
      AttachRegister, ResizeInitial, WriteReplay, ReplayCopy, AttachedEnd, WriteInput,
      Finish, Quiet, HandlerUnchanged
<1> QED BY <1>1, <1>2, <1>3, <1>4, <1>5 DEF Next

(***************************************************************************)
(* The replay ring holds the last Capacity bytes read from the PTY, for    *)
(* every capacity, every read size and whatever brokers come and go.       *)
(***************************************************************************)
THEOREM ReplayCorrect == Spec => []ReplayIsRecentOutput
<1>1. Init => ReplayIsRecentOutput
  BY CapacityAssumption DEF Init, ReplayIsRecentOutput, EmptyReplay
<1>2. TypeOK /\ ReplayIsRecentOutput /\ [Next]_vars => ReplayIsRecentOutput'
  <2> SUFFICES ASSUME TypeOK, ReplayIsRecentOutput, [Next]_vars
               PROVE  ReplayIsRecentOutput'
    OBVIOUS
  <2>1. ASSUME NEW n \in 1 .. MaxRead, ReaderRead(n)
        PROVE  ReplayIsRecentOutput'
    <3> DEFINE chunk == [i \in 1 .. n |-> nread + i]
    <3>1. n \in Nat /\ nread \in Nat /\ replay \in Seq(Nat)
      BY BoundsAssumption DEF TypeOK, StateTypes, PtyTypes
    <3>2. chunk \in Seq(Nat) /\ Len(chunk) = n
      BY <3>1, ChunkType
    <3>3. \A i \in 1 .. n : chunk[i] = nread + i
      OBVIOUS
    <3>4. replay' = ReplayAppend(Capacity, replay, chunk) /\ nread' = nread + n
      BY <2>1 DEF ReaderRead
    <3> HIDE DEF chunk
    <3>5. IsWindow(replay, Capacity, nread)
      BY DEF ReplayIsRecentOutput, IsWindow
    <3>6. IsWindow(replay', Capacity, nread')
      BY <3>1, <3>2, <3>3, <3>4, <3>5, CapacityAssumption, ReplayAppendWindow
    <3> QED BY <3>6 DEF ReplayIsRecentOutput, IsWindow
  <2>2. CASE UNCHANGED <<replay, nread>>
    BY <2>2 DEF ReplayIsRecentOutput
  <2> QED BY <2>1, <2>2, OnlyReaderReads DEF vars
<1> QED BY <1>1, <1>2, TypeCorrect, PTL DEF Spec

-----------------------------------------------------------------------------
(* Tokens and the registration                                             *)

\* The connections that were ever attached.
Attached == {c \in Conns : token[c] # 0}

\* TokensDistinct and RegistrationIsServed are not inductive: a fresh token is
\* fresh only because the counter counts the attachments so far, of which
\* there are fewer than TokenMod, and a connection attaches once.
TokenInv ==
  /\ attachToken = Cardinality(Attached)
  /\ \A c \in Conns : token[c] <= attachToken
  /\ \A c \in Conns :
       thread[c] \in {"unconnected", "backlog"} \cup Handling => token[c] = 0
  /\ TokensDistinct
  /\ RegistrationIsServed

\* The token a registering thread draws is nobody else's.
LEMMA FreshToken ==
  ASSUME TypeOK, TokenInv, NEW c \in Conns, thread[c] = "attach"
  PROVE  /\ NextAttachToken = attachToken + 1
         /\ Cardinality(Attached \cup {c}) = attachToken + 1
<1>1. c \notin Attached /\ Attached \subseteq Conns
  BY DEF TokenInv, Handling, Attached
<1>2. IsFiniteSet(Attached)
  BY <1>1, ConnsAssumption, FS_Subset
<1>3. Cardinality(Attached \cup {c}) = Cardinality(Attached) + 1
  BY <1>1, <1>2, FS_AddElement
<1>4. Cardinality(Attached \cup {c}) <= Cardinality(Conns)
  BY <1>1, ConnsAssumption, FS_Subset
<1>5. Cardinality(Conns) \in Nat /\ Cardinality(Attached) \in Nat
  BY <1>2, ConnsAssumption, FS_CardinalityType
<1>6. attachToken + 1 < TokenMod
  BY <1>3, <1>4, <1>5, TokenAssumption DEF TokenInv
<1>7. (attachToken + 1) % TokenMod = attachToken + 1
  BY <1>5, <1>6, TokenModPositive DEF TokenInv
<1> QED BY <1>3, <1>7 DEF TokenInv, NextAttachToken

\* With TokenInv the token check identifies the thread's own registration.
LEMMA MineIsOwn ==
  ASSUME TypeOK, TokenInv, NEW c \in Conns, Mine(c)
  PROVE  broker.conn = c
BY DEF TypeOK, StateTypes, TokenInv, TokensDistinct, RegistrationIsServed, Mine

\* What the steps other than AttachRegister do to a registration.
LEMMA RegistrationStep ==
  ASSUME TypeOK, TokenInv, Next, ~(\E c \in Conns : AttachRegister(c))
  PROVE  /\ UNCHANGED <<attachToken, token>>
         /\ \A c \in Conns :
              thread'[c] \in {"unconnected", "backlog"} \cup Handling
                => thread[c] \in {"unconnected", "backlog"} \cup Handling
         /\ broker' \in {broker, NoBroker}
         /\ \A c \in Conns : broker'.conn = c /\ thread[c] \in Attaching
              => thread'[c] \in Attaching \cup {"failed"}
         /\ \A c \in Conns : thread[c] = "failed" => thread'[c] = "failed"
<1> DEFINE Goal ==
         /\ UNCHANGED <<attachToken, token>>
         /\ \A c \in Conns :
              thread'[c] \in {"unconnected", "backlog"} \cup Handling
                => thread[c] \in {"unconnected", "backlog"} \cup Handling
         /\ broker' \in {broker, NoBroker}
         /\ \A c \in Conns : broker'.conn = c /\ thread[c] \in Attaching
              => thread'[c] \in Attaching \cup {"failed"}
         /\ \A c \in Conns : thread[c] = "failed" => thread'[c] = "failed"
<1> SUFFICES Goal
  OBVIOUS
<1> USE DEF TypeOK, ThreadTypes
<1>1. CASE MainStep \/ AcceptError \/ ShellStep \/ WaiterStep
  <2>1. UNCHANGED <<attachToken, token, broker>>
    BY <1>1
    DEF MainStep, CheckShutdown, AcceptNone, MainExit, AcceptConn, AcceptError,
        MainUnchanged, ShellStep, ShellOutput, ShellInput, ShellExit,
        ShellVarsOnly, WaiterStep, WaiterReap, WaiterWrite, WaiterUnlink,
        WaiterUnchanged
  <2>2. \/ UNCHANGED thread
        \/ \E c \in Conns : /\ thread[c] = "backlog"
                            /\ thread' = [thread EXCEPT ![c] = "request"]
    BY <1>1
    DEF MainStep, CheckShutdown, AcceptNone, MainExit, AcceptConn, AcceptError,
        MainUnchanged, ShellStep, ShellOutput, ShellInput, ShellExit,
        ShellVarsOnly, WaiterStep, WaiterReap, WaiterWrite, WaiterUnlink,
        WaiterUnchanged, Goto
  <2> QED BY <2>1, <2>2 DEF Handling, Attaching
<1>2. CASE ReaderStep
  <2>1. UNCHANGED <<attachToken, token, thread>>
    BY <1>2 DEF ReaderStep, ReaderRead, ReaderWrite, ReaderDetach, ReaderEnd,
                ReaderUnchanged
  <2>2. broker' \in {broker, NoBroker}
    BY <1>2 DEF ReaderStep, ReaderRead, ReaderWrite, ReaderDetach, ReaderEnd,
                DetachCurrent
  <2> QED BY <2>1, <2>2
<1>3. ASSUME NEW c \in Conns, PeerStep(c) PROVE Goal
  <2>1. UNCHANGED <<attachToken, token, broker>>
    BY <1>3 DEF PeerStep, PeerConnect, PeerShutdown, PeerClose, PeerRead
  <2>2. \/ UNCHANGED thread
        \/ thread[c] = "unconnected" /\ thread' = [thread EXCEPT ![c] = "backlog"]
    BY <1>3 DEF PeerStep, PeerConnect, PeerShutdown, PeerClose, PeerRead, Goto
  <2> QED BY <2>1, <2>2 DEF Handling, Attaching
<1>4. ASSUME NEW c \in Conns, FrameStep(c) PROVE Goal
  <2>1. UNCHANGED <<attachToken, token>>
    BY <1>4
    DEF FrameStep, HandleCapabilities, HandleInitialWindowSize, HandleInfo,
        HandleDetach, HandleAttach, HandleUnknown, HandleOther, AttachedData,
        AttachedWindowSize, AttachedDetach, Quiet, HandlerUnchanged
  <2>2. broker' \in {broker, NoBroker}
    BY <1>4
    DEF FrameStep, HandleCapabilities, HandleInitialWindowSize, HandleInfo,
        HandleDetach, HandleAttach, HandleUnknown, HandleOther, AttachedData,
        AttachedWindowSize, AttachedDetach, Quiet, DetachCurrent
  <2>3. \/ /\ thread[c] = "request"
           /\ \E t \in Handling \cup {"done", "failed"} :
                thread' = [thread EXCEPT ![c] = t]
        \/ /\ thread[c] = "attached"
           /\ \E t \in Attaching \cup {"failed"} :
                thread' = [thread EXCEPT ![c] = t]
    BY <1>4
    DEF FrameStep, HandleCapabilities, HandleInitialWindowSize, HandleInfo,
        HandleDetach, HandleAttach, HandleUnknown, HandleOther, AttachedData,
        AttachedWindowSize, AttachedDetach, Goto, Handling, Attaching
  <2> QED BY <2>1, <2>2, <2>3 DEF Handling, Attaching
<1>5. ASSUME NEW c \in Conns, ThreadStep(c) PROVE Goal
  <2>1. UNCHANGED <<attachToken, token>>
    BY <1>5
    DEF ThreadStep, RequestEnd, WriteInfo, WriteShouldExit, AttachBusy,
        ResizeInitial, WriteReplay, ReplayCopy, AttachedEnd, WriteInput, Finish, Quiet,
        HandlerUnchanged
  <2>2. broker' \in {broker, NoBroker}
    BY <1>5
    DEF ThreadStep, RequestEnd, WriteInfo, WriteShouldExit, AttachBusy,
        ResizeInitial, WriteReplay, ReplayCopy, AttachedEnd, WriteInput, Finish, Quiet,
        DetachIfMine, DetachCurrent
  <2>3. CASE Finish(c)
    <3>1. thread[c] = "finish" /\ thread' = [thread EXCEPT ![c] = "done"]
      BY <2>3 DEF Finish, Goto
    <3>2. broker'.conn # c
      <4>1. CASE Mine(c)
        BY <2>3, <4>1, ConnsAssumption
        DEF Finish, DetachIfMine, DetachCurrent, NoBroker
      <4>2. CASE ~Mine(c)
        <5>1. broker' = broker
          BY <2>3, <4>2 DEF Finish, DetachIfMine
        <5> QED BY <4>2, <5>1, ConnsAssumption
                DEF Mine, TokenInv, RegistrationIsServed
      <4> QED BY <4>1, <4>2
    <3> QED BY <2>1, <2>2, <3>1, <3>2 DEF Handling, Attaching
  <2>4. CASE ~Finish(c)
    <3>1. \/ UNCHANGED thread
          \/ /\ thread[c] \in Handling
             /\ \E t \in {"done", "failed"} : thread' = [thread EXCEPT ![c] = t]
          \/ /\ thread[c] \in Attaching
             /\ \E t \in Attaching \cup {"failed"} :
                  thread' = [thread EXCEPT ![c] = t]
      BY <1>5, <2>4
      DEF ThreadStep, RequestEnd, WriteInfo, WriteShouldExit, AttachBusy,
          ResizeInitial, WriteReplay, ReplayCopy, AttachedEnd, WriteInput, Finish, Goto,
          Handling, Attaching
    <3> QED BY <2>1, <2>2, <3>1 DEF Handling, Attaching
  <2> QED BY <2>3, <2>4
<1> QED BY <1>1, <1>2, <1>3, <1>4, <1>5 DEF Next

\* TokenInv is inductive: every step of every thread keeps it.
LEMMA TokenInvStep == TypeOK /\ TokenInv /\ [Next]_vars => TokenInv'
<1> SUFFICES ASSUME TypeOK, TokenInv, [Next]_vars PROVE TokenInv'
  OBVIOUS
<1>1. ASSUME NEW c \in Conns, AttachRegister(c) PROVE TokenInv'
  <2>1. thread[c] = "attach" /\ token[c] = 0
    BY <1>1 DEF AttachRegister, TokenInv, Handling
  <2>2. /\ NextAttachToken = attachToken + 1
        /\ Cardinality(Attached \cup {c}) = attachToken + 1
    BY <2>1, FreshToken
  <2>3. /\ attachToken' = attachToken + 1
        /\ token' = [token EXCEPT ![c] = attachToken + 1]
        /\ broker' = [token |-> attachToken + 1, conn |-> c]
    BY <1>1, <2>2 DEF AttachRegister
  <2>4. \E t \in {"resize", "replay"} : thread' = [thread EXCEPT ![c] = t]
    BY <1>1 DEF AttachRegister, Goto
  <2>5. attachToken \in Nat /\ token \in [Conns -> Nat]
    BY TokenModPositive DEF TypeOK, StateTypes, LocalTypes
  <2>6. Attached' = Attached \cup {c}
    BY <2>3, <2>5 DEF Attached
  <2>7. \A d \in Conns : token'[d] <= attachToken'
    BY <2>3, <2>5 DEF TokenInv
  <2>8. TokensDistinct'
    BY <2>3, <2>5 DEF TokenInv, TokensDistinct
  <2>9. RegistrationIsServed'
    BY <2>3, <2>4, <2>5
    DEF RegistrationIsServed, Attaching, TypeOK, ThreadTypes, LocalTypes
  <2>10. \A d \in Conns :
           thread'[d] \in {"unconnected", "backlog"} \cup Handling
             => token'[d] = 0
    BY <2>3, <2>4 DEF TokenInv, Handling, TypeOK, ThreadTypes, LocalTypes
  <2>11. attachToken' = Cardinality(Attached')
    BY <2>2, <2>3, <2>6
  <2> QED BY <2>7, <2>8, <2>9, <2>10, <2>11 DEF TokenInv
<1>2. CASE Next /\ ~(\E c \in Conns : AttachRegister(c))
  <2>1. /\ UNCHANGED <<attachToken, token>>
        /\ \A c \in Conns :
             thread'[c] \in {"unconnected", "backlog"} \cup Handling
               => thread[c] \in {"unconnected", "backlog"} \cup Handling
        /\ broker' \in {broker, NoBroker}
        /\ \A c \in Conns : broker'.conn = c /\ thread[c] \in Attaching
             => thread'[c] \in Attaching \cup {"failed"}
        /\ \A c \in Conns : thread[c] = "failed" => thread'[c] = "failed"
    BY <1>2, RegistrationStep
  <2>2. Attached' = Attached
    BY <2>1 DEF Attached
  <2>3. TokensDistinct'
    BY <2>1 DEF TokenInv, TokensDistinct
  <2>4. RegistrationIsServed'
    <3>1. CASE broker' = NoBroker
      BY <3>1 DEF NoBroker, RegistrationIsServed
    <3>2. CASE broker' = broker
      BY <2>1, <3>2
      DEF TokenInv, RegistrationIsServed, TypeOK, StateTypes
    <3> QED BY <2>1, <3>1, <3>2
  <2> QED BY <2>1, <2>2, <2>3, <2>4 DEF TokenInv
<1>3. CASE UNCHANGED vars
  BY <1>3 DEF vars, TokenInv, Attached, TokensDistinct, RegistrationIsServed
<1> QED BY <1>1, <1>2, <1>3

\* TokenInv holds in every state the daemon reaches.
LEMMA TokenInvariant == Spec => []TokenInv
<1>1. Init => TokenInv
  <2> SUFFICES ASSUME Init PROVE TokenInv
    OBVIOUS
  <2>1. Attached = {}
    BY DEF Init, Attached
  <2>2. Cardinality(Attached) = 0
    BY <2>1, FS_EmptySet
  <2> QED
    BY <2>2 DEF Init, TokenInv, TokensDistinct, RegistrationIsServed, NoBroker
<1> QED BY <1>1, TokenInvStep, TypeCorrect, PTL DEF Spec

(***************************************************************************)
(* No two attachments share a token, however many connections there are    *)
(* (fewer than the 2^64 values of the counter).                            *)
(***************************************************************************)
THEOREM TokensCorrect == Spec => []TokensDistinct
<1>1. TokenInv => TokensDistinct
  BY DEF TokenInv
<1> QED BY <1>1, TokenInvariant, PTL

(***************************************************************************)
(* The registered broker is served by a live thread or left by one that    *)
(* failed; a thread that ends without error takes its registration along.  *)
(***************************************************************************)
THEOREM RegistrationCorrect == Spec => []RegistrationIsServed
<1>1. TokenInv => RegistrationIsServed
  BY DEF TokenInv
<1> QED BY <1>1, TokenInvariant, PTL

(***************************************************************************)
(* The token check of attach_broker: a thread that ends removes no         *)
(* registration but its own.                                               *)
(***************************************************************************)
THEOREM OwnRegistrationOnly == Spec => OnlyOwnRegistrationUndone
<1> DEFINE Own ==
      \A c \in Conns :
        thread[c] \in {"finish", "resize"} /\ thread'[c] \in {"done", "failed"}
          => broker' = broker \/ broker.conn = c
<1>1. TypeOK /\ TokenInv /\ [Next]_vars => [Own]_vars
  <2> SUFFICES ASSUME TypeOK, TokenInv, Next, NEW c \in Conns,
                      thread[c] \in {"finish", "resize"},
                      thread'[c] \in {"done", "failed"}
               PROVE  broker' = broker \/ broker.conn = c
    OBVIOUS
  <2>1. Finish(c) \/ ResizeInitial(c)
    <3> USE DEF TypeOK, ThreadTypes
    <3>1. ~(MainStep \/ AcceptError \/ ShellStep \/ WaiterStep \/ ReaderStep)
      BY DEF MainStep, CheckShutdown, AcceptNone, MainExit, AcceptConn,
             AcceptError, ShellStep, ShellOutput, ShellInput, ShellExit,
             ShellVarsOnly, WaiterStep, WaiterReap, WaiterWrite, WaiterUnlink,
             WaiterUnchanged, ReaderStep, ReaderRead, ReaderWrite,
             ReaderDetach, ReaderEnd, ReaderUnchanged, Goto
    <3>2. \A d \in Conns : ~PeerStep(d)
      BY DEF PeerStep, PeerConnect, PeerShutdown, PeerClose, PeerRead, Goto
    <3>3. \A d \in Conns : ~FrameStep(d)
      BY DEF FrameStep, HandleCapabilities, HandleInitialWindowSize,
             HandleInfo, HandleDetach, HandleAttach, HandleUnknown,
             HandleOther, AttachedData, AttachedWindowSize, AttachedDetach,
             Goto
    <3>4. \A d \in Conns : ThreadStep(d) => Finish(c) \/ ResizeInitial(c)
      BY DEF ThreadStep, RequestEnd, WriteInfo, WriteShouldExit, AttachBusy,
             AttachRegister, ResizeInitial, WriteReplay, ReplayCopy, AttachedEnd,
             WriteInput, Finish, Goto
    <3> QED BY <3>1, <3>2, <3>3, <3>4 DEF Next
  <2>2. CASE Mine(c)
    BY <2>2, MineIsOwn
  <2>3. CASE ~Mine(c)
    BY <2>1, <2>3 DEF Finish, ResizeInitial, DetachIfMine
  <2> QED BY <2>2, <2>3
<1> QED
  BY <1>1, TypeCorrect, TokenInvariant, PTL DEF Spec, OnlyOwnRegistrationUndone

=============================================================================
