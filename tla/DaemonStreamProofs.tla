------------------------- MODULE DaemonStreamProofs -------------------------
(***************************************************************************)
(* What the daemon writes to its brokers, for every value of the           *)
(* constants: the live stream is exact, the daemon implements Session, and *)
(* a client that was told to exit no longer holds the session.             *)
(***************************************************************************)
EXTENDS DaemonRefinement, DaemonProofs

-----------------------------------------------------------------------------
(* The inductive invariant                                                 *)

\* Nothing is sent that was not read from the PTY, and nothing to a connection
\* that never attached.
SentWasRead ==
  \A c \in Conns :
    /\ base[c] <= nread
    /\ \A i \in 1 .. Len(view[c]) : view[c][i] \in 1 .. nread
    /\ token[c] = 0 => Len(view[c]) = 0

\* Until the replay of c is written, its copy of the ring is the output just
\* before c attached, and c has been sent only what came after.
ReplayOwed ==
  \A c \in Conns : thread[c] \in {"resize", "replay"} =>
    /\ token[c] # 0
    /\ IsWindow(snapshot[c], Capacity, base[c])
    /\ \A i \in 1 .. Len(view[c]) : view[c][i] > base[c]

\* The chunk the reader holds is the last that was read, all of it is live
\* output for its addressee, and it continues what the addressee has.
ChunkContinues ==
  reader.pc = "write" =>
    LET c == reader.to
        before == nread - Len(reader.bytes)
    IN /\ token[c] # 0 /\ base[c] <= before
       /\ \A i \in 1 .. Len(reader.bytes) : reader.bytes[i] = before + i
       /\ \A i \in 1 .. Len(view[c]) : view[c][i] <= before
       /\ broker.conn = c => \A p \in base[c] + 1 .. before :
                               \E i \in 1 .. Len(view[c]) : view[c][i] = p

\* LiveStreamExact is not inductive: what is appended to a stream continues it
\* only because of what the reader, or the replay still to come, holds.
StreamInv == SentWasRead /\ ReplayOwed /\ ChunkContinues /\ LiveStreamExact

-----------------------------------------------------------------------------
(* Lemmas about sequences of bytes                                         *)

\* What is at the places of a concatenation.
LEMMA ConcatPlaces ==
  ASSUME NEW s \in Seq(Nat), NEW t \in Seq(Nat)
  PROVE  /\ Len(s \o t) = Len(s) + Len(t)
         /\ \A i \in 1 .. Len(s) : (s \o t)[i] = s[i]
         /\ \A i \in Len(s) + 1 .. Len(s) + Len(t) : (s \o t)[i] = t[i - Len(s)]
         /\ \A i \in 1 .. Len(t) : (s \o t)[Len(s) + i] = t[i]
OBVIOUS

\* The bytes of a concatenation are those of its parts.
LEMMA ConcatBytes ==
  ASSUME NEW s \in Seq(Nat), NEW t \in Seq(Nat)
  PROVE  Bytes(s \o t) = Bytes(s) \cup Bytes(t)
<1>1. ASSUME NEW b \in Bytes(s \o t) PROVE b \in Bytes(s) \cup Bytes(t)
  <2>1. PICK i \in 1 .. Len(s \o t) : b = (s \o t)[i]
    BY DEF Bytes
  <2>2. CASE i \in 1 .. Len(s)
    BY <2>1, <2>2, ConcatPlaces DEF Bytes
  <2>3. CASE i \in Len(s) + 1 .. Len(s) + Len(t)
    <3>1. i - Len(s) \in 1 .. Len(t) /\ b = t[i - Len(s)]
      BY <2>1, <2>3, ConcatPlaces
    <3> QED BY <3>1 DEF Bytes
  <2> QED BY <2>1, <2>2, <2>3, ConcatPlaces
<1>2. ASSUME NEW i \in 1 .. Len(s) PROVE s[i] \in Bytes(s \o t)
  <2>1. i \in 1 .. Len(s \o t) /\ (s \o t)[i] = s[i]
    BY ConcatPlaces
  <2> QED BY <2>1 DEF Bytes
<1>3. ASSUME NEW i \in 1 .. Len(t) PROVE t[i] \in Bytes(s \o t)
  <2>1. Len(s) + i \in 1 .. Len(s \o t) /\ (s \o t)[Len(s) + i] = t[i]
    BY ConcatPlaces
  <2> QED BY <2>1 DEF Bytes
<1> QED BY <1>1, <1>2, <1>3 DEF Bytes

\* Of the numbers above b in a stream each is smaller than the next.
Ordered(s, b) ==
  \A i, j \in 1 .. Len(s) : i < j /\ s[i] > b /\ s[j] > b => s[i] < s[j]
\* A stream holds every number above b up to e.
Covers(s, b, e) == \A p \in b + 1 .. e : \E i \in 1 .. Len(s) : s[i] = p

\* A stream with nothing above m, continued by the numbers from m + 1 on.
LEMMA ContinuedStream ==
  ASSUME NEW s \in Seq(Nat), NEW t \in Seq(Nat), NEW b \in Nat, NEW m \in Nat,
         \A i \in 1 .. Len(s) : s[i] <= m,
         \A i \in 1 .. Len(t) : t[i] = m + i
  PROVE  /\ Ordered(s, b) => Ordered(s \o t, b)
         /\ Covers(s, b, m) => Covers(s \o t, b, m + Len(t))
<1> DEFINE u == s \o t
<1>1. /\ Len(u) = Len(s) + Len(t)
      /\ \A i \in 1 .. Len(s) : u[i] = s[i]
      /\ \A i \in Len(s) + 1 .. Len(s) + Len(t) : u[i] = t[i - Len(s)]
      /\ \A i \in 1 .. Len(t) : u[Len(s) + i] = t[i]
  BY ConcatPlaces
<1>2. Len(s) \in Nat /\ Len(t) \in Nat /\ \A i \in 1 .. Len(s) : s[i] \in Nat
  OBVIOUS
<1> HIDE DEF u
<1>3. \A i \in Len(s) + 1 .. Len(s) + Len(t) : u[i] = m + (i - Len(s))
  <2> TAKE i \in Len(s) + 1 .. Len(s) + Len(t)
  <2>1. i - Len(s) \in 1 .. Len(t)
    BY <1>2
  <2> QED BY <1>1, <2>1
<1>4. ASSUME Ordered(s, b) PROVE Ordered(u, b)
  <2> SUFFICES ASSUME NEW i \in 1 .. Len(u), NEW j \in 1 .. Len(u),
                      i < j, u[i] > b, u[j] > b
               PROVE  u[i] < u[j]
    BY DEF Ordered
  <2>1. CASE j \in 1 .. Len(s)
    <3>1. i \in 1 .. Len(s)
      BY <1>2, <2>1
    <3>2. u[i] = s[i] /\ u[j] = s[j]
      BY <1>1, <2>1, <3>1
    <3> QED BY <1>4, <2>1, <3>1, <3>2 DEF Ordered
  <2>2. CASE i \in 1 .. Len(s) /\ j \in Len(s) + 1 .. Len(s) + Len(t)
    <3>1. u[i] = s[i] /\ s[i] <= m /\ s[i] \in Nat
      BY <1>1, <1>2, <2>2
    <3>2. u[j] = m + (j - Len(s))
      BY <1>3, <2>2
    <3> QED BY <1>2, <2>2, <3>1, <3>2
  <2>3. CASE i \in Len(s) + 1 .. Len(s) + Len(t)
    <3>1. j \in Len(s) + 1 .. Len(s) + Len(t)
      BY <1>1, <1>2, <2>3
    <3> QED BY <1>2, <1>3, <2>3, <3>1
  <2> QED BY <1>1, <1>2, <2>1, <2>2, <2>3
<1>5. ASSUME Covers(s, b, m), NEW p \in b + 1 .. m + Len(t)
      PROVE  \E i \in 1 .. Len(u) : u[i] = p
  <2>1. CASE p <= m
    <3>1. PICK i \in 1 .. Len(s) : s[i] = p
      BY <1>2, <1>5, <2>1 DEF Covers
    <3> QED BY <1>1, <1>2, <3>1
  <2>2. CASE p > m
    <3>1. p - m \in 1 .. Len(t)
      BY <1>2, <2>2
    <3>2. Len(s) + (p - m) \in 1 .. Len(u)
      BY <1>1, <1>2, <3>1
    <3>3. u[Len(s) + (p - m)] = t[p - m] /\ t[p - m] = m + (p - m)
      BY <1>1, <3>1
    <3> QED BY <3>2, <3>3
  <2> QED BY <2>1, <2>2
<1> QED BY <1>4, <1>5 DEF Covers, u

\* A stream to which only numbers up to b are added.
LEMMA ReplayedStream ==
  ASSUME NEW s \in Seq(Nat), NEW t \in Seq(Nat), NEW b \in Nat,
         \A i \in 1 .. Len(t) : t[i] <= b
  PROVE  /\ Ordered(s, b) => Ordered(s \o t, b)
         /\ \A e \in Nat : Covers(s, b, e) => Covers(s \o t, b, e)
<1> DEFINE u == s \o t
<1>1. /\ Len(u) = Len(s) + Len(t)
      /\ \A i \in 1 .. Len(s) : u[i] = s[i]
      /\ \A i \in Len(s) + 1 .. Len(s) + Len(t) : u[i] = t[i - Len(s)]
  BY ConcatPlaces
<1>2. Len(s) \in Nat /\ Len(t) \in Nat /\ \A i \in 1 .. Len(t) : t[i] \in Nat
  OBVIOUS
<1> HIDE DEF u
<1>3. ASSUME NEW i \in 1 .. Len(u), u[i] > b
      PROVE  i \in 1 .. Len(s) /\ u[i] = s[i]
  <2>1. CASE i \in Len(s) + 1 .. Len(s) + Len(t)
    <3>1. i - Len(s) \in 1 .. Len(t)
      BY <1>2, <2>1
    <3>2. u[i] = t[i - Len(s)] /\ t[i - Len(s)] \in Nat
      BY <1>1, <1>2, <2>1, <3>1
    <3>3. t[i - Len(s)] <= b
      BY <3>1
    <3> QED BY <1>3, <3>2, <3>3
  <2> QED BY <1>1, <1>2, <2>1
<1>4. ASSUME Ordered(s, b) PROVE Ordered(u, b)
  BY <1>3, <1>4 DEF Ordered
<1>5. ASSUME NEW e \in Nat, Covers(s, b, e), NEW p \in b + 1 .. e
      PROVE  \E i \in 1 .. Len(u) : u[i] = p
  <2>1. PICK i \in 1 .. Len(s) : s[i] = p
    BY <1>5 DEF Covers
  <2> QED BY <1>1, <1>2, <2>1
<1> QED BY <1>4, <1>5 DEF Covers, u

-----------------------------------------------------------------------------
(* The steps that matter to the streams                                    *)

USE DEF stateVars, regVars, connVars, locals, socketVars, outVars, ptyVars,
        histVars, NoOr

\* All steps but an attachment, a replay and the reader's leave the streams
\* alone; they may detach the broker, and none of them owes another replay.
LEMMA OtherStep ==
  ASSUME TypeOK, TokenInv, Next, ~ReaderStep,
         ~(\E c \in Conns : AttachRegister(c) \/ WriteReplay(c))
  PROVE  /\ UNCHANGED <<reader, nread, base, view, token, snapshot>>
         /\ broker' \in {broker, NoBroker}
         /\ \A c \in Conns : thread'[c] \in {"resize", "replay"}
                               => thread[c] \in {"resize", "replay"}
<1> DEFINE Goal ==
      /\ UNCHANGED <<reader, nread, base, view, token, snapshot>>
      /\ \A c \in Conns : thread'[c] \in {"resize", "replay"}
                            => thread[c] \in {"resize", "replay"}
<1> SUFFICES Goal
  BY RegistrationStep
<1> USE DEF TypeOK, ThreadTypes
<1>1. CASE MainStep \/ AcceptError \/ ShellStep \/ WaiterStep
  BY <1>1
  DEF MainStep, CheckShutdown, AcceptNone, MainExit, AcceptConn, AcceptError,
      MainUnchanged, ShellStep, ShellOutput, ShellInput, ShellExit,
      ShellVarsOnly, WaiterStep, WaiterReap, WaiterWrite, WaiterUnlink,
      WaiterUnchanged, Write, Goto
<1>2. ASSUME NEW c \in Conns, PeerStep(c) PROVE Goal
  BY <1>2 DEF PeerStep, PeerConnect, PeerShutdown, PeerClose, PeerRead, Goto
<1>3. ASSUME NEW c \in Conns, FrameStep(c) PROVE Goal
  BY <1>3
  DEF FrameStep, HandleCapabilities, HandleInitialWindowSize, HandleInfo,
      HandleDetach, HandleAttach, HandleUnknown, HandleOther, AttachedData,
      AttachedWindowSize, AttachedDetach, Quiet, HandlerUnchanged, Write, Goto
<1>4. ASSUME NEW c \in Conns, ThreadStep(c) PROVE Goal
  BY <1>4
  DEF ThreadStep, RequestEnd, WriteInfo, WriteShouldExit, AttachBusy,
      ResizeInitial, AttachedEnd, WriteInput, Finish, Quiet, HandlerUnchanged,
      Write, Goto
<1> QED BY <1>1, <1>2, <1>3, <1>4 DEF Next

\* The types the proofs about the streams need.
LEMMA StreamTypes ==
  ASSUME TypeOK
  PROVE  /\ nread \in Nat /\ Capacity \in Nat \ {0}
         /\ base \in [Conns -> Nat] /\ view \in [Conns -> Seq(Nat)]
         /\ snapshot \in [Conns -> Seq(Nat)] /\ token \in [Conns -> Nat]
         /\ thread \in [Conns -> ThreadStates]
         /\ reader.bytes \in Seq(Nat) /\ reader.to \in Conns \cup {NoConn}
         /\ reader.pc = "write" => reader.to \in Conns
         /\ broker.conn \in Conns \cup {NoConn}
         /\ NoConn \notin Conns
<1>1. nread \in Nat /\ base \in [Conns -> Nat] /\ view \in [Conns -> Seq(Nat)]
  BY DEF TypeOK, PtyTypes
<1>2. snapshot \in [Conns -> Seq(Nat)] /\ token \in [Conns -> Nat]
  BY TokenModPositive DEF TypeOK, LocalTypes
<1>3. /\ thread \in [Conns -> ThreadStates]
      /\ reader.bytes \in Seq(Nat) /\ reader.to \in Conns \cup {NoConn}
      /\ reader.pc = "write" => reader.to \in Conns
  BY DEF TypeOK, ThreadTypes
<1>4. broker.conn \in Conns \cup {NoConn}
  BY DEF TypeOK, StateTypes
<1> QED BY <1>1, <1>2, <1>3, <1>4, CapacityAssumption, ConnsAssumption

\* attach_broker's critical section: the ring is copied at the point of the
\* stream from which on c will be sent what is read.
LEMMA RegisterKeepsStreams ==
  ASSUME TypeOK, TokenInv, ReplayIsRecentOutput, StreamInv,
         NEW c \in Conns, AttachRegister(c)
  PROVE  StreamInv'
<1>1. token[c] = 0 /\ Len(view[c]) = 0
  BY DEF AttachRegister, TokenInv, Handling, StreamInv, SentWasRead
<1>2. NextAttachToken # 0 /\ NextAttachToken \in Nat
  <2>1. thread[c] = "attach"
    BY DEF AttachRegister
  <2>2. NextAttachToken = attachToken + 1
    BY <2>1, FreshToken
  <2>3. attachToken \in Nat
    BY TokenModPositive DEF TypeOK, StateTypes
  <2> QED BY <2>2, <2>3
<1>3. /\ UNCHANGED <<reader, nread, view>>
      /\ broker'.conn = c
      /\ token' = [token EXCEPT ![c] = NextAttachToken]
      /\ base' = [base EXCEPT ![c] = nread]
      /\ snapshot' = [snapshot EXCEPT ![c] = replay]
      /\ \A d \in Conns \ {c} : thread'[d] = thread[d]
  BY StreamTypes DEF AttachRegister, Goto
<1>4. SentWasRead'
  <2>1. ASSUME NEW d \in Conns
        PROVE  /\ base'[d] <= nread'
               /\ \A i \in 1 .. Len(view'[d]) : view'[d][i] \in 1 .. nread'
               /\ token'[d] = 0 => Len(view'[d]) = 0
    <3>1. CASE d = c
      BY <1>1, <1>2, <1>3, <3>1, StreamTypes
    <3>2. CASE d # c
      BY <1>3, <3>2, StreamTypes DEF StreamInv, SentWasRead
    <3> QED BY <3>1, <3>2
  <2> QED BY <2>1 DEF SentWasRead
<1>5. ReplayOwed'
  <2>1. IsWindow(replay, Capacity, nread)
    BY DEF ReplayIsRecentOutput, IsWindow
  <2>2. ASSUME NEW d \in Conns, thread'[d] \in {"resize", "replay"}
        PROVE  /\ token'[d] # 0
               /\ IsWindow(snapshot'[d], Capacity, base'[d])
               /\ \A i \in 1 .. Len(view'[d]) : view'[d][i] > base'[d]
    <3>1. CASE d = c
      BY <1>1, <1>2, <1>3, <2>1, <3>1, StreamTypes
    <3>2. CASE d # c
      BY <1>3, <2>2, <3>2, StreamTypes DEF StreamInv, ReplayOwed
    <3> QED BY <3>1, <3>2
  <2> QED BY <2>2 DEF ReplayOwed
<1>6. ChunkContinues'
  <2> SUFFICES ASSUME reader.pc = "write" PROVE ChunkContinues'
    BY <1>3 DEF ChunkContinues
  <2>1. reader.to # c /\ reader.to \in Conns
    BY <1>1, StreamTypes DEF StreamInv, ChunkContinues
  <2> QED BY <1>3, <2>1, StreamTypes DEF StreamInv, ChunkContinues
<1>7. LiveStreamExact'
  <2> SUFFICES ASSUME NEW d \in Conns, token'[d] # 0
               PROVE  /\ \A i, j \in 1 .. Len(view'[d]) :
                           i < j /\ view'[d][i] > base'[d] /\ view'[d][j] > base'[d]
                             => view'[d][i] < view'[d][j]
                      /\ d = c => \A p \in base'[d] + 1 .. nread' : FALSE
    BY <1>3 DEF LiveStreamExact
  <2>1. CASE d = c
    BY <1>1, <1>3, <2>1, StreamTypes
  <2>2. CASE d # c
    BY <1>3, <2>2, StreamTypes, SMTT(30) DEF StreamInv, LiveStreamExact
  <2> QED BY <2>1, <2>2
<1> QED BY <1>4, <1>5, <1>6, <1>7 DEF StreamInv

\* The reader's critical section: it takes a chunk for whoever is registered.
LEMMA ReadKeepsStreams ==
  ASSUME TypeOK, TokenInv, StreamInv, NEW n \in 1 .. MaxRead, ReaderRead(n)
  PROVE  StreamInv'
<1> DEFINE chunk == [i \in 1 .. n |-> nread + i]
<1>1. n \in Nat \ {0} /\ nread \in Nat
  BY BoundsAssumption, StreamTypes
<1>2. /\ chunk \in Seq(Nat) /\ Len(chunk) = n
      /\ \A i \in 1 .. n : chunk[i] = nread + i
  BY <1>1, ChunkType
<1>3. /\ UNCHANGED <<broker, token, thread, base, view, snapshot>>
      /\ nread' = nread + n
      /\ reader.pc = "read"
      /\ reader' = Forward(chunk)
  BY DEF ReaderRead, ReaderUnchanged
<1> HIDE DEF chunk
<1>4. SentWasRead'
  <2>1. \A c \in Conns : base[c] \in Nat /\ view[c] \in Seq(Nat)
    BY StreamTypes
  <2> QED BY <1>1, <1>3, <2>1 DEF StreamInv, SentWasRead
<1>5. ReplayOwed'
  BY <1>3 DEF StreamInv, ReplayOwed
<1>6. CASE broker.conn = NoConn
  <2>1. reader' = reader
    BY <1>3, <1>6 DEF Forward
  <2>2. ChunkContinues'
    BY <1>3, <2>1 DEF ChunkContinues
  <2>3. LiveStreamExact'
    BY <1>3, <1>6, <2>1, StreamTypes DEF StreamInv, LiveStreamExact
  <2> QED BY <1>4, <1>5, <2>2, <2>3 DEF StreamInv
<1>7. CASE broker.conn # NoConn
  <2>1. reader' = [pc |-> "write", to |-> broker.conn, bytes |-> chunk]
    BY <1>3, <1>7 DEF Forward, ForwardTo
  <2>2. PICK c \in Conns : c = broker.conn
    BY <1>7, StreamTypes
  <2>3. token[c] # 0
    BY <1>7, <2>2 DEF TokenInv, RegistrationIsServed
  <2>4. /\ reader'.pc = "write" /\ reader'.to = c /\ reader'.bytes = chunk
        /\ nread' - Len(chunk) = nread
    BY <1>1, <1>2, <1>3, <2>1, <2>2
  <2>5. /\ base[c] <= nread
        /\ \A i \in 1 .. Len(view[c]) : view[c][i] <= nread
    BY <1>1, StreamTypes, SMTT(30) DEF StreamInv, SentWasRead
  <2>6. \A p \in base[c] + 1 .. nread : \E i \in 1 .. Len(view[c]) : view[c][i] = p
    BY <1>3, <2>2, <2>3 DEF StreamInv, LiveStreamExact
  <2>7. ChunkContinues'
    BY <1>2, <1>3, <2>3, <2>4, <2>5, <2>6 DEF ChunkContinues
  <2>8. LiveStreamExact'
    BY <1>3, <2>2, <2>4 DEF StreamInv, LiveStreamExact
  <2> QED BY <1>4, <1>5, <2>7, <2>8 DEF StreamInv
<1> QED BY <1>6, <1>7

\* The reader writes its chunk: the addressee's stream is continued.
LEMMA WriteKeepsStreams ==
  ASSUME TypeOK, StreamInv, ReaderWrite
  PROVE  StreamInv'
<1>1. /\ UNCHANGED <<broker, token, thread, base, nread, snapshot>>
      /\ reader.pc = "write"
  BY DEF ReaderWrite, ReaderUnchanged
<1>2. PICK c \in Conns : c = reader.to
  BY <1>1, StreamTypes
<1>3. PICK t \in Seq(Nat) : t = reader.bytes
  BY StreamTypes
<1>4. CASE reader' = AfterFailedWrite /\ UNCHANGED outVars
  <2>1. reader'.pc = "detach" /\ reader'.to = reader.to /\ UNCHANGED view
    BY <1>4 DEF AfterFailedWrite
  <2> QED BY <1>1, <2>1 DEF StreamInv, SentWasRead, ReplayOwed, ChunkContinues,
                            LiveStreamExact
<1>5. CASE WriteData(reader.to, reader.bytes) /\ reader' = ReaderAtRead
  <2>1. /\ view' = [view EXCEPT ![c] = view[c] \o t]
        /\ reader'.pc = "read"
    BY <1>2, <1>3, <1>5 DEF WriteData, ReaderAtRead
  <2>2. /\ view'[c] = view[c] \o t
        /\ \A d \in Conns \ {c} : view'[d] = view[d]
    BY <2>1, StreamTypes
  <2>3. /\ view[c] \in Seq(Nat) /\ base[c] \in Nat /\ nread \in Nat
        /\ Len(t) \in Nat /\ nread - Len(t) \in Int
    BY StreamTypes
  <2>4. /\ token[c] # 0 /\ base[c] <= nread - Len(t)
        /\ \A i \in 1 .. Len(t) : t[i] = (nread - Len(t)) + i
        /\ \A i \in 1 .. Len(view[c]) : view[c][i] <= nread - Len(t)
        /\ broker.conn = c => Covers(view[c], base[c], nread - Len(t))
    BY <1>1, <1>2, <1>3 DEF StreamInv, ChunkContinues, Covers
  <2>5. PICK m \in Nat : m = nread - Len(t)
    BY <2>3, <2>4
  <2>6. /\ base[c] <= m /\ m + Len(t) = nread
        /\ \A i \in 1 .. Len(t) : t[i] = m + i
        /\ \A i \in 1 .. Len(view[c]) : view[c][i] <= m
    BY <2>3, <2>4, <2>5
  <2>7. Ordered(view[c], base[c])
    BY <2>4 DEF StreamInv, LiveStreamExact, Ordered
  <2>8. Ordered(view'[c], base[c])
    BY <2>2, <2>3, <2>6, <2>7, ContinuedStream
  <2>9. broker.conn = c => Covers(view'[c], base[c], nread)
    <3>1. broker.conn = c => Covers(view[c], base[c], m)
      BY <2>4, <2>5
    <3>2. Covers(view[c], base[c], m) => Covers(view'[c], base[c], m + Len(t))
      BY <2>2, <2>3, <2>6, ContinuedStream
    <3> QED BY <2>6, <3>1, <3>2
  <2>10. \A i \in 1 .. Len(view'[c]) :
           \/ i \in 1 .. Len(view[c]) /\ view'[c][i] = view[c][i]
           \/ view'[c][i] \in m + 1 .. nread
    <3> TAKE i \in 1 .. Len(view'[c])
    <3>1. CASE i \in 1 .. Len(view[c])
      BY <2>2, <2>3, <3>1, ConcatPlaces
    <3>2. CASE i \in Len(view[c]) + 1 .. Len(view[c]) + Len(t)
      <4> DEFINE k == i - Len(view[c])
      <4>1. k \in 1 .. Len(t)
        BY <2>3, <3>2, SMTT(30)
      <4>2. view'[c][i] = t[k]
        BY <2>2, <2>3, <3>2, <4>1, ConcatPlaces
      <4> HIDE DEF k
      <4>3. view'[c][i] = m + k
        BY <2>6, <4>1, <4>2
      <4>4. m + k \in m + 1 .. nread
        BY <2>3, <2>6, <4>1
      <4> QED BY <4>3, <4>4
    <3> QED BY <2>2, <2>3, <3>1, <3>2, ConcatPlaces
  <2>11. SentWasRead'
    <3>1. \A i \in 1 .. Len(view'[c]) : view'[c][i] \in 1 .. nread
      BY <2>3, <2>5, <2>10, SMTT(30) DEF StreamInv, SentWasRead
    <3> QED BY <1>1, <2>2, <2>4, <3>1 DEF StreamInv, SentWasRead
  <2>12. ReplayOwed'
    <3>1. thread[c] \in {"resize", "replay"} =>
            \A i \in 1 .. Len(view'[c]) : view'[c][i] > base[c]
      <4> SUFFICES ASSUME thread[c] \in {"resize", "replay"},
                          NEW i \in 1 .. Len(view'[c])
                   PROVE  view'[c][i] > base[c]
        OBVIOUS
      <4>1. \A j \in 1 .. Len(view[c]) : view[c][j] > base[c]
        BY DEF StreamInv, ReplayOwed
      <4>2. CASE view'[c][i] \in m + 1 .. nread
        BY <2>3, <2>6, <4>2, SMTT(30)
      <4> QED BY <2>10, <4>1, <4>2
    <3> QED BY <1>1, <2>2, <3>1 DEF StreamInv, ReplayOwed
  <2>13. ChunkContinues'
    BY <2>1 DEF ChunkContinues
  <2>14. LiveStreamExact'
    <3> SUFFICES ASSUME NEW d \in Conns, token'[d] # 0
                 PROVE  /\ Ordered(view'[d], base'[d])
                        /\ broker'.conn = d => Covers(view'[d], base'[d], nread')
      BY DEF LiveStreamExact, Ordered, Covers
    <3>1. CASE d = c
      BY <1>1, <2>8, <2>9, <3>1
    <3>2. CASE d # c
      BY <1>1, <1>2, <2>2, <3>2, SMTT(30)
      DEF StreamInv, LiveStreamExact, Ordered, Covers
    <3> QED BY <3>1, <3>2
  <2> QED BY <2>11, <2>12, <2>13, <2>14 DEF StreamInv
<1> QED BY <1>4, <1>5 DEF ReaderWrite

\* The replay is written once, whatever the reader has written before: it
\* adds to a stream only what was read before the connection attached.
LEMMA ReplayKeepsStreams ==
  ASSUME TypeOK, StreamInv, NEW c \in Conns, WriteReplay(c)
  PROVE  StreamInv'
<1>1. /\ UNCHANGED <<broker, token, base, nread, reader>>
      /\ thread[c] = "replay"
      /\ snapshot' = [snapshot EXCEPT ![c] = << >>]
  BY DEF WriteReplay, HandlerUnchanged
<1>2. /\ thread'[c] \notin {"resize", "replay"}
      /\ \A d \in Conns \ {c} : thread'[d] = thread[d] /\ snapshot'[d] = snapshot[d]
  BY StreamTypes DEF WriteReplay, Goto
<1>3. CASE UNCHANGED view
  <2>1. SentWasRead' /\ ChunkContinues' /\ LiveStreamExact'
    BY <1>1, <1>3 DEF StreamInv, SentWasRead, ChunkContinues, LiveStreamExact
  <2>2. ReplayOwed'
    BY <1>1, <1>2, <1>3 DEF StreamInv, ReplayOwed
  <2> QED BY <2>1, <2>2 DEF StreamInv
<1>4. CASE WriteData(c, snapshot[c])
  <2>1. PICK t \in Seq(Nat) : t = snapshot[c]
    BY StreamTypes
  <2>2. /\ view'[c] = view[c] \o t
        /\ \A d \in Conns \ {c} : view'[d] = view[d]
    BY <1>4, <2>1, StreamTypes DEF WriteData
  <2>3. /\ view[c] \in Seq(Nat) /\ base[c] \in Nat /\ nread \in Nat
        /\ Len(t) \in Nat /\ base[c] <= nread
    BY StreamTypes DEF StreamInv, SentWasRead
  <2>4. token[c] # 0 /\ IsWindow(t, Capacity, base[c])
    BY <1>1, <2>1 DEF StreamInv, ReplayOwed
  <2>5. \A i \in 1 .. Len(t) : t[i] \in 1 .. base[c]
    BY <2>3, <2>4, CapacityAssumption, SMTT(30) DEF IsWindow
  <2>6. \A i \in 1 .. Len(view'[c]) :
          \/ i \in 1 .. Len(view[c]) /\ view'[c][i] = view[c][i]
          \/ view'[c][i] \in 1 .. base[c]
    <3> TAKE i \in 1 .. Len(view'[c])
    <3>1. CASE i \in 1 .. Len(view[c])
      BY <2>2, <2>3, <3>1, ConcatPlaces
    <3>2. CASE i \in Len(view[c]) + 1 .. Len(view[c]) + Len(t)
      <4>1. i - Len(view[c]) \in 1 .. Len(t)
        BY <2>3, <3>2
      <4>2. view'[c][i] = t[i - Len(view[c])]
        BY <2>2, <2>3, <3>2, ConcatPlaces
      <4> QED BY <2>5, <4>1, <4>2
    <3> QED BY <2>2, <2>3, <3>1, <3>2, ConcatPlaces
  <2>7. /\ Ordered(view[c], base[c]) => Ordered(view'[c], base[c])
        /\ \A e \in Nat : Covers(view[c], base[c], e) => Covers(view'[c], base[c], e)
    <3>1. \A i \in 1 .. Len(t) : t[i] <= base[c]
      BY <2>3, <2>5
    <3> QED BY <2>2, <2>3, <3>1, ReplayedStream
  <2>8. SentWasRead'
    <3>1. \A i \in 1 .. Len(view'[c]) : view'[c][i] \in 1 .. nread
      BY <2>3, <2>6, SMTT(30) DEF StreamInv, SentWasRead
    <3> QED BY <1>1, <2>2, <2>4, <3>1 DEF StreamInv, SentWasRead
  <2>9. ReplayOwed'
    BY <1>1, <1>2, <2>2 DEF StreamInv, ReplayOwed
  <2>10. ChunkContinues'
    <3>1. CASE reader.pc = "write" /\ reader.to = c
      <4>1. PICK m \in Nat : m = nread - Len(reader.bytes)
        <5> DEFINE before == nread - Len(reader.bytes)
        <5>1. base[c] <= before
          BY <3>1, Zenon DEF StreamInv, ChunkContinues
        <5>2. before \in Int
          <6>1. Len(reader.bytes) \in Nat
            BY StreamTypes
          <6> QED BY <2>3, <6>1
        <5> HIDE DEF before
        <5>3. before \in Nat
          BY <2>3, <5>1, <5>2
        <5> QED BY <5>3 DEF before
      <4>2. /\ base[c] <= m /\ \A i \in 1 .. Len(view[c]) : view[c][i] <= m
            /\ \A i \in 1 .. Len(reader.bytes) : reader.bytes[i] = m + i
            /\ broker.conn = c => Covers(view[c], base[c], m)
        BY <3>1, <4>1 DEF StreamInv, ChunkContinues, Covers
      <4>3. \A i \in 1 .. Len(view'[c]) : view'[c][i] <= m
        <5> TAKE i \in 1 .. Len(view'[c])
        <5>1. CASE view'[c][i] \in 1 .. base[c]
          BY <2>3, <4>2, <5>1
        <5> QED BY <2>6, <4>2, <5>1
      <4>4. broker.conn = c => Covers(view'[c], base[c], m)
        BY <2>7, <4>2
      <4> QED BY <1>1, <2>4, <3>1, <4>1, <4>2, <4>3, <4>4, ZenonT(30)
              DEF ChunkContinues, Covers
    <3>2. CASE ~(reader.pc = "write" /\ reader.to = c)
      <4> SUFFICES ASSUME reader.pc = "write" PROVE ChunkContinues'
        BY <1>1 DEF ChunkContinues
      <4>1. view'[reader.to] = view[reader.to]
        BY <2>2, <3>2, StreamTypes
      <4> QED BY <1>1, <4>1, SMTT(30) DEF StreamInv, ChunkContinues
    <3> QED BY <3>1, <3>2
  <2>11. LiveStreamExact'
    <3> SUFFICES ASSUME NEW d \in Conns, token'[d] # 0
                 PROVE  /\ Ordered(view'[d], base'[d])
                        /\ broker'.conn = d
                             /\ ~(reader'.pc \in {"write", "detach"} /\ reader'.to = d)
                             => Covers(view'[d], base'[d], nread')
      BY DEF LiveStreamExact, Ordered, Covers
    <3>1. /\ Ordered(view[d], base[d])
          /\ broker.conn = d /\ ~(reader.pc \in {"write", "detach"} /\ reader.to = d)
               => Covers(view[d], base[d], nread)
      BY <1>1 DEF StreamInv, LiveStreamExact, Ordered, Covers
    <3>2. CASE d = c
      BY <1>1, <2>3, <2>7, <3>1, <3>2
    <3>3. CASE d # c
      BY <1>1, <2>2, <3>1, <3>3
    <3> QED BY <3>2, <3>3
  <2> QED BY <2>8, <2>9, <2>10, <2>11 DEF StreamInv
<1> QED BY <1>3, <1>4 DEF WriteReplay, ReplayCopy

-----------------------------------------------------------------------------
(* The live stream                                                         *)

\* StreamInv is inductive: every step of every thread keeps it.
LEMMA StreamInvStep ==
  TypeOK /\ TokenInv /\ ReplayIsRecentOutput /\ StreamInv /\ [Next]_vars
    => StreamInv'
<1> SUFFICES ASSUME TypeOK, TokenInv, ReplayIsRecentOutput, StreamInv, [Next]_vars
             PROVE  StreamInv'
  OBVIOUS
<1> USE DEF StreamInv, SentWasRead, ReplayOwed, ChunkContinues, LiveStreamExact
<1>1. ASSUME NEW c \in Conns, AttachRegister(c) PROVE StreamInv'
  BY <1>1, RegisterKeepsStreams
<1>2. ASSUME NEW c \in Conns, WriteReplay(c) PROVE StreamInv'
  BY <1>2, ReplayKeepsStreams
<1>3. ASSUME NEW n \in 1 .. MaxRead, ReaderRead(n) PROVE StreamInv'
  BY <1>3, ReadKeepsStreams
<1>4. CASE ReaderWrite
  BY <1>4, WriteKeepsStreams
<1>5. CASE ReaderDetach
  <2>1. /\ UNCHANGED <<token, thread, base, nread, snapshot, view>>
        /\ broker'.conn = NoConn /\ reader'.pc = "read"
    BY <1>5 DEF ReaderDetach, ReaderUnchanged, DetachCurrent, NoBroker, ReaderAtRead
  <2> QED BY <2>1, ConnsAssumption
<1>6. CASE ReaderEnd
  <2>1. /\ UNCHANGED <<broker, token, thread, base, nread, snapshot, view>>
        /\ reader.pc = "read" /\ reader'.pc = "done"
    BY <1>6 DEF ReaderEnd, ReaderUnchanged, TypeOK, ThreadTypes
  <2> QED BY <2>1
<1>7. CASE UNCHANGED vars
  BY <1>7 DEF vars
<1>8. CASE /\ Next /\ ~ReaderStep
           /\ ~(\E c \in Conns : AttachRegister(c) \/ WriteReplay(c))
  <2>1. /\ UNCHANGED <<reader, nread, base, view, token, snapshot>>
        /\ broker'.conn \in {broker.conn, NoConn}
        /\ \A c \in Conns : thread'[c] \in {"resize", "replay"}
                              => thread[c] \in {"resize", "replay"}
    BY <1>8, OtherStep DEF NoBroker
  <2>2. SentWasRead' /\ ReplayOwed'
    BY <2>1
  <2>3. ChunkContinues'
    BY <2>1, StreamTypes
  <2>4. LiveStreamExact'
    BY <2>1, ConnsAssumption
  <2> QED BY <2>2, <2>3, <2>4
<1> QED BY <1>1, <1>2, <1>3, <1>4, <1>5, <1>6, <1>7, <1>8 DEF ReaderStep

\* StreamInv holds in every state the daemon reaches.
LEMMA StreamInvariant == Spec => []StreamInv
<1>1. Init => StreamInv
  BY ConnsAssumption
  DEF Init, StreamInv, SentWasRead, ReplayOwed, ChunkContinues,
      LiveStreamExact, ReaderAtRead
<1> QED
  BY <1>1, StreamInvStep, TypeCorrect, TokenInvariant, ReplayCorrect, PTL
  DEF Spec

(***************************************************************************)
(* What a broker is sent beyond its replay is exactly the output since it  *)
(* attached, each byte once and in order, for every interleaving of        *)
(* spawn_pty_reader, attach_broker and the handlers that detach.           *)
(***************************************************************************)
THEOREM LiveStreamCorrect == Spec => []LiveStreamExact
<1>1. StreamInv => LiveStreamExact
  BY DEF StreamInv
<1> QED BY <1>1, StreamInvariant, PTL

-----------------------------------------------------------------------------
(* The refinement                                                          *)

\* Session's copy of the replay ring is what ReplayBuffer holds: the bytes of a
\* window are the last Capacity up to its end.
LEMMA WindowBytes ==
  ASSUME NEW s \in Seq(Nat), NEW end \in Nat, IsWindow(s, Capacity, end)
  PROVE  Bytes(s) = S!Recent(end)
<1>1. /\ Len(s) \in Nat /\ Capacity \in Nat \ {0}
      /\ Len(s) = IF end < Capacity THEN end ELSE Capacity
      /\ \A i \in 1 .. Len(s) : s[i] = end - Len(s) + i
  BY CapacityAssumption DEF IsWindow
<1>2. ASSUME NEW i \in 1 .. Len(s) PROVE s[i] \in S!Recent(end)
  <2>1. s[i] = end - Len(s) + i
    BY <1>1
  <2>2. s[i] \in 1 .. end /\ s[i] + Capacity > end
    BY <1>1, <2>1
  <2> QED BY <2>2 DEF S!Recent
<1>3. ASSUME NEW b \in S!Recent(end) PROVE b \in Bytes(s)
  <2>1. b \in 1 .. end /\ b + Capacity > end
    BY DEF S!Recent
  <2>2. b - (end - Len(s)) \in 1 .. Len(s)
    BY <1>1, <2>1
  <2>3. s[b - (end - Len(s))] = b
    BY <1>1, <2>1, <2>2
  <2> QED BY <2>2, <2>3 DEF Bytes
<1> QED BY <1>2, <1>3 DEF Bytes

\* A step that changes neither the streams nor the reader is none for Session,
\* or lets go of its holder.
LEMMA OtherImplements ==
  ASSUME UNCHANGED <<reader, nread, base, view, token>>,
         broker'.conn \in {broker.conn, NoConn}
  PROVE  S!LetGo \/ UNCHANGED S!vars
<1>1. /\ UNCHANGED <<nread, base, Due>>
      /\ \A c \in Conns : Past(c)' = Past(c) /\ Live(c)' = Live(c)
      /\ {c \in Conns : token[c] # 0}' = {c \in Conns : token[c] # 0}
  BY DEF Due, Past, Live, Bytes
<1>2. CASE broker'.conn = broker.conn
  BY <1>1, <1>2 DEF S!vars
<1>3. CASE broker'.conn = NoConn
  BY <1>1, <1>3 DEF S!LetGo
<1> QED BY <1>2, <1>3

\* AttachRegister is Join: nothing has been sent to the one who joins.
LEMMA RegisterImplements ==
  ASSUME TypeOK, TokenInv, StreamInv, NEW c \in Conns, AttachRegister(c)
  PROVE  S!Join(c)
<1>1. token[c] = 0 /\ Len(view[c]) = 0 /\ broker.conn = NoConn
  BY DEF AttachRegister, TokenInv, Handling, StreamInv, SentWasRead
<1>2. NextAttachToken # 0
  <2>1. NextAttachToken = attachToken + 1
    BY FreshToken DEF AttachRegister
  <2>2. attachToken \in Nat
    BY TokenModPositive DEF TypeOK, StateTypes
  <2> QED BY <2>1, <2>2
<1>3. /\ UNCHANGED <<reader, nread, view>>
      /\ broker'.conn = c
      /\ token' = [token EXCEPT ![c] = NextAttachToken]
      /\ base' = [base EXCEPT ![c] = nread]
  BY DEF AttachRegister
<1>4. \A d \in Conns : Past(d)' = Past(d) /\ Live(d)' = Live(d)
  <2> TAKE d \in Conns
  <2>1. CASE d = c
    <3>1. Bytes(view[c]) = {}
      BY <1>1 DEF Bytes
    <3> QED BY <1>3, <2>1, <3>1 DEF Past, Live
  <2>2. CASE d # c
    BY <1>3, <2>2, StreamTypes DEF Past, Live
  <2> QED BY <2>1, <2>2
<1>5. {d \in Conns : token[d] # 0}' = {d \in Conns : token[d] # 0} \cup {c}
  BY <1>2, <1>3, StreamTypes
<1>6. c \notin {d \in Conns : token[d] # 0}
  BY <1>1
<1>7. UNCHANGED Due
  BY <1>3 DEF Due
<1> QED BY <1>1, <1>3, <1>4, <1>5, <1>6, <1>7 DEF S!Join

\* WriteReplay is Replay, or nothing if the ring was empty or the peer is gone.
LEMMA ReplayImplements ==
  ASSUME TypeOK, StreamInv, NEW c \in Conns, WriteReplay(c)
  PROVE  S!Replay(c) \/ UNCHANGED S!vars
<1>1. UNCHANGED <<broker, token, base, nread, reader>> /\ thread[c] = "replay"
  BY DEF WriteReplay, HandlerUnchanged
<1>2. CASE UNCHANGED view
  BY <1>1, <1>2 DEF S!vars, Due, Past, Live, Bytes
<1>3. CASE WriteData(c, snapshot[c])
  <2>1. /\ view'[c] = view[c] \o snapshot[c]
        /\ \A d \in Conns \ {c} : view'[d] = view[d]
    BY <1>3, StreamTypes DEF WriteData
  <2>2. /\ view[c] \in Seq(Nat) /\ snapshot[c] \in Seq(Nat)
        /\ base[c] \in Nat
    BY StreamTypes
  <2>3. /\ token[c] # 0 /\ IsWindow(snapshot[c], Capacity, base[c])
        /\ \A i \in 1 .. Len(view[c]) : view[c][i] > base[c]
    BY <1>1 DEF StreamInv, ReplayOwed
  <2>4. Bytes(snapshot[c]) = S!Recent(base[c])
    BY <2>2, <2>3, WindowBytes
  <2>5. Bytes(view'[c]) = Bytes(view[c]) \cup S!Recent(base[c])
    BY <2>1, <2>2, <2>4, ConcatBytes
  <2>6. \A b \in S!Recent(base[c]) : b \in Nat /\ b <= base[c]
    BY <2>2 DEF S!Recent
  <2>7. \A b \in Bytes(view[c]) : b \in Nat /\ b > base[c]
    BY <2>2, <2>3 DEF Bytes
  <2>8. /\ Past(c) = {} /\ Past(c)' = S!Recent(base[c])
        /\ Live(c)' = Live(c)
    BY <1>1, <2>2, <2>5, <2>6, <2>7 DEF Past, Live
  <2>9. \A d \in Conns \ {c} : Past(d)' = Past(d) /\ Live(d)' = Live(d)
    BY <1>1, <2>1 DEF Past, Live
  <2>10. UNCHANGED <<Due, {d \in Conns : token[d] # 0}>>
    BY <1>1 DEF Due
  <2> QED BY <1>1, <2>3, <2>8, <2>9, <2>10 DEF S!Replay
<1> QED BY <1>2, <1>3 DEF WriteReplay, ReplayCopy

\* ReaderRead is Produce: what was read is due to whoever is registered.
LEMMA ReadImplements ==
  ASSUME TypeOK, NEW n \in 1 .. MaxRead, ReaderRead(n)
  PROVE  S!Produce
<1> DEFINE chunk == [i \in 1 .. n |-> nread + i]
<1>1. n \in Nat /\ nread \in Nat /\ MaxRead \in Nat
  BY BoundsAssumption, StreamTypes
<1>2. Len(chunk) = n /\ \A i \in 1 .. n : chunk[i] = nread + i
  BY <1>1, ChunkType
<1>3. /\ UNCHANGED <<broker, token, base, view>>
      /\ nread' = nread + n
      /\ reader.pc = "read"
      /\ reader' = Forward(chunk)
  BY DEF ReaderRead, ReaderUnchanged
<1> HIDE DEF chunk
<1>4. Due = S!NothingDue
  BY <1>3 DEF Due, S!NothingDue
<1>5. nread' \in nread + 1 .. nread + MaxRead
  BY <1>1, <1>3
<1>6. Bytes(chunk) = nread + 1 .. nread'
  <2>1. ASSUME NEW i \in 1 .. n PROVE chunk[i] \in nread + 1 .. nread'
    BY <1>1, <1>2, <1>3
  <2>2. ASSUME NEW b \in nread + 1 .. nread' PROVE b \in Bytes(chunk)
    <3>1. b - nread \in 1 .. n
      BY <1>1, <1>3
    <3>2. chunk[b - nread] = b
      BY <1>1, <1>2, <3>1
    <3> QED BY <1>2, <3>1, <3>2 DEF Bytes
  <2> QED BY <1>2, <2>1, <2>2 DEF Bytes
<1>7. Due' = IF broker.conn = NoConn THEN S!NothingDue
             ELSE [to |-> broker.conn, bytes |-> nread + 1 .. nread', lost |-> FALSE]
  <2>1. CASE broker.conn = NoConn
    BY <1>3, <1>4, <2>1 DEF Forward, Due
  <2>2. CASE broker.conn # NoConn
    <3>1. /\ reader'.pc = "write" /\ reader'.to = broker.conn
          /\ reader'.bytes = chunk
      BY <1>3, <2>2 DEF Forward, ForwardTo
    <3> QED BY <1>6, <2>2, <3>1 DEF Due
  <2> QED BY <2>1, <2>2
<1>8. \A c \in Conns : Past(c)' = Past(c) /\ Live(c)' = Live(c)
  BY <1>3 DEF Past, Live
<1> QED BY <1>3, <1>4, <1>5, <1>7, <1>8 DEF S!Produce

\* ReaderWrite is Deliver if the write succeeds, Lose if it fails.
LEMMA WriteImplements ==
  ASSUME TypeOK, StreamInv, ReaderWrite
  PROVE  S!Deliver \/ S!Lose
<1>1. /\ UNCHANGED <<broker, token, base, nread>>
      /\ reader.pc = "write"
  BY DEF ReaderWrite, ReaderUnchanged
<1>2. reader.to \in Conns /\ reader.to # NoConn /\ reader.bytes \in Seq(Nat)
  BY <1>1, StreamTypes
<1>3. Due.to = reader.to /\ Due.bytes = Bytes(reader.bytes)
  BY <1>1 DEF Due
<1>4. CASE reader' = AfterFailedWrite /\ UNCHANGED outVars
  <2>1. UNCHANGED view /\ reader'.pc = "detach"
    BY <1>4 DEF AfterFailedWrite
  <2>2. Due' = S!Lost
    BY <2>1 DEF Due, S!Lost
  <2>3. \A c \in Conns : Past(c)' = Past(c) /\ Live(c)' = Live(c)
    BY <1>1, <2>1 DEF Past, Live
  <2> QED BY <1>1, <1>2, <1>3, <2>2, <2>3 DEF S!Lose
<1>5. CASE WriteData(reader.to, reader.bytes) /\ reader' = ReaderAtRead
  <2>1. PICK c \in Conns : c = reader.to
    BY <1>2
  <2>2. /\ view'[c] = view[c] \o reader.bytes
        /\ \A d \in Conns \ {c} : view'[d] = view[d]
    BY <1>5, <2>1, StreamTypes DEF WriteData
  <2>3. view[c] \in Seq(Nat) /\ base[c] \in Nat /\ nread \in Nat
    BY StreamTypes
  <2>4. Bytes(view'[c]) = Bytes(view[c]) \cup Bytes(reader.bytes)
    BY <1>2, <2>2, <2>3, ConcatBytes
  <2>5. ASSUME NEW b \in Bytes(reader.bytes) PROVE b \in Nat /\ b > base[c]
    <3>1. PICK i \in 1 .. Len(reader.bytes) : b = reader.bytes[i]
      BY DEF Bytes
    <3>2. /\ base[c] <= nread - Len(reader.bytes)
          /\ reader.bytes[i] = nread - Len(reader.bytes) + i
      BY <1>1, <2>1 DEF StreamInv, ChunkContinues
    <3>3. Len(reader.bytes) \in Nat /\ reader.bytes[i] \in Nat
      BY <1>2
    <3> DEFINE m == nread - Len(reader.bytes)
    <3>4. m \in Int
      BY <2>3, <3>3
    <3>5. base[c] <= m /\ b = m + i /\ i \in Int /\ 1 <= i
      BY <3>1, <3>2, <3>3
    <3> HIDE DEF m
    <3> QED BY <2>3, <3>1, <3>3, <3>4, <3>5
  <2>6. Past(c)' = Past(c) /\ Live(c)' = Live(c) \cup Bytes(reader.bytes)
    BY <1>1, <2>3, <2>4, <2>5 DEF Past, Live
  <2>7. \A d \in Conns \ {c} : Past(d)' = Past(d) /\ Live(d)' = Live(d)
    BY <1>1, <2>2 DEF Past, Live
  <2>8. Due' = S!NothingDue
    BY <1>5 DEF ReaderAtRead, Due, S!NothingDue
  <2> QED BY <1>1, <1>2, <1>3, <2>1, <2>6, <2>7, <2>8 DEF S!Deliver
<1> QED BY <1>4, <1>5 DEF ReaderWrite

\* ReaderDetach is LetGo, after which nothing is lost any more.
LEMMA DetachImplements ==
  ASSUME ReaderDetach PROVE S!LetGo
<1>1. /\ UNCHANGED <<token, base, nread, view>>
      /\ broker'.conn = NoConn
      /\ reader.pc = "detach" /\ reader'.pc = "read"
  BY DEF ReaderDetach, ReaderUnchanged, DetachCurrent, NoBroker, ReaderAtRead
<1>2. Due = S!Lost /\ Due' = S!NothingDue
  BY <1>1 DEF Due, S!Lost, S!NothingDue
<1>3. \A c \in Conns : Past(c)' = Past(c) /\ Live(c)' = Live(c)
  BY <1>1 DEF Past, Live
<1> QED BY <1>1, <1>2, <1>3 DEF S!LetGo

\* Every step of the daemon is one of Session or none.
LEMMA StepImplements ==
  TypeOK /\ TokenInv /\ StreamInv /\ [Next]_vars => [S!Next]_(S!vars)
<1> SUFFICES ASSUME TypeOK, TokenInv, StreamInv, [Next]_vars
             PROVE  S!Next \/ UNCHANGED S!vars
  OBVIOUS
<1> USE DEF S!Next
<1>1. ASSUME NEW c \in Conns, AttachRegister(c) PROVE S!Next
  BY <1>1, RegisterImplements
<1>2. ASSUME NEW c \in Conns, WriteReplay(c)
      PROVE  S!Next \/ UNCHANGED S!vars
  BY <1>2, ReplayImplements
<1>3. ASSUME NEW n \in 1 .. MaxRead, ReaderRead(n) PROVE S!Next
  BY <1>3, ReadImplements
<1>4. CASE ReaderWrite
  BY <1>4, WriteImplements
<1>5. CASE ReaderDetach
  BY <1>5, DetachImplements
<1>6. CASE ReaderEnd
  <2>1. /\ UNCHANGED <<broker, token, base, nread, view>>
        /\ reader.pc = "read" /\ reader'.pc = "done"
    BY <1>6 DEF ReaderEnd, ReaderUnchanged, TypeOK, ThreadTypes
  <2>2. Due' = Due
    BY <2>1 DEF Due
  <2> QED BY <2>1, <2>2 DEF S!vars, Past, Live
<1>7. CASE UNCHANGED vars
  BY <1>7 DEF vars, S!vars, Due, Past, Live
<1>8. CASE /\ Next /\ ~ReaderStep
           /\ ~(\E c \in Conns : AttachRegister(c) \/ WriteReplay(c))
  <2>1. /\ UNCHANGED <<reader, nread, base, view, token>>
        /\ broker'.conn \in {broker.conn, NoConn}
    BY <1>8, OtherStep DEF NoBroker
  <2> QED BY <2>1, OtherImplements
<1> QED BY <1>1, <1>2, <1>3, <1>4, <1>5, <1>6, <1>7, <1>8 DEF ReaderStep

(***************************************************************************)
(* The daemon implements Session: however its threads interleave and its   *)
(* peers behave, each broker that attaches is given the recent output      *)
(* once and every byte read from the PTY while it is registered, and one   *)
(* whose output was lost is detached before there is more.                 *)
(***************************************************************************)
THEOREM DaemonImplementsSession == Spec => ImplementsSession
<1>1. Init => S!Init
  <2> SUFFICES ASSUME Init PROVE S!Init
    OBVIOUS
  <2>1. /\ nread = 0 /\ broker.conn = NoConn /\ reader.pc = "read"
        /\ base = [c \in Conns |-> 0]
        /\ \A c \in Conns : token[c] = 0 /\ Len(view[c]) = 0
    BY DEF Init, NoBroker, ReaderAtRead
  <2>2. \A c \in Conns : Bytes(view[c]) = {}
    BY <2>1 DEF Bytes
  <2>3. \A c \in Conns : Past(c) = {} /\ Live(c) = {}
    BY <2>2 DEF Past, Live
  <2>4. Due = S!NothingDue
    BY <2>1 DEF Due, S!NothingDue
  <2> QED BY <2>1, <2>3, <2>4 DEF S!Init
<1> QED
  BY <1>1, StepImplements, TypeCorrect, TokenInvariant, StreamInvariant, PTL
  DEF Spec, ImplementsSession, S!Spec

-----------------------------------------------------------------------------
(* Clients that are told to exit                                           *)

\* Connections a DETACH handler has taken out of the state.
Evicted(c) == \E d \in Conns : thread[d] = "evict" /\ target[d] = c

\* ToldClientNotRegistered is not inductive: between the critical section of a
\* DETACH and its write the broker must not register again, which it cannot
\* because a connection attaches once.
ToldInv ==
  \A c \in Conns : Told(c) \/ Evicted(c) => token[c] # 0 /\ broker.conn # c

\* Only CLIENT_SHOULD_EXIT tells a client to exit.
LEMMA ToldByWrite ==
  ASSUME TypeOK, NEW c \in Conns, NEW k,
         sent' = [sent EXCEPT ![c] = Append(@, k)],
         NEW d \in Conns, Told(d)'
  PROVE  Told(d) \/ (d = c /\ k = "CLIENT_SHOULD_EXIT")
<1>1. sent[c] \in Seq(ReplyKinds) /\ sent[d] \in Seq(ReplyKinds)
  BY DEF TypeOK, SocketTypes
<1>2. CASE d # c
  <2>1. sent'[d] = sent[d]
    BY <1>2 DEF TypeOK, SocketTypes
  <2> QED BY <2>1 DEF Told
<1>3. CASE d = c
  <2>1. sent'[c] = Append(sent[c], k)
    BY DEF TypeOK, SocketTypes
  <2>2. PICK i \in 1 .. Len(sent'[c]) : sent'[c][i] = "CLIENT_SHOULD_EXIT"
    BY <1>3 DEF Told
  <2>3. Len(sent'[c]) = Len(sent[c]) + 1 /\ Len(sent[c]) \in Nat
    BY <1>1, <2>1
  <2>4. CASE i \in 1 .. Len(sent[c])
    <3>1. sent[c][i] = "CLIENT_SHOULD_EXIT"
      BY <1>1, <2>1, <2>2, <2>4
    <3> QED BY <1>3, <2>4, <3>1 DEF Told
  <2>5. CASE i = Len(sent[c]) + 1
    BY <1>1, <1>3, <2>1, <2>2, <2>5
  <2> QED BY <2>3, <2>4, <2>5
<1> QED BY <1>2, <1>3

\* A client is told by the handler that evicted it, and evicted by the handler
\* that takes it out of the state.
LEMMA ToldStep ==
  ASSUME TypeOK, Next, NEW c \in Conns
  PROVE  /\ Told(c)' => Told(c) \/ Evicted(c)
         /\ Evicted(c)' => Evicted(c) \/ (broker.conn = c /\ broker'.conn = NoConn)
<1> DEFINE Goal ==
      /\ Told(c)' => Told(c) \/ Evicted(c)
      /\ Evicted(c)' => Evicted(c) \/ (broker.conn = c /\ broker'.conn = NoConn)
<1> SUFFICES Goal
  OBVIOUS
<1>0. /\ thread \in [Conns -> ThreadStates] /\ target \in [Conns -> NoOr(Conns)]
      /\ NoConn \notin Conns
  BY ConnsAssumption DEF TypeOK, ThreadTypes, LocalTypes
<1>1. CASE MainStep \/ AcceptError \/ ShellStep
  <2>1. UNCHANGED <<sent, target>>
    BY <1>1
    DEF MainStep, CheckShutdown, AcceptNone, MainExit, AcceptConn, AcceptError,
        MainUnchanged, ShellStep, ShellOutput, ShellInput, ShellExit,
        ShellVarsOnly
  <2>2. \A d \in Conns : thread'[d] = "evict" => thread[d] = "evict"
    BY <1>0, <1>1
    DEF MainStep, CheckShutdown, AcceptNone, MainExit, AcceptConn, AcceptError,
        MainUnchanged, ShellStep, ShellOutput, ShellInput, ShellExit,
        ShellVarsOnly, Goto
  <2> QED BY <2>1, <2>2 DEF Told, Evicted
<1>2. CASE WaiterStep
  <2>1. UNCHANGED <<thread, target>>
    BY <1>2 DEF WaiterStep, WaiterReap, WaiterWrite, WaiterUnlink, WaiterUnchanged
  <2>2. Told(c)' => Told(c)
    <3>1. CASE UNCHANGED sent
      BY <3>1 DEF Told
    <3>2. CASE waiter.pc = "write" /\ Write(waiter.to, "EXIT_STATUS")
      <4>1. PICK d \in Conns : d = waiter.to
        BY <3>2 DEF TypeOK, ThreadTypes
      <4>2. sent' = [sent EXCEPT ![d] = Append(@, "EXIT_STATUS")]
        BY <3>2, <4>1 DEF Write
      <4> QED BY <4>2, ToldByWrite
    <3> QED BY <1>2, <3>1, <3>2 DEF WaiterStep, WaiterReap, WaiterWrite, WaiterUnlink
  <2> QED BY <2>1, <2>2 DEF Evicted
<1>3. CASE ReaderStep
  <2>1. UNCHANGED <<thread, target>>
    BY <1>3 DEF ReaderStep, ReaderRead, ReaderWrite, ReaderDetach, ReaderEnd,
                ReaderUnchanged
  <2>2. Told(c)' => Told(c)
    <3>1. CASE UNCHANGED sent
      BY <3>1 DEF Told
    <3>2. CASE reader.pc = "write" /\ WriteData(reader.to, reader.bytes)
      <4>1. PICK d \in Conns : d = reader.to
        BY <3>2 DEF TypeOK, ThreadTypes
      <4>2. sent' = [sent EXCEPT ![d] = Append(@, "PTY_DATA")]
        BY <3>2, <4>1 DEF WriteData
      <4> QED BY <4>2, ToldByWrite
    <3> QED BY <1>3, <3>1, <3>2
            DEF ReaderStep, ReaderRead, ReaderWrite, ReaderDetach, ReaderEnd
  <2> QED BY <2>1, <2>2 DEF Evicted
<1>4. ASSUME NEW d \in Conns, PeerStep(d) PROVE Goal
  <2>1. UNCHANGED <<sent, target>>
    BY <1>4 DEF PeerStep, PeerConnect, PeerShutdown, PeerClose, PeerRead
  <2>2. \A e \in Conns : thread'[e] = "evict" => thread[e] = "evict"
    BY <1>0, <1>4
    DEF PeerStep, PeerConnect, PeerShutdown, PeerClose, PeerRead, Goto
  <2> QED BY <2>1, <2>2 DEF Told, Evicted
<1>5. ASSUME NEW d \in Conns, FrameStep(d) PROVE Goal
  <2>1. Told(c)' => Told(c)
    <3>1. CASE UNCHANGED sent
      BY <3>1 DEF Told
    <3>2. CASE Write(d, "CAPABILITIES")
      BY <3>2, ToldByWrite DEF Write
    <3> QED
      BY <1>5, <3>1, <3>2
      DEF FrameStep, HandleCapabilities, HandleInitialWindowSize, HandleInfo,
          HandleDetach, HandleAttach, HandleUnknown, HandleOther, AttachedData,
          AttachedWindowSize, AttachedDetach
  <2>2. CASE HandleDetach(d)
    <3>1. /\ thread' = [thread EXCEPT ![d] =
                          IF broker.conn = NoConn THEN "done" ELSE "evict"]
          /\ target' = [target EXCEPT ![d] = broker.conn]
          /\ broker'.conn = NoConn
      BY <2>2 DEF HandleDetach, Goto, DetachCurrent, NoBroker
    <3>2. Evicted(c)' => Evicted(c) \/ broker.conn = c
      BY <1>0, <3>1 DEF Evicted
    <3> QED BY <2>1, <3>1, <3>2
  <2>3. CASE ~HandleDetach(d)
    <3>1. /\ \A e \in Conns : thread'[e] = "evict" => thread[e] = "evict"
          /\ \A e \in Conns : thread[e] = "evict" => target'[e] = target[e]
      BY <1>0, <1>5, <2>3
      DEF FrameStep, HandleCapabilities, HandleInitialWindowSize, HandleInfo,
          HandleAttach, HandleUnknown, HandleOther, AttachedData,
          AttachedWindowSize, AttachedDetach, Quiet, Goto
    <3> QED BY <2>1, <3>1 DEF Evicted
  <2> QED BY <2>2, <2>3
<1>6. ASSUME NEW d \in Conns, ThreadStep(d) PROVE Goal
  <2>1. Told(c)' => Told(c) \/ Evicted(c)
    <3>1. CASE UNCHANGED sent
      BY <3>1 DEF Told
    <3>2. ASSUME NEW k \in ReplyKinds \ {"CLIENT_SHOULD_EXIT"},
                 sent' = [sent EXCEPT ![d] = Append(@, k)]
          PROVE  Told(c)' => Told(c)
      BY <3>2, ToldByWrite
    <3>3. CASE thread[d] = "evict" /\ Write(target[d], "CLIENT_SHOULD_EXIT")
      <4>1. target[d] \in Conns
        BY <3>3 DEF TypeOK, LocalTypes
      <4> QED BY <3>3, <4>1, ToldByWrite DEF Write, Evicted
    <3> QED
      BY <1>6, <3>1, <3>2, <3>3
      DEF ThreadStep, RequestEnd, WriteInfo, WriteShouldExit, AttachBusy,
          AttachRegister, ResizeInitial, WriteReplay, AttachedEnd, WriteInput,
          Finish, Write, WriteData, ReplyKinds
  <2>2. /\ \A e \in Conns : thread'[e] = "evict" => thread[e] = "evict"
        /\ \A e \in Conns : thread'[e] = "evict" => target'[e] = target[e]
    BY <1>0, <1>6
    DEF ThreadStep, RequestEnd, WriteInfo, WriteShouldExit, AttachBusy,
        AttachRegister, ResizeInitial, WriteReplay, AttachedEnd, WriteInput,
        Finish, Quiet, Goto
  <2> QED BY <2>1, <2>2 DEF Evicted
<1> QED BY <1>1, <1>2, <1>3, <1>4, <1>5, <1>6 DEF Next

(***************************************************************************)
(* A client that was told to exit is not the registered broker: it was     *)
(* taken out of the state before it was told and never comes back.         *)
(***************************************************************************)
THEOREM ToldClientsAreOut == Spec => []ToldClientNotRegistered
<1>1. Init => ToldInv
  BY DEF Init, ToldInv, Told, Evicted
<1>2. TypeOK /\ TokenInv /\ ToldInv /\ [Next]_vars => ToldInv'
  <2> SUFFICES ASSUME TypeOK, TokenInv, ToldInv, [Next]_vars, NEW c \in Conns,
                      Told(c)' \/ Evicted(c)'
               PROVE  token'[c] # 0 /\ broker'.conn # c
    BY DEF ToldInv
  <2>1. CASE UNCHANGED vars
    BY <2>1 DEF vars, ToldInv, Told, Evicted
  <2>2. CASE Next
    <3>1. Told(c) \/ Evicted(c) \/ (broker.conn = c /\ broker'.conn = NoConn)
      BY <2>2, ToldStep
    <3>2. token[c] # 0 /\ (broker.conn # c \/ broker'.conn = NoConn)
      BY <3>1, ConnsAssumption DEF ToldInv, TokenInv, RegistrationIsServed
    <3>3. ASSUME NEW d \in Conns, AttachRegister(d)
          PROVE  token'[c] # 0 /\ broker'.conn # c
      <4>1. token[d] = 0
        BY <3>3 DEF AttachRegister, TokenInv, Handling
      <4>2. c # d
        BY <3>2, <4>1
      <4> QED BY <3>2, <3>3, <4>2 DEF AttachRegister, TypeOK, LocalTypes
    <3>4. CASE ~(\E d \in Conns : AttachRegister(d))
      <4>1. token' = token /\ broker' \in {broker, NoBroker}
        BY <2>2, <3>4, RegistrationStep
      <4> QED BY <3>2, <4>1, ConnsAssumption DEF NoBroker
    <3> QED BY <3>3, <3>4
  <2> QED BY <2>1, <2>2
<1>3. ToldInv => ToldClientNotRegistered
  BY DEF ToldInv, ToldClientNotRegistered
<1> QED BY <1>1, <1>2, <1>3, TypeCorrect, TokenInvariant, PTL DEF Spec

=============================================================================
