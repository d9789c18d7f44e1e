-------------------------- MODULE AttachedIoProofs --------------------------
(* Theorems about AttachedIo, for any number of attempts, keys and frames. *)
EXTENDS AttachedIo, TLAPS

Event == [kind : EventKinds, of : Attempts]

\* The acknowledgement and the end of the stdin thread are told exactly, the
\* request is up from pause to resume, and the terminal's mode follows them.
Handshake ==
  /\ pauseAcknowledged <=> reader = "parked"
  /\ readerFinished <=> reader = "done"
  /\ reader = "none" => ~pauseRequested /\ main \in {"setup", "sleep", "ended"}
  /\ main \in {"attached", "lost", "resuming"} => ~pauseRequested
  /\ main \in {"pausing", "paused", "release"} => pauseRequested
  /\ main \in {"setup", "sleep"} /\ reader # "none" => pauseRequested
  /\ main \in {"paused", "release"} => reader \in {"parked", "done"}
  /\ main \in {"setup", "sleep"} =>
       ~rawMode /\ reader \in {"none", "parked", "done"}
  /\ main \in {"release", "resuming", "attached", "lost", "pausing", "paused"}
       => rawMode
  /\ reader \in {"poll", "read"} => rawMode

\* Input in the queue is of this attempt from the discard of resume on.
InputFresh ==
  main \notin {"sleep", "setup", "ended"} => \A i \in 1 .. Len(queue) :
    queue[i].kind = "Stdin" => queue[i].of = attempt

\* An end in the queue is of a connection that is over, and the connection of
\* an attempt is up only from its start on.
EndsAreOver ==
  /\ \A i \in 1 .. Len(queue) : queue[i].kind \in {"EOF", "SESSION_BUSY"}
       => conn[queue[i].of] \in {"over", "closed"}
  /\ \A a \in Attempts : a > attempt => conn[a] = "none"
  /\ main \in {"setup", "release", "resuming"} => conn[attempt] = "none"
  /\ reader = "none" => queue = << >> /\ \A a \in Attempts : conn[a] = "none"

IInv == TypeOK /\ Handshake /\ InputFresh /\ EndsAreOver

-----------------------------------------------------------------------------
(* The queue                                                               *)

\* Appending an event keeps the others in place.
LEMMA AppendElements ==
  ASSUME NEW q \in Seq(Event), NEW e \in Event
  PROVE  /\ Append(q, e) \in Seq(Event)
         /\ \A i \in 1 .. Len(Append(q, e)) :
              (i \in 1 .. Len(q) /\ Append(q, e)[i] = q[i]) \/ Append(q, e)[i] = e
  OBVIOUS

\* Taking the first event shifts the others.
LEMMA TailElements ==
  ASSUME NEW q \in Seq(Event), q # << >>
  PROVE  /\ Tail(q) \in Seq(Event) /\ 1 \in 1 .. Len(q) /\ Head(q) = q[1]
         /\ \A i \in 1 .. Len(Tail(q)) :
              i + 1 \in 1 .. Len(q) /\ Tail(q)[i] = q[i + 1]
  OBVIOUS

-----------------------------------------------------------------------------
(* The three parts of the invariant, step by step                          *)

\* The types hold initially and in every step.
LEMMA TypeInit == Init => TypeOK
<1> SUFFICES ASSUME Init PROVE TypeOK
  OBVIOUS
<1>1. queue \in Seq([kind : EventKinds, of : Attempts])
  BY DEF Init
<1>2. conn \in [Attempts -> {"none", "up", "over", "closed"}]
  BY DEF Init
<1>3. attempt \in Attempts /\ frames \in 0 .. MaxFrames /\ keys \in 0 .. MaxKeys
  BY BoundsAssumption DEF Init, Attempts
<1> QED BY <1>1, <1>2, <1>3 DEF Init, TypeOK

LEMMA TypeStep == TypeOK /\ [Next]_vars => TypeOK'
<1> SUFFICES ASSUME TypeOK, [Next]_vars PROVE TypeOK'
  OBVIOUS
<1> USE BoundsAssumption
<1>0. /\ Seq(Event) = Seq([kind : EventKinds, of : Attempts])
      /\ queue \in Seq(Event)
  BY DEF Event, TypeOK
<1>1. ASSUME NEW kind \in EventKinds, NEW a \in Attempts, Send(kind, a)
      PROVE  queue' \in Seq([kind : EventKinds, of : Attempts])
  <2>1. [kind |-> kind, of |-> a] \in Event
    BY DEF Event
  <2> QED BY <1>0, <1>1, <2>1, AppendElements DEF Send
<1>2. CASE MainStep
  <2>1. CASE HandleEvent
    <3>1. Tail(queue) \in Seq([kind : EventKinds, of : Attempts])
      BY <1>0, <2>1, TailElements DEF HandleEvent
    <3> QED BY <2>1, <3>1 DEF HandleEvent, AfterEvent, TypeOK, controlVars, ttyVars
  <2>2. CASE CreateIo
    BY <2>2 DEF CreateIo, StartAttached, TypeOK, controlVars
  <2>5. CASE ResumeRaw \/ PauseDone
    <3>1. << >> \in Seq([kind : EventKinds, of : Attempts])
      OBVIOUS
    <3> QED BY <2>5, <3>1 DEF Discard, ResumeRaw, PauseDone, TypeOK, controlVars
  <2>6. CASE Retry
    BY <2>6 DEF Retry, TypeOK, controlVars, ttyVars, Attempts
  <2>7. CASE AttemptFails \/ WriteFails \/ TerminalFails
    BY <2>7, ZenonT(30)
    DEF AttemptFails, WriteFails, TerminalFails, TypeOK, controlVars, ttyVars
  <2>3. CASE ResumeRelease \/ ResumeWoken
    BY <2>3 DEF ResumeRelease, ResumeWoken, StartAttached, NotifyAll, WaitAgain,
       NotifyAllAndWait, TypeOK, ttyVars
  <2>4. CASE Pause \/ PauseWoken
    BY <2>4 DEF Pause, PauseWoken, NotifyAll, WaitAgain, NotifyAllAndWait, TypeOK,
       ttyVars
  <2> QED BY <1>2, <2>1, <2>2, <2>3, <2>4, <2>5, <2>6, <2>7 DEF MainStep
<1>3. CASE ReaderStep
  <2>1. CASE ReaderCheck \/ ReaderWoken \/ ReaderFinish
    BY <2>1, ZenonT(30)
    DEF ReaderCheck, ReaderWoken, ReaderFinish, NotifyUnparked, NotifyAll,
        WaitAgain, NotifyAllAndWait, TypeOK, ttyVars
  <2>2. CASE ReaderPoll
    <3>1. queue' \in Seq([kind : EventKinds, of : Attempts])
      BY <1>1, <2>2 DEF ReaderPoll, TypeOK, EventKinds
    <3> QED BY <2>2, <3>1 DEF ReaderPoll, TypeOK, controlVars, ttyVars
  <2>3. CASE ReaderRead
    <3>1. queue' \in Seq([kind : EventKinds, of : Attempts])
      BY <1>1, <2>3 DEF ReaderRead, TypeOK, EventKinds
    <3>2. tty' \in Nat
      BY <2>3 DEF ReaderRead, TypeOK
    <3> QED BY <2>3, <3>1, <3>2 DEF ReaderRead, TypeOK, controlVars
  <2> QED BY <1>3, <2>1, <2>2, <2>3 DEF ReaderStep
<1>4. CASE EnvStep
  <2>1. CASE PromptReads
    BY <2>1 DEF PromptReads, TypeOK, controlVars
  <2>4. CASE Type
    BY <2>4 DEF Type, TypeOK, controlVars
  <2>5. CASE Hangup
    BY <2>5 DEF Hangup, TypeOK, controlVars
  <2>2. ASSUME NEW a \in Attempts, BrokerFrame(a) PROVE TypeOK'
    <3>1. queue' \in Seq([kind : EventKinds, of : Attempts])
      BY <1>1, <2>2 DEF BrokerFrame, EventKinds
    <3>2. conn' \in [Attempts -> {"none", "up", "over", "closed"}]
      BY <2>2 DEF BrokerFrame, TypeOK
    <3> QED BY <2>2, <3>1, <3>2 DEF BrokerFrame, TypeOK, controlVars, ttyVars
  <2>3. ASSUME NEW a \in Attempts, BrokerEof(a) PROVE TypeOK'
    <3>1. queue' \in Seq([kind : EventKinds, of : Attempts])
      BY <1>1, <2>3 DEF BrokerEof, EventKinds
    <3>2. conn' \in [Attempts -> {"none", "up", "over", "closed"}]
      BY <2>3 DEF BrokerEof, TypeOK
    <3> QED BY <2>3, <3>1, <3>2 DEF BrokerEof, TypeOK, controlVars, ttyVars
  <2>6. ASSUME NEW a \in Attempts, ConnectionDies(a) PROVE TypeOK'
    BY <2>6 DEF ConnectionDies, TypeOK, controlVars, ttyVars
  <2> QED BY <1>4, <2>1, <2>2, <2>3, <2>4, <2>5, <2>6 DEF EnvStep
<1>5. CASE SpuriousWake
  BY <1>5 DEF SpuriousWake, TypeOK, ttyVars
<1>6. CASE UNCHANGED vars
  BY <1>6 DEF vars, TypeOK, controlVars, ttyVars
<1> QED BY <1>2, <1>3, <1>4, <1>5, <1>6 DEF Next

\* The handshake is kept by every step, together with the types.
LEMMA HandshakeStep == TypeOK /\ Handshake /\ [Next]_vars => Handshake'
<1> SUFFICES ASSUME TypeOK, Handshake, [Next]_vars PROVE Handshake'
  OBVIOUS
<1>1. CASE CreateIo
  BY <1>1 DEF CreateIo, StartAttached, Handshake, controlVars, TypeOK
<1>2. CASE ResumeRaw
  BY <1>2 DEF ResumeRaw, Handshake, controlVars, TypeOK
<1>3. CASE ResumeRelease
  BY <1>3 DEF ResumeRelease, ResumeSatisfied, StartAttached, Handshake, ttyVars, TypeOK
<1>4. CASE ResumeWoken
  BY <1>4 DEF ResumeWoken, ResumeSatisfied, StartAttached, Handshake, ttyVars, TypeOK
<1>5. CASE Pause
  BY <1>5 DEF Pause, PauseSatisfied, Handshake, ttyVars, TypeOK
<1>6. CASE PauseWoken
  BY <1>6 DEF PauseWoken, PauseSatisfied, Handshake, ttyVars, TypeOK
<1>7. CASE PauseDone
  BY <1>7 DEF PauseDone, Handshake, controlVars, TypeOK
<1>8. CASE Retry \/ AttemptFails \/ WriteFails \/ TerminalFails
  BY <1>8 DEF Retry, AttemptFails, WriteFails, TerminalFails, Handshake, controlVars,
     ttyVars, TypeOK
<1>9. CASE HandleEvent
  BY <1>9 DEF HandleEvent, AfterEvent, Handshake, controlVars, ttyVars, TypeOK
<1>10. CASE main # "ended" /\ (ReaderCheck \/ ReaderWoken)
  BY <1>10 DEF ReaderCheck, ReaderWoken, Handshake, ttyVars, TypeOK
<1>11. CASE ReaderPoll \/ ReaderRead
  BY <1>11 DEF ReaderPoll, ReaderRead, Handshake, controlVars, ttyVars, TypeOK
<1>12. CASE ReaderFinish
  BY <1>12 DEF ReaderFinish, Handshake, ttyVars, TypeOK
<1>13. CASE EnvStep
  BY <1>13 DEF EnvStep, BrokerFrame, ConnectionDies, BrokerEof, PromptReads, Type,
     Hangup, Handshake, controlVars, ttyVars, TypeOK
<1>14. CASE SpuriousWake \/ UNCHANGED vars
  BY <1>14 DEF SpuriousWake, vars, Handshake, controlVars, ttyVars, TypeOK
<1> QED
  BY <1>1, <1>2, <1>3, <1>4, <1>5, <1>6, <1>7, <1>8, <1>9, <1>10, <1>11, <1>12,
     <1>13, <1>14 DEF Next, MainStep, ReaderStep

\* Input of this attempt stays input of this attempt.
LEMMA InputFreshStep ==
  TypeOK /\ EndsAreOver /\ InputFresh /\ [Next]_vars => InputFresh'
<1> SUFFICES ASSUME TypeOK, EndsAreOver, InputFresh, [Next]_vars PROVE InputFresh'
  OBVIOUS
<1>0. queue \in Seq(Event) /\ attempt \in Attempts
  BY DEF Event, TypeOK
<1>1. ASSUME NEW kind \in EventKinds, NEW a \in Attempts, Send(kind, a),
             kind = "Stdin" => a = attempt, UNCHANGED <<main, attempt>>
      PROVE  InputFresh'
  <2>1. [kind |-> kind, of |-> a] \in Event
    BY DEF Event
  <2> QED BY <1>0, <1>1, <2>1, AppendElements DEF Send, InputFresh
<1>2. CASE HandleEvent
  BY <1>0, <1>2, TailElements DEF HandleEvent, InputFresh
<1>3. CASE ResumeRaw \/ PauseDone
  BY <1>3 DEF ResumeRaw, PauseDone, Discard, InputFresh
<1>4. CASE CreateIo
  BY <1>4 DEF CreateIo, StartAttached, EndsAreOver, InputFresh
<1>5. CASE ResumeRelease \/ ResumeWoken \/ Pause \/ PauseWoken
  BY <1>5 DEF ResumeRelease, ResumeWoken, Pause, PauseWoken, StartAttached, InputFresh
<1>6. CASE Retry \/ AttemptFails \/ WriteFails \/ TerminalFails
  BY <1>6 DEF Retry, AttemptFails, WriteFails, TerminalFails, InputFresh
<1>7. CASE ReaderPoll \/ ReaderRead
  BY <1>0, <1>1, <1>7 DEF ReaderPoll, ReaderRead, EventKinds, InputFresh
<1>8. CASE ReaderCheck \/ ReaderWoken \/ ReaderFinish
  BY <1>8 DEF ReaderCheck, ReaderWoken, ReaderFinish, InputFresh
<1>9. CASE EnvStep
  <2>1. ASSUME NEW a \in Attempts, BrokerFrame(a) \/ BrokerEof(a) PROVE InputFresh'
    BY <1>1, <2>1 DEF BrokerFrame, BrokerEof, EventKinds
  <2>2. ASSUME NEW a \in Attempts, ConnectionDies(a) PROVE InputFresh'
    BY <2>2 DEF ConnectionDies, InputFresh
  <2>3. CASE PromptReads \/ Type \/ Hangup
    BY <2>3 DEF PromptReads, Type, Hangup, InputFresh
  <2> QED BY <1>9, <2>1, <2>2, <2>3 DEF EnvStep
<1>10. CASE SpuriousWake \/ UNCHANGED vars
  BY <1>10 DEF SpuriousWake, vars, InputFresh
<1> QED
  BY <1>2, <1>3, <1>4, <1>5, <1>6, <1>7, <1>8, <1>9, <1>10
     DEF Next, MainStep, ReaderStep

\* Ends in the queue stay ends of connections that are over.
LEMMA EndsAreOverStep ==
  TypeOK /\ Handshake /\ EndsAreOver /\ [Next]_vars => EndsAreOver'
<1> SUFFICES ASSUME TypeOK, Handshake, EndsAreOver, [Next]_vars PROVE EndsAreOver'
  OBVIOUS
<1>0. /\ queue \in Seq(Event) /\ attempt \in Attempts
      /\ \A i \in 1 .. Len(queue) : queue[i] \in Event /\ queue[i].of \in Attempts
  <2>1. queue \in Seq(Event) /\ attempt \in Attempts
    BY DEF Event, TypeOK
  <2>2. \A i \in 1 .. Len(queue) : queue[i] \in Event
    BY <2>1
  <2> QED BY <2>1, <2>2 DEF Event
<1>1. CASE HandleEvent
  BY <1>0, <1>1, TailElements DEF HandleEvent, AfterEvent, EndsAreOver
<1>2. CASE ResumeRaw \/ PauseDone
  BY <1>2 DEF ResumeRaw, PauseDone, Discard, EndsAreOver
<1>3. CASE CreateIo \/ ResumeRelease \/ ResumeWoken
  <2>1. /\ conn[attempt] = "none" /\ queue' = queue /\ attempt' = attempt
        /\ reader' # "none"
    BY <1>3 DEF CreateIo, ResumeRelease, ResumeWoken, EndsAreOver, Handshake
  <2>2. CASE StartAttached
    <3>1. ASSUME NEW a \in Attempts PROVE conn'[a] = IF a = attempt THEN "up" ELSE conn[a]
      BY <2>2 DEF StartAttached, TypeOK
    <3> QED
      BY <1>0, <2>1, <2>2, <3>1 DEF StartAttached, EndsAreOver, Attempts
  <2>3. CASE conn' = conn /\ main' = "resuming"
    BY <2>1, <2>3 DEF EndsAreOver
  <2> QED
    BY <1>3, <2>2, <2>3 DEF CreateIo, ResumeRelease, ResumeWoken
<1>4. CASE Pause \/ PauseWoken
  BY <1>4 DEF Pause, PauseWoken, EndsAreOver
<1>5. CASE Retry
  BY <1>0, <1>5, BoundsAssumption DEF Retry, EndsAreOver, Attempts
<1>6. CASE AttemptFails \/ WriteFails \/ TerminalFails
  BY <1>6 DEF AttemptFails, WriteFails, TerminalFails, EndsAreOver
<1>7. CASE ReaderPoll \/ ReaderRead
  <2>1. ASSUME NEW kind \in {"Stdin", "StdinEof", "StdinError"}, Send(kind, attempt),
               UNCHANGED <<main, attempt, conn>>, reader' # "none"
        PROVE  EndsAreOver'
    <3>1. [kind |-> kind, of |-> attempt] \in Event
      BY <1>0 DEF Event, EventKinds
    <3> QED BY <1>0, <2>1, <3>1, AppendElements DEF Send, EndsAreOver
  <2> QED BY <1>7, <2>1 DEF ReaderPoll, ReaderRead, EndsAreOver
<1>8. CASE ReaderCheck \/ ReaderWoken \/ ReaderFinish
  BY <1>8 DEF ReaderCheck, ReaderWoken, ReaderFinish, EndsAreOver
<1>9. CASE EnvStep
  <2>1. ASSUME NEW a \in Attempts, NEW kind \in EventKinds, Send(kind, a),
               conn[a] # "none", UNCHANGED <<main, attempt, reader>>,
               \/ conn' = conn /\ kind = "data"
               \/ \E end \in {"over", "closed"} : conn' = [conn EXCEPT ![a] = end]
        PROVE  EndsAreOver'
    <3>1. [kind |-> kind, of |-> a] \in Event
      BY DEF Event
    <3> QED BY <1>0, <2>1, <3>1, AppendElements, SMTT(30)
            DEF Send, EndsAreOver, TypeOK
  <2>2. ASSUME NEW a \in Attempts, BrokerFrame(a) \/ BrokerEof(a) PROVE EndsAreOver'
    BY <2>1, <2>2 DEF BrokerFrame, BrokerEof, EventKinds
  <2>3. ASSUME NEW a \in Attempts, ConnectionDies(a) PROVE EndsAreOver'
    BY <1>0, <2>3 DEF ConnectionDies, EndsAreOver, TypeOK
  <2>4. CASE PromptReads \/ Type \/ Hangup
    BY <2>4 DEF PromptReads, Type, Hangup, EndsAreOver
  <2> QED BY <1>9, <2>2, <2>3, <2>4 DEF EnvStep
<1>10. CASE SpuriousWake \/ UNCHANGED vars
  BY <1>10 DEF SpuriousWake, vars, EndsAreOver
<1> QED
  BY <1>1, <1>2, <1>3, <1>4, <1>5, <1>6, <1>7, <1>8, <1>9, <1>10
     DEF Next, MainStep, ReaderStep

-----------------------------------------------------------------------------
(* The theorems                                                            *)

\* The inductive invariant holds of every behaviour.
LEMMA Invariant == Spec => []IInv
<1>1. Init => IInv
  <2> SUFFICES ASSUME Init PROVE IInv
    OBVIOUS
  <2>1. Handshake /\ InputFresh /\ EndsAreOver
    BY BoundsAssumption DEF Init, Handshake, InputFresh, EndsAreOver, Attempts
  <2> QED BY <2>1, TypeInit DEF IInv
<1>2. IInv /\ [Next]_vars => IInv'
  BY TypeStep, HandshakeStep, InputFreshStep, EndsAreOverStep DEF IInv
<1> QED BY <1>1, <1>2, PTL DEF Spec

\* Every variable of the client keeps its type.
THEOREM TypeCorrect == Spec => []TypeOK
<1>1. IInv => TypeOK
  BY DEF IInv
<1> QED BY <1>1, Invariant, PTL

\* Between attempts the stdin thread is off the terminal, which is in normal
\* mode; the stdin thread reads it in raw mode only.
THEOREM TerminalExclusive == Spec => []TtyExclusive
<1>1. IInv => TtyExclusive
  BY DEF IInv, Handshake, TtyExclusive
<1> QED BY <1>1, Invariant, PTL

\* No input that was read in one attempt reaches the connection of another.
THEOREM InputCorrect == Spec => []InputOfThisAttempt
<1>1. IInv => InputOfThisAttempt
  BY DEF IInv, InputFresh, InputOfThisAttempt
<1> QED BY <1>1, Invariant, PTL

\* run_attached_session gives an attempt up only if its connection is over.
THEOREM ConnectionCorrect == Spec => LiveConnectionKept
<1>1. IInv /\ [Next]_vars =>
        [main = "attached" /\ main' = "lost" => conn[attempt] # "up"]_vars
  <2> SUFFICES ASSUME IInv, Next, main = "attached", main' = "lost"
               PROVE  conn[attempt] # "up"
    OBVIOUS
  <2>0. queue \in Seq(Event)
    BY DEF IInv, TypeOK, Event
  <2>1. CASE HandleEvent
    <3>1. /\ Head(queue).kind \in {"EOF", "SESSION_BUSY"}
          /\ Head(queue).of = attempt
      BY <2>1 DEF HandleEvent, AfterEvent, ThisAttempt
    <3> QED
      BY <2>0, <2>1, <3>1, TailElements DEF HandleEvent, IInv, EndsAreOver
  <2>2. CASE WriteFails
    BY <2>2 DEF WriteFails
  <2> QED
    BY <2>1, <2>2 DEF Next, MainStep, ReaderStep, EnvStep, CreateIo, ResumeRaw,
       ResumeRelease, ResumeWoken, Pause, PauseWoken, PauseDone, Retry, AttemptFails,
       TerminalFails, ReaderCheck, ReaderWoken, ReaderPoll, ReaderRead, ReaderFinish,
       BrokerFrame, ConnectionDies, BrokerEof, PromptReads, Type, Hangup, SpuriousWake
<1> QED BY <1>1, Invariant, PTL DEF Spec, LiveConnectionKept
=============================================================================
