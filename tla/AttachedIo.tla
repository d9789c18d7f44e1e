----------------------------- MODULE AttachedIo -----------------------------
(***************************************************************************)
(* The client's threads (client.rs): the main thread runs one attempt      *)
(* after another; the stdin thread lives from the first attachment on and  *)
(* is parked between attempts through a mutex and a condition variable, so *)
(* that ssh can prompt on the terminal; every attempt starts a thread that *)
(* reads the broker's frames.  They share one event queue.                 *)
(*                                                                         *)
(* A critical section of the mutex is one step: it is held across nothing  *)
(* but the wait on the condition variable, which releases it.              *)
(***************************************************************************)
EXTENDS Naturals, Sequences

CONSTANTS
  MaxAttempts,  \* bound: attempts of one client
  MaxKeys,      \* bound: keys typed
  MaxFrames     \* bound: frames received that do not end the attempt

ASSUME BoundsAssumption == /\ MaxAttempts \in Nat \ {0}
                           /\ MaxKeys \in Nat /\ MaxFrames \in Nat

Attempts == 1 .. MaxAttempts

VARIABLES
  main,      \* where the main thread is
  attempt,   \* attempt_id
  \* StdinControlState, and who waits on its condition variable
  pauseRequested, pauseAcknowledged, readerFinished, asleep,
  reader,    \* where the stdin thread is
  \* the terminal
  rawMode, tty, keys, hangup,
  queue,     \* the events, each with the attempt it belongs to
  conn,      \* the connection of each attempt: "over" once it has ended,
             \* "closed" once its broker reader has said so
  frames     \* data frames received so far

controlVars == <<pauseRequested, pauseAcknowledged, readerFinished, asleep>>
ttyVars == <<rawMode, tty, keys, hangup>>
vars == <<main, attempt, controlVars, reader, ttyVars, queue, conn, frames>>

EventKinds == {"Stdin", "StdinEof", "StdinError",
               "data", "goodbye", "SESSION_BUSY", "EOF"}

TypeOK ==
  /\ main \in {"setup", "release", "resuming", "attached", "lost", "pausing",
               "paused", "sleep", "ended"}
  /\ attempt \in Attempts
  /\ pauseRequested \in BOOLEAN /\ pauseAcknowledged \in BOOLEAN
  /\ readerFinished \in BOOLEAN /\ asleep \subseteq {"main", "reader"}
  /\ reader \in {"none", "check", "parked", "poll", "read", "finish", "done"}
  /\ rawMode \in BOOLEAN /\ hangup \in BOOLEAN
  /\ tty \in Nat /\ keys \in 0 .. MaxKeys
  /\ queue \in Seq([kind : EventKinds, of : Attempts])
  /\ conn \in [Attempts -> {"none", "up", "over", "closed"}]
  /\ frames \in 0 .. MaxFrames

Init ==
  /\ main = "setup" /\ attempt = 1
  /\ pauseRequested = FALSE /\ pauseAcknowledged = FALSE
  /\ readerFinished = FALSE /\ asleep = {}
  /\ reader = "none"
  /\ rawMode = FALSE /\ tty = 0 /\ keys = 0 /\ hangup = FALSE
  /\ queue = << >>
  /\ conn = [a \in Attempts |-> "none"]
  /\ frames = 0

-----------------------------------------------------------------------------
(* The event queue and the condition variable                              *)

\* Mutant: the attempt number is taken before it is counted up.
SendAsPrevious(kind, a) == queue' = Append(queue, [kind |-> kind, of |-> a - 1])
\* An event is sent to the main thread.
Send(kind, a) == queue' = Append(queue, [kind |-> kind, of |-> a])

\* Mutant: one event is taken instead of all.
DiscardOne == queue' = IF queue = << >> THEN queue ELSE Tail(queue)
\* discard_pending_events
Discard == queue' = << >>

\* notify_all, after which the caller goes on or waits itself.
NotifyAll == asleep' = {}
NotifyAllAndWait(thread) == asleep' = {thread}
WaitAgain(thread) == asleep' = asleep \cup {thread}
Awake(thread) == thread \notin asleep

\* wait() may also return without a notification.
SpuriousWake ==
  /\ main # "ended" /\ asleep # {}
  /\ \E thread \in asleep : asleep' = asleep \ {thread}
  /\ UNCHANGED <<main, attempt, pauseRequested, pauseAcknowledged,
                 readerFinished, reader, ttyVars, queue, conn, frames>>

-----------------------------------------------------------------------------
(* The main thread between attempts                                        *)

\* run_attached_session starts: its broker reader is spawned.
StartAttached == /\ main' = "attached"
                 /\ conn' = [conn EXCEPT ![attempt] = "up"]

\* ensure_attached_io, first time: raw mode first, then the stdin thread.
CreateIo ==
  /\ main = "setup" /\ reader = "none"
  /\ StartAttached /\ rawMode' = TRUE /\ reader' = "check"
  /\ UNCHANGED <<attempt, controlVars, tty, keys, hangup, queue, frames>>

\* ensure_attached_io later: AttachedIo::resume.
ResumeRaw ==
  /\ main = "setup" /\ reader # "none"
  /\ Discard /\ rawMode' = TRUE /\ main' = "release"
  /\ UNCHANGED <<attempt, controlVars, reader, tty, keys, hangup, conn, frames>>

\* Whether resume may stop waiting.
ResumeSatisfied == ~pauseAcknowledged \/ readerFinished

ResumeRelease ==
  /\ main = "release" /\ pauseRequested' = FALSE
  /\ \/ ResumeSatisfied /\ NotifyAll /\ StartAttached
     \/ /\ ~ResumeSatisfied /\ NotifyAllAndWait("main")
        /\ main' = "resuming" /\ UNCHANGED conn
  /\ UNCHANGED <<attempt, pauseAcknowledged, readerFinished, reader, ttyVars,
                 queue, frames>>

ResumeWoken ==
  /\ main = "resuming" /\ Awake("main")
  /\ \/ ResumeSatisfied /\ StartAttached /\ UNCHANGED asleep
     \/ ~ResumeSatisfied /\ WaitAgain("main") /\ UNCHANGED <<main, conn>>
  /\ UNCHANGED <<attempt, pauseRequested, pauseAcknowledged, readerFinished,
                 reader, ttyVars, queue, frames>>

\* Mutant: the wait is for the request instead of the acknowledgement.
PauseSatisfiedEarly == pauseRequested' \/ readerFinished
\* Whether pause may stop waiting.
PauseSatisfied == pauseAcknowledged \/ readerFinished

\* AttachedIo::pause, once the attempt has failed.
Pause ==
  /\ main = "lost" /\ pauseRequested' = TRUE
  /\ \/ PauseSatisfied /\ NotifyAll /\ main' = "paused"
     \/ ~PauseSatisfied /\ NotifyAllAndWait("main") /\ main' = "pausing"
  /\ UNCHANGED <<attempt, pauseAcknowledged, readerFinished, reader, ttyVars,
                 queue, conn, frames>>

PauseWoken ==
  /\ main = "pausing" /\ Awake("main") /\ UNCHANGED pauseRequested
  /\ \/ PauseSatisfied /\ main' = "paused" /\ UNCHANGED asleep
     \/ ~PauseSatisfied /\ WaitAgain("main") /\ UNCHANGED main
  /\ UNCHANGED <<attempt, pauseAcknowledged, readerFinished, reader, ttyVars,
                 queue, conn, frames>>

PauseDone ==
  /\ main = "paused" /\ main' = "sleep" /\ rawMode' = FALSE /\ Discard
  /\ UNCHANGED <<attempt, controlVars, reader, tty, keys, hangup, conn, frames>>

\* sleep_for_reconnect and the next round of run_client's loop.
Retry ==
  /\ main = "sleep" /\ attempt < MaxAttempts
  /\ main' = "setup" /\ attempt' = attempt + 1
  /\ UNCHANGED <<controlVars, reader, ttyVars, queue, conn, frames>>

\* The attempt fails before it is attached: retried while recovering (the
\* second pause returns at once), final otherwise; raw mode may fail too.
AttemptFails ==
  /\ main = "setup" /\ main' \in {"sleep", "ended"}
  /\ UNCHANGED <<attempt, controlVars, reader, ttyVars, queue, conn, frames>>

\* ssh, or the client on the first attempt, prompts on the terminal.
PromptReads ==
  /\ main = "setup" /\ tty > 0 /\ tty' = tty - 1
  /\ UNCHANGED <<main, attempt, controlVars, reader, rawMode, keys, hangup,
                 queue, conn, frames>>

-----------------------------------------------------------------------------
(* The main thread in run_attached_session                                 *)

\* A write to ssh (input, a window size, a ping) fails, or no PONG comes.
\* Only a connection that is over has these failures.
WriteFails ==
  /\ main = "attached" /\ conn[attempt] # "up"
  /\ main' = "lost"
  /\ UNCHANGED <<attempt, controlVars, reader, ttyVars, queue, conn, frames>>

\* stdout cannot be written, or the window size cannot be read: final.
TerminalFails ==
  /\ main = "attached" /\ main' = "ended"
  /\ UNCHANGED <<attempt, controlVars, reader, ttyVars, queue, conn, frames>>

\* Mutant: events of earlier attempts are not told apart.
AnyAttempt(e) == TRUE
\* The guard on attempt_id.
ThisAttempt(e) == e.of = attempt

\* What an event makes of the main thread.
AfterEvent(e) ==
  CASE e.kind = "StdinError" -> {"ended"}
    [] e.kind = "goodbye" /\ ThisAttempt(e) -> {"ended"}
    [] e.kind = "EOF" /\ ThisAttempt(e) -> {"lost"}
    [] e.kind = "SESSION_BUSY" /\ ThisAttempt(e) -> {"lost", "ended"}
    [] OTHER -> {"attached"}

HandleEvent ==
  /\ main = "attached" /\ queue # << >>
  /\ queue' = Tail(queue) /\ main' \in AfterEvent(Head(queue))
  /\ UNCHANGED <<attempt, controlVars, reader, ttyVars, conn, frames>>

-----------------------------------------------------------------------------
(* The stdin thread: read_stdin_events                                     *)

\* wait_while_stdin_paused, up to its wait
ReaderCheck ==
  /\ reader = "check"
  /\ \/ ~pauseRequested /\ reader' = "poll"
        /\ UNCHANGED <<pauseAcknowledged, asleep>>
     \/ pauseRequested /\ reader' = "parked"
        /\ pauseAcknowledged' = TRUE /\ NotifyAllAndWait("reader")
  /\ UNCHANGED <<main, attempt, pauseRequested, readerFinished, ttyVars, queue,
                 conn, frames>>

\* Mutant: nobody is told that the acknowledgement is withdrawn.
ForgetNotify == UNCHANGED asleep
\* The notification at the end of wait_while_stdin_paused.
NotifyUnparked == NotifyAll

\* ... and once it is woken
ReaderWoken ==
  /\ reader = "parked" /\ Awake("reader")
  /\ \/ /\ ~pauseRequested /\ reader' = "poll"
        /\ pauseAcknowledged' = FALSE /\ NotifyUnparked
     \/ /\ pauseRequested /\ WaitAgain("reader")
        /\ UNCHANGED <<reader, pauseAcknowledged>>
  /\ UNCHANGED <<main, attempt, pauseRequested, readerFinished, ttyVars, queue,
                 conn, frames>>

ReaderPoll ==
  /\ reader = "poll"
  /\ \/ (tty > 0 \/ hangup) /\ reader' = "read" /\ UNCHANGED queue
     \/ tty = 0 /\ ~hangup /\ reader' = "check" /\ UNCHANGED queue
     \/ Send("StdinError", attempt) /\ reader' = "finish"
  /\ UNCHANGED <<main, attempt, controlVars, ttyVars, conn, frames>>

\* read and append_pending_stdin_bytes
ReaderRead ==
  /\ reader = "read"
  /\ \/ /\ \E n \in 1 .. tty : tty' = tty - n
        /\ Send("Stdin", attempt) /\ reader' = "check"
     \/ /\ tty = 0 /\ hangup /\ UNCHANGED tty
        /\ Send("StdinEof", attempt) /\ reader' = "finish"
     \/ reader' = "check" /\ UNCHANGED <<tty, queue>>  \* interrupted
     \/ /\ \E n \in 0 .. tty : tty' = tty - n
        /\ Send("StdinError", attempt) /\ reader' = "finish"
  /\ UNCHANGED <<main, attempt, controlVars, rawMode, keys, hangup, conn, frames>>

\* StdinReaderFinished is dropped.
ReaderFinish ==
  /\ reader = "finish" /\ reader' = "done"
  /\ readerFinished' = TRUE /\ NotifyAll
  /\ UNCHANGED <<main, attempt, pauseRequested, pauseAcknowledged, ttyVars,
                 queue, conn, frames>>

-----------------------------------------------------------------------------
(* The broker reader threads, the broker and the user                      *)

\* A frame arrives.  "goodbye" is CLIENT_SHOULD_EXIT, EXIT_STATUS or any frame
\* that ends the client; after it and after SESSION_BUSY the broker is gone.
BrokerFrame(a) ==
  /\ conn[a] = "up"
  /\ \/ /\ frames < MaxFrames /\ frames' = frames + 1
        /\ Send("data", a) /\ UNCHANGED conn
     \/ /\ \E kind \in {"goodbye", "SESSION_BUSY"} : Send(kind, a)
        /\ conn' = [conn EXCEPT ![a] = "over"] /\ UNCHANGED frames
  /\ UNCHANGED <<main, attempt, controlVars, reader, ttyVars>>

\* The connection breaks or stalls.
ConnectionDies(a) ==
  /\ conn[a] = "up" /\ conn' = [conn EXCEPT ![a] = "over"]
  /\ UNCHANGED <<main, attempt, controlVars, reader, ttyVars, queue, frames>>

\* The broker reader sees the end, maybe long after the main thread gave up.
BrokerEof(a) ==
  /\ conn[a] = "over" /\ conn' = [conn EXCEPT ![a] = "closed"]
  /\ Send("EOF", a)
  /\ UNCHANGED <<main, attempt, controlVars, reader, ttyVars, frames>>

Type ==
  /\ keys < MaxKeys /\ ~hangup /\ keys' = keys + 1 /\ tty' = tty + 1
  /\ UNCHANGED <<main, attempt, controlVars, reader, rawMode, hangup, queue,
                 conn, frames>>
Hangup ==
  /\ ~hangup /\ hangup' = TRUE
  /\ UNCHANGED <<main, attempt, controlVars, reader, rawMode, tty, keys, queue,
                 conn, frames>>

-----------------------------------------------------------------------------
(* The specification                                                       *)

MainStep == \/ CreateIo \/ ResumeRaw \/ ResumeRelease \/ ResumeWoken
            \/ Pause \/ PauseWoken \/ PauseDone \/ Retry \/ AttemptFails
            \/ WriteFails \/ TerminalFails \/ HandleEvent
ReaderStep == ReaderCheck \/ ReaderWoken \/ ReaderPoll \/ ReaderRead \/ ReaderFinish
EnvStep == \/ \E a \in Attempts : BrokerFrame(a) \/ ConnectionDies(a) \/ BrokerEof(a)
           \/ PromptReads \/ Type \/ Hangup

\* The end of the main thread ends the process.
Next == \/ MainStep
        \/ main # "ended" /\ (ReaderStep \/ EnvStep)
        \/ SpuriousWake

Spec == Init /\ [][Next]_vars

\* The threads keep running; poll() returns after STDIN_POLL_INTERVAL.
FairSpec == Spec /\ WF_vars(MainStep) /\ WF_vars(main # "ended" /\ ReaderStep)

-----------------------------------------------------------------------------
(* Properties                                                              *)

\* Between attempts ssh has the terminal to itself, in normal mode; whenever
\* the stdin thread touches it, it is in raw mode.
TtyExclusive ==
  /\ main \in {"sleep", "setup"} =>
       ~rawMode /\ reader \in {"none", "parked", "done"}
  /\ reader \in {"poll", "read"} => rawMode

\* Input that the stdin thread has read for one connection is never sent on
\* another: resume discards what waits in the queue.  This is about what was
\* read, not about when it was typed: keys still in the terminal when the thread
\* is parked are not flushed, and go to a prompt of ssh or, read later, to the
\* next connection.
InputOfThisAttempt ==
  main = "attached" => \A i \in 1 .. Len(queue) :
    queue[i].kind = "Stdin" => queue[i].of = attempt

\* An attempt is given up only if its own connection is over: a late end of
\* file of an earlier attempt does not tear down the next.
LiveConnectionKept ==
  [][main = "attached" /\ main' = "lost" => conn[attempt] # "up"]_vars

\* No wake-up is lost: pause and resume return.
HandshakeReturns == /\ (main = "pausing") ~> (main = "paused")
                    /\ (main = "resuming") ~> (main = "attached")
=============================================================================
