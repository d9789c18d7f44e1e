------------------------------ MODULE Reconnect ------------------------------
(***************************************************************************)
(* Clients that attach to one session, lose their connections and come     *)
(* back: run_client's loop (client.rs) with its backoff and its treatment  *)
(* of a busy session, the broker a client starts over ssh (server.rs), and *)
(* of the daemon only who is registered and what its PTY reader does to    *)
(* that.  Connections break at any moment, with frames in flight; the      *)
(* daemon may take any time to notice.                                     *)
(*                                                                         *)
(* A client is one run of ssh-obi.  It is started with --session ID        *)
(* ("session"), with --detach-connect ("takeover") or with neither, so     *)
(* that it picks the session from the list if it is free ("pick").         *)
(***************************************************************************)
EXTENDS Naturals, Sequences, FiniteSets

CONSTANTS
  Clients,
  Nobody,        \* no broker is registered with the daemon
  Stale,         \* the registered broker has lost its client
  Mode,          \* how each client was started
  Width,         \* bits of the backoff multiplier (32 in the code)
  InitialDelay,  \* RECONNECT_INITIAL_DELAY
  MaxDelay,      \* RECONNECT_MAX_DELAY
  AttemptMax,    \* where the attempt counter saturates (2^32 - 1)
  MaxFaults,     \* bound: failures of connections and of set-up
  DetachLag,     \* whether a retry may overtake its own detach request
  Exits          \* whether the shell may exit

Modes == {"session", "takeover", "pick"}

ASSUME ClientsAssumption == /\ IsFiniteSet(Clients) /\ Nobody # Stale
                            /\ {Nobody, Stale} \cap Clients = {}
ASSUME ModeAssumption == Mode \in [Clients -> Modes]
\* 2^n, a 1 shifted by n in a word that is wide enough.
PowerOfTwo[n \in Nat] == IF n = 0 THEN 1 ELSE 2 * PowerOfTwo[n - 1]

ASSUME DelayAssumption == /\ Width \in Nat \ {0} /\ AttemptMax \in Nat \ {0}
                          /\ InitialDelay \in Nat \ {0}
                          /\ MaxDelay \in Nat
                          /\ MaxDelay <= InitialDelay * (PowerOfTwo[Width] - 1)
ASSUME SwitchAssumption == /\ MaxFaults \in Nat /\ DetachLag \in BOOLEAN
                           /\ Exits \in BOOLEAN

VARIABLES
  \* run_client's locals
  pc,          \* where the client is
  known,       \* whether known_session_id is Some
  recovering,  \* recovering_known_session
  attempts,    \* reconnect_attempts
  confirmed,   \* whether confirmed_session_id is Some in this attempt
  outcome,     \* how the client ended
  \* the connection of the current attempt and its broker
  link,        \* whether the ssh connection is up
  inbox,       \* frames on their way to the client, "EOF" last
  request,     \* who has to act on the client's attach request
  \* the remote host
  orphans,     \* attach requests of brokers whose client is gone
  session,     \* whether the daemon is running
  holder,      \* the registered broker's client
  detaches,    \* clients whose detach request the daemon has yet to handle
  reader,      \* the PTY reader: reading ("read"), or in a write to the broker
               \* that is registered ("write") or was when it began ("late")
  faults,
  \* history
  dropped      \* clients unregistered by a failed write to somebody else

clientVars == <<pc, known, recovering, attempts, confirmed, outcome>>
linkVars   == <<link, inbox, request, orphans>>
daemonVars == <<session, holder, detaches, reader, dropped>>
vars == <<clientVars, linkVars, daemonVars, faults>>

TypeOK ==
  /\ pc \in [Clients -> {"predetach", "connect", "attached", "detach", "sleep",
                         "exited"}]
  /\ known \in [Clients -> BOOLEAN] /\ recovering \in [Clients -> BOOLEAN]
  /\ attempts \in [Clients -> 0 .. AttemptMax]
  /\ confirmed \in [Clients -> BOOLEAN]
  /\ outcome \in [Clients -> {"running", "detached", "status", "error",
                              "elsewhere"}]
  /\ link \in [Clients -> BOOLEAN]
  /\ inbox \in [Clients -> Seq({"ATTACHED_SESSION", "SESSION_BUSY",
                                "CLIENT_SHOULD_EXIT", "EXIT_STATUS", "EOF"})]
  /\ request \in [Clients -> {"none", "broker", "daemon"}]
  /\ orphans \in Nat
  /\ session \in {"live", "gone"}
  /\ holder \in Clients \cup {Nobody, Stale}
  /\ detaches \subseteq Clients
  /\ reader \in {"read", "write", "late"} /\ dropped \subseteq Clients
  /\ faults \in 0 .. MaxFaults

\* known_session_id starts as --session; a takeover begins with its detach.
Init ==
  /\ pc = [c \in Clients |->
             IF Mode[c] = "takeover" THEN "predetach" ELSE "connect"]
  /\ known = [c \in Clients |-> Mode[c] = "session"]
  /\ recovering = [c \in Clients |-> FALSE]
  /\ attempts = [c \in Clients |-> 0]
  /\ confirmed = [c \in Clients |-> FALSE]
  /\ outcome = [c \in Clients |-> "running"]
  /\ link = [c \in Clients |-> FALSE]
  /\ inbox = [c \in Clients |-> << >>]
  /\ request = [c \in Clients |-> "none"]
  /\ orphans = 0
  /\ session = "live" /\ holder = Nobody
  /\ detaches = {} /\ reader = "read" /\ dropped = {}
  /\ faults = 0

-----------------------------------------------------------------------------
(* Backoff                                                                 *)

\* Mutant: an addition that does not saturate.
PlainInc(n) == n + 1
\* u32::saturating_add(1)
SaturatingInc(n) == IF n < AttemptMax THEN n + 1 ELSE n

\* Mutant: the shift wraps around the width instead of failing.
WrappingMultiplier(attempt) == PowerOfTwo[(attempt - 1) % Width]
\* 1u32.checked_shl(attempt - 1).unwrap_or(u32::MAX)
Multiplier(attempt) ==
  IF attempt - 1 < Width THEN PowerOfTwo[attempt - 1] ELSE PowerOfTwo[Width] - 1
\* reconnect_delay_for_attempt
ReconnectDelay(attempt) ==
  LET delay == InitialDelay * Multiplier(attempt)
  IN  IF delay < MaxDelay THEN delay ELSE MaxDelay

-----------------------------------------------------------------------------
(* Building blocks                                                         *)

Fault == faults < MaxFaults /\ faults' = faults + 1
Goto(c, p) == pc' = [pc EXCEPT ![c] = p]
Deliver(c, msgs) == inbox' = [inbox EXCEPT ![c] = @ \o msgs]

\* The client's end of c goes away: its broker loses it, and with it an attach
\* request that is under way; frames in flight to it are lost.
DropLink(c, left) ==
  /\ link' = [link EXCEPT ![c] = FALSE]
  /\ inbox' = [inbox EXCEPT ![c] = left]
  /\ request' = [request EXCEPT ![c] = "none"]
  /\ orphans' = IF request[c] = "none" THEN orphans ELSE orphans + 1
  /\ holder' = IF holder = c THEN Stale ELSE holder
  /\ dropped' = dropped \ {c}
  /\ UNCHANGED <<session, detaches, reader>>

\* detach_current: nobody is registered any more; a write that is under way
\* goes on, to a broker that no longer counts.
Unregister == /\ holder' = Nobody
              /\ reader' = IF reader = "write" THEN "late" ELSE reader

\* run_client returns.
Exit(c, o) ==
  /\ Goto(c, "exited")
  /\ outcome' = [outcome EXCEPT ![c] = o]
  /\ UNCHANGED <<known, recovering, attempts, confirmed>>

\* pause, next_reconnect_delay, sleep_for_reconnect
Backoff(c, next) ==
  /\ Goto(c, next)
  /\ attempts' = [attempts EXCEPT ![c] = SaturatingInc(@)]
  /\ UNCHANGED <<known, recovering, confirmed, outcome>>

-----------------------------------------------------------------------------
(* The client                                                              *)

\* An attempt fails before the attach request is sent: an error of ssh or of
\* the transport is retried while recovering, everything else is final.
ConnectFails(c) ==
  /\ pc[c] = "connect" /\ Fault
  /\ \/ recovering[c] /\ Backoff(c, "sleep")
     \/ Exit(c, "error")
  /\ UNCHANGED <<linkVars, daemonVars>>

\* select_session: a client without a session to return to asks for the list
\* and takes this session when it is free.
AutoSelected == session = "live" /\ holder = Nobody

\* The attempt gets as far as sending ATTACH_SESSION, or the client starts a
\* session of its own and has nothing more to do with this one.
Connect(c) ==
  /\ pc[c] = "connect" /\ (DetachLag \/ c \notin detaches)
  /\ \/ /\ known[c] \/ AutoSelected
        /\ Goto(c, "attached")
        /\ confirmed' = [confirmed EXCEPT ![c] = FALSE]
        /\ link' = [link EXCEPT ![c] = TRUE]
        /\ request' = [request EXCEPT ![c] = "broker"]
        /\ UNCHANGED <<known, recovering, attempts, outcome, inbox, orphans>>
     \/ /\ ~known[c] /\ ~AutoSelected
        /\ Exit(c, "elsewhere") /\ UNCHANGED linkVars
  /\ UNCHANGED <<daemonVars, faults>>

\* run_attached_session takes the next frame.
FrameIs(c, msg) == /\ pc[c] = "attached" /\ inbox[c] # << >>
                   /\ Head(inbox[c]) = msg

RecvAttached(c) ==
  /\ FrameIs(c, "ATTACHED_SESSION")
  /\ confirmed' = [confirmed EXCEPT ![c] = TRUE]
  /\ inbox' = [inbox EXCEPT ![c] = Tail(@)]
  /\ UNCHANGED <<pc, known, recovering, attempts, outcome, link, request,
                 orphans, daemonVars, faults>>

RecvShouldExit(c) ==
  /\ FrameIs(c, "CLIENT_SHOULD_EXIT")
  /\ Exit(c, "detached") /\ DropLink(c, << >>) /\ UNCHANGED faults

\* exit_code_from_status: a status with neither code nor signal is an error.
RecvExitStatus(c) ==
  /\ FrameIs(c, "EXIT_STATUS")
  /\ \E o \in {"status", "error"} : Exit(c, o)
  /\ DropLink(c, << >>) /\ UNCHANGED faults

\* reconnect_busy_session
BusyIsStale(c) == known[c] /\ recovering[c]

RecvBusy(c) ==
  /\ FrameIs(c, "SESSION_BUSY")
  /\ \/ BusyIsStale(c) /\ Backoff(c, "detach")
     \/ ~BusyIsStale(c) /\ Exit(c, "error")
  /\ DropLink(c, << >>) /\ UNCHANGED faults

\* reconnect_attempts after a lost connection: only a session that had been
\* confirmed starts the backoff again.
AttemptsAfterLoss(c) == IF confirmed[c] THEN 0 ELSE attempts[c]

\* The connection is lost (is_ambiguous_disconnect).
RecvEof(c) ==
  /\ FrameIs(c, "EOF")
  /\ \/ /\ confirmed[c] \/ known[c]
        /\ Goto(c, "sleep")
        /\ attempts' =
             [attempts EXCEPT ![c] = SaturatingInc(AttemptsAfterLoss(c))]
        /\ known' = [known EXCEPT ![c] = TRUE]
        /\ recovering' = [recovering EXCEPT ![c] = TRUE]
        /\ UNCHANGED <<confirmed, outcome>>
     \/ ~confirmed[c] /\ ~known[c] /\ Exit(c, "error")
  /\ DropLink(c, << >>) /\ UNCHANGED faults

\* A failure of the terminal, or an error frame: final.
LocalFailure(c) ==
  /\ pc[c] = "attached" /\ Fault
  /\ Exit(c, "error") /\ DropLink(c, << >>)

\* A control connection of its own writes DETACH to the daemon, if there is
\* one, and does not wait for its effect (detach_via_socket).
SendDetach(c) == detaches' = IF session = "live" THEN detaches \cup {c}
                                                 ELSE detaches
\* A control connection that fails may have got that far or not.
MaybeSendDetach(c) == SendDetach(c) \/ UNCHANGED detaches

\* Mutant: the busy session is retried without a detach request.
ForgetDetach(c) ==
  /\ pc[c] = "detach" /\ Goto(c, "sleep")
  /\ UNCHANGED <<known, recovering, attempts, confirmed, outcome, linkVars,
                 daemonVars, faults>>
\* detach_stale_client_for_reconnect.  A daemon that is gone makes the request
\* fail; that, like an error of ssh or of the transport, is retried.
DetachStale(c) ==
  /\ pc[c] = "detach"
  /\ \/ Goto(c, "sleep") /\ SendDetach(c) /\ UNCHANGED <<outcome, faults>>
     \/ Goto(c, "sleep") /\ MaybeSendDetach(c) /\ Fault /\ UNCHANGED outcome
     \/ /\ Goto(c, "exited") /\ MaybeSendDetach(c) /\ Fault
        /\ outcome' = [outcome EXCEPT ![c] = "error"]
  /\ UNCHANGED <<known, recovering, attempts, confirmed, linkVars, session,
                 holder, reader, dropped>>

\* --detach-connect: the same request first, any failure of which is final;
\* what follows is a recovery of the session.
DetachFirst(c) ==
  /\ pc[c] = "predetach"
  /\ \/ /\ session = "live" /\ SendDetach(c)
        /\ Goto(c, "connect")
        /\ known' = [known EXCEPT ![c] = TRUE]
        /\ recovering' = [recovering EXCEPT ![c] = TRUE]
        /\ UNCHANGED <<attempts, confirmed, outcome, faults>>
     \/ session = "gone" /\ Exit(c, "error") /\ UNCHANGED <<detaches, faults>>
     \/ Fault /\ Exit(c, "error") /\ MaybeSendDetach(c)
  /\ UNCHANGED <<linkVars, session, holder, reader, dropped>>

Wake(c) ==
  /\ pc[c] = "sleep" /\ Goto(c, "connect")
  /\ UNCHANGED <<known, recovering, attempts, confirmed, outcome, linkVars,
                 daemonVars, faults>>

\* The connection breaks: a part of what was in flight still arrives.
LinkCut(c) ==
  /\ link[c] /\ Fault
  /\ \E k \in 0 .. Len(inbox[c]) :
       DropLink(c, Append(SubSeq(inbox[c], 1, k), "EOF"))
  /\ UNCHANGED clientVars

-----------------------------------------------------------------------------
(* The broker of an attempt                                                *)

\* ATTACH_SESSION: a broker that cannot reach the daemon exits without a word;
\* otherwise it confirms the session before the daemon has answered.
BrokerAttach(c) ==
  /\ request[c] = "broker"
  /\ \/ /\ session = "live" /\ Deliver(c, <<"ATTACHED_SESSION">>)
        /\ request' = [request EXCEPT ![c] = "daemon"] /\ UNCHANGED link
     \/ /\ session = "gone" /\ Deliver(c, <<"EOF">>)
        /\ request' = [request EXCEPT ![c] = "none"]
        /\ link' = [link EXCEPT ![c] = FALSE]
  /\ UNCHANGED <<clientVars, orphans, daemonVars, faults>>

-----------------------------------------------------------------------------
(* The daemon                                                              *)

\* Mutant: the loser of an attach race gets the wrong frame.
RefuseAsDetached(c) == Deliver(c, <<"CLIENT_SHOULD_EXIT", "EOF">>)
\* SESSION_BUSY, after which broker and daemon close the connection.
Refuse(c) == Deliver(c, <<"SESSION_BUSY", "EOF">>)

DaemonAttach(c) ==
  /\ request[c] = "daemon"
  /\ request' = [request EXCEPT ![c] = "none"]
  /\ \/ /\ session = "live" /\ holder = Nobody
        /\ holder' = c /\ UNCHANGED <<link, inbox>>
     \/ /\ session = "live" /\ holder # Nobody /\ Refuse(c)
        /\ link' = [link EXCEPT ![c] = FALSE] /\ UNCHANGED holder
     \/ /\ session = "gone" /\ Deliver(c, <<"EOF">>)
        /\ link' = [link EXCEPT ![c] = FALSE] /\ UNCHANGED holder
  /\ UNCHANGED <<clientVars, orphans, session, detaches, reader, dropped, faults>>

\* The request of a broker whose client is gone reaches the daemon all the same.
OrphanAttach ==
  /\ orphans > 0 /\ orphans' = orphans - 1
  /\ holder' = IF session = "live" /\ holder = Nobody THEN Stale ELSE holder
  /\ UNCHANGED <<clientVars, link, inbox, request, session, detaches, reader,
                 dropped, faults>>

\* The thread of the registered broker sees that it is gone; a broker that has
\* been unregistered meanwhile fails the token check.
StaleGone ==
  /\ holder = Stale /\ Unregister
  /\ UNCHANGED <<clientVars, linkVars, session, detaches, dropped, faults>>

\* The PTY reader forwards output to the broker registered now ...
ReaderWrites ==
  /\ session = "live" /\ reader = "read" /\ holder # Nobody
  /\ reader' = "write"
  /\ UNCHANGED <<clientVars, linkVars, session, holder, detaches, dropped, faults>>

\* ... the write succeeds, maybe after that broker has been unregistered ...
ReaderWritten ==
  /\ reader # "read" /\ reader' = "read"
  /\ UNCHANGED <<clientVars, linkVars, session, holder, detaches, dropped, faults>>

\* ... or it fails, as its broker is gone, and the reader detaches whoever is
\* registered by now.  A live broker is not told, and its connection stays up.
ReaderDetaches ==
  /\ reader = "late" \/ (reader = "write" /\ holder = Stale)
  /\ reader' = "read" /\ holder' = Nobody
  /\ dropped' = dropped \cup ({holder} \cap Clients)
  /\ UNCHANGED <<clientVars, linkVars, session, detaches, faults>>

\* Mutant: the registered broker is removed and nobody told.
EvictSilently == UNCHANGED <<link, inbox>>
\* DETACH removes whoever is registered now and tells its client.
Evict ==
  IF holder \in Clients
  THEN /\ Deliver(holder, <<"CLIENT_SHOULD_EXIT", "EOF">>)
       /\ link' = [link EXCEPT ![holder] = FALSE]
  ELSE UNCHANGED <<link, inbox>>

DaemonDetach(c) ==
  /\ c \in detaches /\ detaches' = detaches \ {c}
  /\ Evict /\ Unregister
  /\ UNCHANGED <<clientVars, request, orphans, session, dropped, faults>>

\* What a client still hears when the daemon ends: the holder its last frames,
\* a client that was dropped the end of its connection.
Parting(c, last) == IF c = holder THEN last
                    ELSE IF c \in dropped THEN <<"EOF">> ELSE << >>

\* The shell exits and the daemon with it.  The exit status goes to the holder
\* unless the process ends before it is written.
ShellExit ==
  /\ Exits /\ session = "live" /\ session' = "gone"
  /\ holder' = Nobody /\ detaches' = {} /\ reader' = "read" /\ dropped' = {}
  /\ \E last \in {<<"EXIT_STATUS", "EOF">>, <<"EOF">>} :
       inbox' = [c \in Clients |-> inbox[c] \o Parting(c, last)]
  /\ link' = [c \in Clients |-> link[c] /\ c # holder /\ c \notin dropped]
  /\ UNCHANGED <<clientVars, request, orphans, faults>>

-----------------------------------------------------------------------------
(* The specification                                                       *)

ClientStep(c) ==
  \/ Connect(c) \/ RecvAttached(c) \/ RecvShouldExit(c) \/ RecvExitStatus(c)
  \/ RecvBusy(c) \/ RecvEof(c) \/ DetachStale(c) \/ DetachFirst(c) \/ Wake(c)
RemoteStep(c) == BrokerAttach(c) \/ DaemonAttach(c) \/ DaemonDetach(c)
ReaderStep == ReaderWrites \/ ReaderWritten \/ ReaderDetaches
FaultStep(c) == ConnectFails(c) \/ LocalFailure(c) \/ LinkCut(c)

Next == \/ \E c \in Clients : ClientStep(c) \/ RemoteStep(c) \/ FaultStep(c)
        \/ OrphanAttach \/ StaleGone \/ ReaderStep \/ ShellExit

Spec == Init /\ [][Next]_vars

\* Clients, brokers and the daemon keep running; faults are finitely many.
\* Nothing makes the daemon notice a stale broker: neither that its thread sees
\* the end of the stream nor that the shell prints is assumed.
FairSpec == Spec /\ \A c \in Clients :
              /\ WF_vars(ClientStep(c))
              /\ WF_vars(BrokerAttach(c)) /\ WF_vars(DaemonAttach(c))
              /\ WF_vars(DaemonDetach(c))

-----------------------------------------------------------------------------
(* Properties                                                              *)

\* A client that has nothing left to hear (its link is up, its request is
\* answered, no frame is in flight) holds the session: a refusal, an eviction
\* and the end of the shell leave it a frame or an end of file to react to.
\* There is one exception, the PTY reader's unguarded detach_current after a
\* failed write to an earlier broker: it takes the session without a sign.
SettledClientHolds ==
  \A c \in Clients :
    pc[c] = "attached" /\ request[c] = "none" /\ inbox[c] = << >>
      => link[c] /\ (holder = c \/ c \in dropped)

\* However many recovering clients clear a "stale" client out of each other's
\* way, they never end up all told to exit: whoever's request evicts a client
\* is itself still on its way to the session.
NotAllEvicted == Clients # {} => \E c \in Clients : outcome[c] # "detached"

\* The delay before a retry is the documented capped doubling, also once the
\* multiplier no longer fits its width.
DelayIsCappedDoubling ==
  \A c \in Clients : pc[c] = "sleep" =>
    LET exact == InitialDelay * PowerOfTwo[attempts[c] - 1]
    IN  ReconnectDelay(attempts[c]) = IF exact < MaxDelay THEN exact
                                                          ELSE MaxDelay

\* A client that recovers a living session gets it or ends, even if the daemon
\* never notices that the old broker is dead: its own detach request clears it.
\* Having got it, it may be dropped by the reader's late failed write; a client
\* so dropped does not learn of it and stays attached to nothing.
RecoversOrEnds ==
  \A c \in Clients :
    (recovering[c] /\ pc[c] # "exited")
      ~> (holder = c \/ c \in dropped \/ pc[c] = "exited" \/ session = "gone")

-----------------------------------------------------------------------------
(* What the documentation says, and the code does not keep                 *)

\* usage.md: "If the session is gone [...] the client reports failure".
SessionGoneReported ==
  \A c \in Clients : (session = "gone") ~> (pc[c] = "exited")
=============================================================================
