------------------------------ MODULE Sessions ------------------------------
(***************************************************************************)
(* The socket directory and the commands that use it: listing with removal *)
(* of stale sockets (enumerate_daemons and query_daemon_info in server.rs, *)
(* remove_stale_socket in session.rs), selection (SessionSelect), attach,  *)
(* takeover, detach, and the launch of a new daemon (launch_daemon in      *)
(* server.rs, run_daemon in daemon.rs).                                    *)
(*                                                                         *)
(* A process is one command: a client and its broker, which take turns, or *)
(* ssh-obi-server --list or --detach.  Sessions are the numbers 1..MaxId   *)
(* in the order of their ids; an id is drawn at random and never again.    *)
(* What happens once a client is attached is Reconnect's and Keepalive's.  *)
(***************************************************************************)
EXTENDS SessionSelect

CONSTANTS
  Procs,     \* the commands
  Commands,  \* what they may be
  MaxId      \* bound on the sessions there ever are

AllCommands == {"list", "attach", "detach-connect", "detach", "new"}

ASSUME SessionsAssumption == MaxId \in Nat /\ Commands \subseteq AllCommands

Ids == 1 .. MaxId

VARIABLES
  path,    \* the socket file of a session exists
  daemon,  \* its daemon process
  busy,    \* a broker is registered with it
  stuck,   \* its PTY mutex is held: it does not answer an info request
  pc, command,
  todo,    \* sockets the listing has still to query
  cur,     \* the session the process is concerned with, or 0
  found,   \* the answers to the listing so far
  wasUp,   \* history: the sockets that served when the listing scanned
  wasStale \* history: those that were stale then

dirVars  == <<path, daemon, busy, stuck>>
listVars == <<todo, found, wasUp, wasStale>>
vars == <<dirVars, pc, command, cur, listVars>>

Records == [id : Ids, busy : BOOLEAN]
Listing == {"query", "asked", "probe", "unlink"}
Ended   == {"done", "failed"}

\* Every variable has its type; a process in the middle of something knows
\* which session it is concerned with, and a session that is being started
\* belongs to one process.
TypeOK ==
  /\ path \in [Ids -> BOOLEAN]
  /\ daemon \in [Ids -> {"none", "start", "bound", "up", "ending", "gone"}]
  /\ busy \in [Ids -> BOOLEAN] /\ stuck \in [Ids -> BOOLEAN]
  /\ pc \in [Procs -> {"idle", "prompt", "detach", "attach", "launch",
                       "starting", "ready", "readyAsked"}
                      \cup Listing \cup Ended]
  /\ command \in [Procs -> Commands \cup {"none"}]
  /\ todo \in [Procs -> SUBSET Ids] /\ cur \in [Procs -> Ids \cup {0}]
  /\ found \in [Procs -> Seq(Records)]
  /\ wasUp \in [Procs -> SUBSET Ids] /\ wasStale \in [Procs -> SUBSET Ids]
  /\ \A p \in Procs :
       pc[p] \in {"asked", "probe", "unlink", "detach", "attach", "starting",
                  "ready", "readyAsked"} => cur[p] \in Ids
  /\ \A p \in Procs :
       pc[p] = "starting" => daemon[cur[p]] \in {"start", "bound"}

\* Earlier commands have left sessions that serve and sockets that are stale.
Init ==
  /\ daemon \in [Ids -> {"none", "up", "gone"}]
  /\ path = [i \in Ids |-> daemon[i] # "none"]
  /\ busy \in [Ids -> BOOLEAN] /\ \A i \in Ids : busy[i] => daemon[i] = "up"
  /\ stuck = [i \in Ids |-> FALSE]
  /\ pc = [p \in Procs |-> "idle"] /\ command = [p \in Procs |-> "none"]
  /\ todo = [p \in Procs |-> {}] /\ cur = [p \in Procs |-> 0]
  /\ found = [p \in Procs |-> <<>>]
  /\ wasUp = [p \in Procs |-> {}] /\ wasStale = [p \in Procs |-> {}]

Goto(p, label) == pc' = [pc EXCEPT ![p] = label]
Concern(p, i)  == cur' = [cur EXCEPT ![p] = i]

\* The listing has done its work.
Forget(p) == /\ todo' = [todo EXCEPT ![p] = {}]
             /\ found' = [found EXCEPT ![p] = <<>>]
             /\ wasUp' = [wasUp EXCEPT ![p] = {}]
             /\ wasStale' = [wasStale EXCEPT ![p] = {}]

\* The command ends.
End(p, how) == /\ Goto(p, how) /\ Concern(p, 0) /\ Forget(p)
               /\ command' = [command EXCEPT ![p] = "none"]

\* connect() succeeds; without a listener it is refused.
Connectable(i) == path[i] /\ daemon[i] \in {"up", "ending"}
Refused(i)     == path[i] /\ ~Connectable(i)

-----------------------------------------------------------------------------
(* Starting a command                                                      *)

\* list_session_socket_ids: the directory is read once.
Scan(p) ==
  /\ Goto(p, "query")
  /\ todo' = [todo EXCEPT ![p] = {i \in Ids : path[i]}]
  /\ wasUp' = [wasUp EXCEPT ![p] = {i \in Ids : path[i] /\ daemon[i] = "up"}]
  /\ wasStale' =
       [wasStale EXCEPT ![p] = {i \in Ids : path[i] /\ daemon[i] = "gone"}]
  /\ UNCHANGED found

\* --list, attach, --detach-connect (a takeover), --detach, --new; an attach or
\* a takeover lists unless it is given the session.
Start(p) ==
  /\ pc[p] = "idle"
  /\ \/ \E c \in Commands \cap {"list", "attach", "detach-connect"} :
          command' = [command EXCEPT ![p] = c] /\ Scan(p) /\ UNCHANGED cur
     \/ \E c \in Commands \ {"list", "new"}, i \in Ids :
          /\ command' = [command EXCEPT ![p] = c]
          /\ Goto(p, IF c = "attach" THEN "attach" ELSE "detach")
          /\ Concern(p, i) /\ UNCHANGED listVars
     \/ /\ "new" \in Commands
        /\ command' = [command EXCEPT ![p] = "new"]
        /\ Goto(p, "launch") /\ UNCHANGED <<cur, listVars>>
  /\ UNCHANGED dirVars

-----------------------------------------------------------------------------
(* Listing: enumerate_daemons                                              *)

\* The next socket in the order of the ids: query_daemon_info connects.
Query(p) ==
  /\ pc[p] = "query"
  /\ \E i \in todo[p] :
       /\ \A j \in todo[p] : i =< j
       /\ todo' = [todo EXCEPT ![p] = @ \ {i}]
       /\ Concern(p, i)
       /\ Goto(p, IF Connectable(i) THEN "asked" ELSE "probe")
  /\ UNCHANGED <<dirVars, command, found, wasUp, wasStale>>

\* The daemon's answer: a handler thread may still give it while the process
\* is ending.
Answers(i) == daemon[i] \in {"up", "ending"} /\ ~stuck[i]
\* The end of the process closes the connection, also before accept(); a
\* daemon that is stuck runs into DAEMON_CONTROL_TIMEOUT.
NoAnswer(i) == daemon[i] # "up" \/ stuck[i]

Answer(p) ==
  /\ pc[p] = "asked" /\ Answers(cur[p])
  /\ found' = [found EXCEPT ![p] =
                 Append(@, [id |-> cur[p], busy |-> busy[cur[p]]])]
  /\ Goto(p, "query")
  /\ UNCHANGED <<dirVars, command, cur, todo, wasUp, wasStale>>

\* Mutant: a session that does not answer is left out.
SkipSession(p) == Goto(p, "query") /\ UNCHANGED <<command, cur, listVars>>
\* Mutant: a session that does not answer is taken for stale.
TakeForStale(p) == Goto(p, "unlink") /\ UNCHANGED <<command, cur, listVars>>
\* Any failure but that to connect is the failure of the listing.
FailListing(p) == End(p, "failed")

AnswerFails(p) ==
  /\ pc[p] = "asked" /\ NoAnswer(cur[p])
  /\ FailListing(p) /\ UNCHANGED dirVars

\* remove_stale_socket connects once more; only a refusal is proof.
Probe(p) ==
  /\ pc[p] = "probe"
  /\ Goto(p, IF Refused(cur[p]) THEN "unlink" ELSE "query")
  /\ UNCHANGED <<dirVars, command, cur, listVars>>

\* Mutant: the stale socket stays.
KeepSocket(i) == UNCHANGED path
RemoveFile(i) == path' = [path EXCEPT ![i] = FALSE]

\* Its remove_file: if the file is gone by now, that fails the listing too.
Unlink(p) ==
  /\ pc[p] = "unlink"
  /\ \/ /\ path[cur[p]] /\ RemoveFile(cur[p])
        /\ Goto(p, "query") /\ UNCHANGED <<command, cur, listVars>>
     \/ ~path[cur[p]] /\ FailListing(p) /\ UNCHANGED path
  /\ UNCHANGED <<daemon, busy, stuck>>

\* The listing has succeeded.
Listed(p) == pc[p] = "query" /\ todo[p] = {}

-----------------------------------------------------------------------------
(* Choosing a session                                                      *)

\* The answers, sorted by id at the end of enumerate_daemons.
Sorted(sessions) ==
  LET rows  == DOMAIN sessions
      order == CHOOSE f \in [rows -> rows] :
                 /\ \A k \in rows : \E j \in rows : f[j] = k
                 /\ \A j, k \in rows : j < k
                      => sessions[f[j]].id =< sessions[f[k]].id
  IN [row \in rows |-> sessions[order[row]]]

Chosen(p) == IF command[p] = "detach-connect"
             THEN AutoSelectExisting(Sorted(found[p]))
             ELSE AutoSelect(Sorted(found[p]))
\* A choice is acted on.
Follow(p, choice) ==
  IF choice.do = "fail" THEN End(p, "failed")
  ELSE /\ Goto(p, choice.do) /\ Concern(p, choice.id) /\ UNCHANGED command
       /\ IF choice.do = "prompt" THEN UNCHANGED listVars ELSE Forget(p)

Select(p) ==
  /\ Listed(p)
  /\ IF command[p] = "list" THEN End(p, "done") ELSE Follow(p, Chosen(p))
  /\ UNCHANGED dirVars

\* The user takes any time to type a number, n, or something else.
Prompt(p) ==
  LET sessions == Sorted(found[p])
      takeover == command[p] = "detach-connect"
      Pick(k)  == IF takeover THEN PickExisting(sessions, k)
                              ELSE PickFree(sessions, k)
  IN /\ pc[p] = "prompt"
     /\ \/ \E k \in 0 .. Len(sessions) + 1 :
             Follow(p, [do |-> IF Pick(k) = 0 THEN "fail"
                               ELSE IF takeover THEN "detach" ELSE "attach",
                        id |-> Pick(k)])
        \/ ~takeover /\ Follow(p, [do |-> "launch", id |-> 0])
     /\ UNCHANGED dirVars

-----------------------------------------------------------------------------
(* Acting on a session                                                     *)

\* The connection is refused, or ends unanswered.
Unserved(i) == ~Connectable(i) \/ daemon[i] # "up"

\* detach_via_socket returns once the request is written; the daemon acts on
\* it then or later, which is BrokerLeaves.
Detach(p) ==
  LET i == cur[p]
  IN /\ pc[p] = "detach"
     /\ \/ /\ Connectable(i)
           /\ busy' \in {busy, [busy EXCEPT ![i] = FALSE]}
           /\ IF command[p] = "detach-connect"
              THEN Goto(p, "attach") /\ UNCHANGED <<command, cur, listVars>>
              ELSE End(p, "done")
        \/ Unserved(i) /\ End(p, "failed") /\ UNCHANGED busy
     /\ UNCHANGED <<path, daemon, stuck>>

\* connect_daemon and attach_daemon; the daemon refuses a second broker.
Attach(p) ==
  LET i == cur[p]
  IN /\ pc[p] = "attach"
     /\ \/ /\ ~Unserved(i)
           /\ busy' = [busy EXCEPT ![i] = TRUE]
           /\ End(p, IF busy[i] THEN "failed" ELSE "done")
        \/ Unserved(i) /\ End(p, "failed") /\ UNCHANGED busy
     /\ UNCHANGED <<path, daemon, stuck>>

\* Mutant: an id may be drawn again if no socket has it.
UnlistedId(i) == ~path[i]
\* generate_session_id: random, so no id is ever drawn twice; those of the
\* sockets in the directory are excluded.
FreshId(i) == daemon[i] = "none" /\ ~path[i]

\* launch_daemon: an id and the starter process.
Launch(p) ==
  /\ pc[p] = "launch"
  /\ \/ \E i \in Ids :
          /\ FreshId(i)
          /\ daemon' = [daemon EXCEPT ![i] = "start"]
          /\ Goto(p, "starting") /\ Concern(p, i)
          /\ UNCHANGED <<command, listVars>>
     \/ End(p, "failed") /\ UNCHANGED daemon
  /\ UNCHANGED <<path, busy, stuck>>

\* run_daemon, in the starter: UnixListener::bind is bind(2), which creates
\* the file, and then listen(2).  (No file can be in its way: the id is fresh.)
Bind(p) ==
  LET i == cur[p]
  IN /\ pc[p] = "starting" /\ daemon[i] = "start"
     /\ daemon' = [daemon EXCEPT ![i] = "bound"]
     /\ path' = [path EXCEPT ![i] = TRUE]
     /\ UNCHANGED <<busy, stuck, pc, command, cur, listVars>>

\* ... after which it daemonizes, and the launcher sees it exit.
Listen(p) ==
  LET i == cur[p]
  IN /\ pc[p] = "starting" /\ daemon[i] = "bound"
     /\ daemon' = [daemon EXCEPT ![i] = "up"]
     /\ Goto(p, "ready")
     /\ UNCHANGED <<path, busy, stuck, command, cur, listVars>>

StarterFails(p) ==
  /\ pc[p] = "starting"
  /\ daemon' = [daemon EXCEPT ![cur[p]] = "gone"]
  /\ End(p, "failed")
  /\ UNCHANGED <<path, busy, stuck>>

\* wait_for_daemon_ready tries to connect until its deadline.
Ready(p) ==
  /\ pc[p] = "ready"
  /\ IF Connectable(cur[p])
     THEN Goto(p, "readyAsked") /\ UNCHANGED <<command, cur, listVars>>
     ELSE End(p, "failed")
  /\ UNCHANGED dirVars

ReadyAnswer(p) ==
  /\ pc[p] = "readyAsked"
  /\ \/ /\ Answers(cur[p]) /\ Goto(p, "attach")
        /\ UNCHANGED <<command, cur, listVars>>
     \/ NoAnswer(cur[p]) /\ End(p, "failed")
  /\ UNCHANGED dirVars

-----------------------------------------------------------------------------
(* Daemons                                                                 *)

DaemonOnly == UNCHANGED <<pc, command, cur, listVars>>

\* It dies (a signal, a failed accept(), a shell that cannot be started) and
\* leaves its socket.
Dies(i) ==
  /\ daemon[i] \in {"up", "ending"}
  /\ daemon' = [daemon EXCEPT ![i] = "gone"]
  /\ busy' = [busy EXCEPT ![i] = FALSE] /\ stuck' = [stuck EXCEPT ![i] = FALSE]
  /\ UNCHANGED path /\ DaemonOnly

\* The shell exits: the accept loop ends, removes the socket file (if it still
\* exists) and the process ends.
ShellExits(i) ==
  /\ daemon[i] = "up"
  /\ daemon' = [daemon EXCEPT ![i] = "ending"]
  /\ UNCHANGED <<path, busy, stuck>> /\ DaemonOnly
RemovesSocket(i) ==
  /\ daemon[i] = "ending" /\ path[i] /\ path' = [path EXCEPT ![i] = FALSE]
  /\ UNCHANGED <<daemon, busy, stuck>> /\ DaemonOnly

\* The registered broker is unregistered: its thread ends, or a write of the
\* PTY reader fails (to it or, with detach_current unguarded, to an earlier one).
BrokerLeaves(i) ==
  /\ busy[i] /\ busy' = [busy EXCEPT ![i] = FALSE]
  /\ UNCHANGED <<path, daemon, stuck>> /\ DaemonOnly

\* Input that the shell does not read blocks with the PTY mutex held.
Blocks(i) ==
  /\ daemon[i] = "up" /\ busy[i] /\ ~stuck[i]
  /\ stuck' = [stuck EXCEPT ![i] = TRUE]
  /\ UNCHANGED <<path, daemon, busy>> /\ DaemonOnly
Unblocks(i) ==
  /\ stuck[i] /\ stuck' = [stuck EXCEPT ![i] = FALSE]
  /\ UNCHANGED <<path, daemon, busy>> /\ DaemonOnly

-----------------------------------------------------------------------------
(* The specification                                                       *)

\* What a process does by itself: all but what the user and chance decide.
Step(p) ==
  \/ Query(p) \/ Answer(p) \/ AnswerFails(p) \/ Probe(p) \/ Unlink(p)
  \/ Select(p) \/ Detach(p) \/ Attach(p) \/ Launch(p) \/ Bind(p)
  \/ Listen(p) \/ Ready(p) \/ ReadyAnswer(p)

Daemon(i) == \/ Dies(i) \/ ShellExits(i) \/ RemovesSocket(i) \/ BrokerLeaves(i)
             \/ Blocks(i) \/ Unblocks(i)

Next == \/ \E p \in Procs : Start(p) \/ Step(p) \/ Prompt(p) \/ StarterFails(p)
        \/ \E i \in Ids : Daemon(i)

Spec == Init /\ [][Next]_vars

-----------------------------------------------------------------------------
(* Properties                                                              *)

Names(sessions) == {sessions[k].id : k \in DOMAIN sessions}

\* A listing that succeeds names every session that served when it began and
\* still serves under its path, whatever dies, blocks, or is removed by another
\* listing meanwhile.
ListingComplete ==
  \A p \in Procs : Listed(p) =>
    \A i \in wasUp[p] : daemon[i] = "up" /\ path[i] => i \in Names(found[p])

\* ... and has removed every socket that was stale when it began.
StaleRemoved ==
  \A p \in Procs : Listed(p) => \A i \in wasStale[p] : ~path[i]

\* A serving daemon loses its socket file only to a listing that found it
\* before the daemon listened: between bind(2) and listen(2).
ServingSocketKept ==
  [][\A i \in Ids :
       daemon[i] = "up" /\ daemon'[i] = "up" /\ path[i] /\ ~path'[i]
         => \E p \in Procs :
              pc[p] = "unlink" /\ cur[p] = i /\ i \notin wasUp[p]]_vars

\* The number a prompt shows on a row is the one that picks that row.
PromptTruthful ==
  \A p \in Procs : Listed(p) \/ pc[p] = "prompt" =>
    LET sessions == Sorted(found[p])
    IN /\ Truthful(sessions, PickerSelectors, PickFree)
       /\ Truthful(sessions, TakeoverSelectors, PickExisting)

-----------------------------------------------------------------------------
(* What the documentation says, and the code does not keep                 *)

\* docs-src/session-model.md: --list "lists all alive sessions".  One daemon
\* that does not answer, or a stale socket that another listing removes first,
\* and nothing is listed.
AliveListed ==
  [][\A p \in Procs :
       command[p] = "list" /\ pc[p] \in Listing /\ pc'[p] = "failed"
         => \A i \in wasUp[p] : daemon[i] # "up"]_vars
=============================================================================
