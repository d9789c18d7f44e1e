--------------------------- MODULE SessionsProofs ---------------------------
(***************************************************************************)
(* Machine-checked facts about the listing in Sessions (enumerate_daemons, *)
(* remove_stale_socket), for any number of commands of any kind and any    *)
(* number of sessions.                                                     *)
(***************************************************************************)
EXTENDS Sessions, SelectProofs

-----------------------------------------------------------------------------
(* Types                                                                   *)

Labels == {"idle", "prompt", "detach", "attach", "launch", "starting", "ready",
           "readyAsked"} \cup Listing \cup Ended
Concerned == {"asked", "probe", "unlink", "detach", "attach", "starting",
              "ready", "readyAsked"}

\* TypeOK in three parts.
DirTypes ==
  /\ path \in [Ids -> BOOLEAN]
  /\ daemon \in [Ids -> {"none", "start", "bound", "up", "ending", "gone"}]
  /\ busy \in [Ids -> BOOLEAN] /\ stuck \in [Ids -> BOOLEAN]
ProcTypes ==
  /\ pc \in [Procs -> Labels]
  /\ command \in [Procs -> Commands \cup {"none"}]
  /\ todo \in [Procs -> SUBSET Ids] /\ cur \in [Procs -> Ids \cup {0}]
  /\ found \in [Procs -> Seq(Records)]
  /\ wasUp \in [Procs -> SUBSET Ids] /\ wasStale \in [Procs -> SUBSET Ids]
  /\ \A p \in Procs : pc[p] \in Concerned => cur[p] \in Ids
Owner == \A p \in Procs :
           pc[p] = "starting" => daemon[cur[p]] \in {"start", "bound"}

\* No two commands start the same session.
Owned ==
  \A p, q \in Procs : pc[p] = "starting" /\ pc[q] = "starting" /\ p # q
    => cur[p] # cur[q]

\* The answers come in the order of the ids, since the sockets are queried in
\* that order and none twice: what has been found is below what is being asked,
\* and both are below what is still to do.
Ascending(p) ==
  /\ \A j, k \in DOMAIN found[p] : j < k => found[p][j].id < found[p][k].id
  /\ \A k \in DOMAIN found[p], i \in todo[p] : found[p][k].id < i
  /\ pc[p] \in {"asked", "probe", "unlink"} =>
       /\ \A k \in DOMAIN found[p] : found[p][k].id < cur[p]
       /\ \A i \in todo[p] : cur[p] < i
  /\ pc[p] = "idle" => found[p] = <<>>

ProcsInv == ProcTypes /\ \A p \in Procs : Ascending(p)
TypeInv == DirTypes /\ ProcsInv /\ Owner /\ Owned

LEMMA TypeParts == DirTypes /\ ProcTypes /\ Owner <=> TypeOK
  BY DEF TypeOK, DirTypes, ProcTypes, Owner, Labels, Concerned

USE DEF dirVars, listVars

\* Sorting the answers gives a sequence of answers.
LEMMA SortedType ==
  ASSUME ProcsInv, NEW p \in Procs
  PROVE  Sorted(found[p]) \in Seq(Records)
<1> DEFINE s == found[p]
           D == DOMAIN s
           Good(f) == /\ \A k \in D : \E j \in D : f[j] = k
                      /\ \A j, k \in D : j < k => s[f[j]].id =< s[f[k]].id
           order == CHOOSE f \in [D -> D] : Good(f)
           id == [i \in D |-> i]
<1>1. s \in Seq(Records) /\ D = 1 .. Len(s) /\ Len(s) \in Nat
  BY DEF ProcsInv, ProcTypes
<1>2. \A j, k \in D : j < k => s[j].id < s[k].id
  BY DEF ProcsInv, Ascending
<1>3. \A k \in D : s[k] \in Records /\ s[k].id \in Nat
  <2>1. \A r \in Records : r.id \in Nat
    BY SessionsAssumption DEF Records, Ids
  <2> HIDE DEF s
  <2> QED BY <1>1, <2>1
<1>4. id \in [D -> D] /\ Good(id)
  <2> HIDE DEF D, s
  <2> QED BY <1>2, <1>3
<1>5. Sorted(s) = [i \in D |-> s[order[i]]]
  BY Zenon DEF Sorted
<1>6. order \in [D -> D]
  <2> HIDE DEF Good, D, id
  <2> QED BY <1>4, Zenon
<1> HIDE DEF order
<1> HIDE DEF s
<1>7. \A i \in 1 .. Len(s) : s[order[i]] \in Records
  BY <1>1, <1>3, <1>6
<1>8. Sorted(s) = [i \in 1 .. Len(s) |-> s[order[i]]]
  BY <1>1, <1>5
<1> QED BY <1>1, <1>7, <1>8 DEF s

\* A step of command p that does not lead into the listing, or to its next
\* socket: whatever the command turns to, it is a session.
LEMMA MoveKept ==
  ASSUME ProcsInv, NEW p \in Procs, NEW label \in Labels \ {"idle"},
         label \notin Listing, Goto(p, label),
         command' \in [Procs -> Commands \cup {"none"}],
         UNCHANGED cur \/ \E i \in Ids \cup {0} : Concern(p, i),
         label \in Concerned => cur'[p] \in Ids,
         UNCHANGED listVars \/ Forget(p)
  PROVE  ProcsInv'
<1>0. ProcTypes
  BY DEF ProcsInv
<1>1. /\ pc' \in [Procs -> Labels] /\ pc'[p] = label
      /\ \A q \in Procs \ {p} : pc'[q] = pc[q]
  BY <1>0 DEF ProcTypes, Goto
<1>2. /\ cur' \in [Procs -> Ids \cup {0}]
      /\ \A q \in Procs \ {p} : cur'[q] = cur[q]
  BY <1>0 DEF ProcTypes, Concern
<1>3. /\ todo' \in [Procs -> SUBSET Ids] /\ found' \in [Procs -> Seq(Records)]
      /\ wasUp' \in [Procs -> SUBSET Ids] /\ wasStale' \in [Procs -> SUBSET Ids]
  <2>1. CASE UNCHANGED listVars
    BY <1>0, <2>1 DEF ProcTypes
  <2>2. CASE Forget(p)
    <3>1. found' \in [Procs -> Seq(Records)]
      <4>1. <<>> \in Seq(Records)
        OBVIOUS
      <4> QED BY <1>0, <2>2, <4>1 DEF ProcTypes, Forget
    <3>2. todo' \in [Procs -> SUBSET Ids]
      BY <1>0, <2>2 DEF ProcTypes, Forget
    <3>3. wasUp' \in [Procs -> SUBSET Ids] /\ wasStale' \in [Procs -> SUBSET Ids]
      BY <1>0, <2>2 DEF ProcTypes, Forget
    <3> QED BY <3>1, <3>2, <3>3
  <2> QED BY <2>1, <2>2
<1>4. /\ \A q \in Procs \ {p} : found'[q] = found[q] /\ todo'[q] = todo[q]
      /\ \/ found'[p] = found[p] /\ todo'[p] = todo[p]
         \/ found'[p] = <<>> /\ todo'[p] = {}
  BY <1>0 DEF ProcTypes, Forget
<1>5. \A q \in Procs : pc'[q] \in Concerned => cur'[q] \in Ids
  BY <1>0, <1>1, <1>2 DEF ProcTypes
<1>6. ProcTypes'
  BY <1>1, <1>2, <1>3, <1>5 DEF ProcTypes
<1>7. ASSUME NEW q \in Procs PROVE Ascending(q)'
  <2>0. Ascending(q)
    BY DEF ProcsInv
  <2>1. CASE q # p
    BY <1>1, <1>2, <1>4, <2>0, <2>1 DEF Ascending
  <2>2. CASE q = p /\ found'[p] = found[p] /\ todo'[p] = todo[p]
    BY <1>1, <2>0, <2>2 DEF Ascending, Listing
  <2>3. CASE q = p /\ found'[p] = <<>> /\ todo'[p] = {}
    <3>1. DOMAIN found'[q] = {} /\ todo'[q] = {} /\ found'[q] = <<>>
      BY <2>3
    <3> QED BY <1>1, <2>3, <3>1 DEF Ascending, Listing
  <2> QED BY <1>4, <2>1, <2>2, <2>3
<1> QED BY <1>6, <1>7 DEF ProcsInv

LEMMA EndKept ==
  ASSUME ProcsInv, NEW p \in Procs, NEW how \in Ended, End(p, how)
  PROVE  ProcsInv'
<1>1. how \in Labels \ {"idle"} /\ how \notin Listing /\ how \notin Concerned
  BY DEF Labels, Ended, Listing, Concerned
<1>2. /\ Goto(p, how) /\ Forget(p) /\ Concern(p, 0) /\ 0 \in Ids \cup {0}
      /\ command' = [command EXCEPT ![p] = "none"]
  BY DEF End
<1>3. command' \in [Procs -> Commands \cup {"none"}]
  BY <1>2 DEF ProcsInv, ProcTypes
<1> QED BY <1>1, <1>2, <1>3, MoveKept

\* A choice is acted on: the session is one of the listing.
LEMMA FollowKept ==
  ASSUME ProcsInv, NEW p \in Procs, NEW choice, Follow(p, choice),
         \/ choice.do \in {"launch", "prompt", "fail"} /\ choice.id = 0
         \/ choice.do \in {"attach", "detach"} /\ choice.id \in Ids
  PROVE  ProcsInv' /\ pc'[p] # "starting"
<1>0. ProcTypes
  BY DEF ProcsInv
<1>1. CASE choice.do = "fail"
  <2>1. End(p, "failed") /\ "failed" \in Ended
    BY <1>1 DEF Follow, Ended
  <2>2. pc'[p] = "failed"
    BY <1>0, <2>1 DEF End, Goto, ProcTypes
  <2> QED BY <2>1, <2>2, EndKept
<1>2. CASE choice.do # "fail"
  <2>1. /\ Goto(p, choice.do) /\ Concern(p, choice.id) /\ UNCHANGED command
        /\ UNCHANGED listVars \/ Forget(p)
    BY <1>2 DEF Follow
  <2>2. /\ choice.do \in Labels \ {"idle"} /\ choice.do \notin Listing
        /\ choice.do # "starting" /\ choice.id \in Ids \cup {0}
        /\ choice.do \in Concerned => choice.id \in Ids
    BY <1>2 DEF Labels, Listing, Concerned
  <2>3. cur'[p] = choice.id /\ pc'[p] = choice.do
    BY <1>0, <2>1 DEF Concern, Goto, ProcTypes
  <2>4. command' \in [Procs -> Commands \cup {"none"}]
    BY <1>0, <2>1 DEF ProcTypes
  <2> QED BY <2>1, <2>2, <2>3, <2>4, MoveKept
<1> QED BY <1>1, <1>2

LEMMA SelectKept ==
  ASSUME ProcsInv, NEW p \in Procs, Select(p) \/ Prompt(p)
  PROVE  ProcsInv' /\ pc'[p] # "starting"
<1> DEFINE s == Sorted(found[p])
<1>0. ProcTypes /\ s \in Seq(Records) /\ \A r \in Records : r.id \in Ids
  BY SortedType DEF ProcsInv, Records
<1>1. CASE Select(p)
  <2>1. CASE command[p] = "list"
    <3>1. End(p, "done") /\ "done" \in Ended
      BY <1>1, <2>1 DEF Select, Ended
    <3>2. pc'[p] = "done"
      BY <1>0, <3>1 DEF End, Goto, ProcTypes
    <3> QED BY <3>1, <3>2, EndKept
  <2>2. CASE command[p] # "list"
    <3>1. Follow(p, Chosen(p))
      BY <1>1, <2>2 DEF Select
    <3>2. Chosen(p) \in {AutoSelect(s), AutoSelectExisting(s)}
      BY DEF Chosen
    <3> HIDE DEF Chosen, s
    <3>3. \/ Chosen(p).do \in {"launch", "prompt", "fail"} /\ Chosen(p).id = 0
          \/ Chosen(p).do \in {"attach", "detach"} /\ Chosen(p).id \in Ids
      <4>1. \A c \in {AutoSelect(s), AutoSelectExisting(s)} :
              \/ c.do \in {"launch", "prompt", "fail"} /\ c.id = 0
              \/ c.do \in {"attach", "detach"} /\ c.id \in Ids
        BY <1>0, ChoiceType
      <4> QED BY <3>2, <4>1, Zenon
    <3> QED BY <3>1, <3>3, FollowKept
  <2> QED BY <2>1, <2>2
<1>2. CASE Prompt(p)
  <2> DEFINE takeover == command[p] = "detach-connect"
             Pick(k) == IF takeover THEN PickExisting(s, k) ELSE PickFree(s, k)
             Do(k) == IF Pick(k) = 0 THEN "fail"
                      ELSE IF takeover THEN "detach" ELSE "attach"
  <2>1. \/ \E k : Follow(p, [do |-> Do(k), id |-> Pick(k)])
        \/ Follow(p, [do |-> "launch", id |-> 0])
    BY <1>2, Zenon DEF Prompt
  <2>2. \A k : Pick(k) \in Ids \cup {0}
    <3> HIDE DEF s
    <3> QED BY <1>0, PickType
  <2>3. \A k : \/ Do(k) = "fail" /\ Pick(k) = 0
               \/ Do(k) \in {"attach", "detach"} /\ Pick(k) \in Ids
    <3> HIDE DEF Pick
    <3> QED BY <2>2
  <2> HIDE DEF Do, Pick
  <2>4. ASSUME NEW k, Follow(p, [do |-> Do(k), id |-> Pick(k)])
        PROVE  ProcsInv' /\ pc'[p] # "starting"
    <3> DEFINE choice == [do |-> Do(k), id |-> Pick(k)]
    <3>1. choice.do = Do(k) /\ choice.id = Pick(k)
      OBVIOUS
    <3> HIDE DEF choice
    <3>2. Follow(p, choice)
      BY <2>4 DEF choice
    <3> QED BY <2>3, <3>1, <3>2, FollowKept
  <2>5. ASSUME Follow(p, [do |-> "launch", id |-> 0])
        PROVE  ProcsInv' /\ pc'[p] # "starting"
    <3> DEFINE choice == [do |-> "launch", id |-> 0]
    <3>1. choice.do = "launch" /\ choice.id = 0
      OBVIOUS
    <3> HIDE DEF choice
    <3>2. Follow(p, choice)
      BY <2>5 DEF choice
    <3> QED BY <3>1, <3>2, FollowKept
  <2> QED BY <2>1, <2>4, <2>5
<1> QED BY <1>1, <1>2

-----------------------------------------------------------------------------
(* The listing keeps the types and the order of its answers                *)

\* The command of p is all that a step disturbs.
OnlyProc(p) ==
  \A q \in Procs \ {p} : /\ pc'[q] = pc[q] /\ cur'[q] = cur[q]
                         /\ todo'[q] = todo[q] /\ found'[q] = found[q]

LEMMA OthersAscending ==
  ASSUME ProcsInv, NEW p \in Procs, OnlyProc(p), Ascending(p)', ProcTypes'
  PROVE  ProcsInv'
<1>1. ASSUME NEW q \in Procs, q # p PROVE Ascending(q)'
  <2>1. Ascending(q)
    BY DEF ProcsInv
  <2> QED BY <1>1, <2>1 DEF OnlyProc, Ascending
<1> QED BY <1>1 DEF ProcsInv

\* A listing begins with nothing found.
LEMMA ScanAscends ==
  ASSUME ProcsInv, NEW p \in Procs, pc[p] = "idle", Scan(p), UNCHANGED cur,
         \E c \in Commands : command' = [command EXCEPT ![p] = c]
  PROVE  ProcsInv'
<1>0. ProcTypes /\ found[p] = <<>>
  BY DEF ProcsInv, Ascending
<1>1. /\ pc' = [pc EXCEPT ![p] = "query"] /\ UNCHANGED <<cur, found>>
      /\ "query" \in Labels /\ "query" \notin Concerned
  BY DEF Scan, Goto, Labels, Listing, Concerned
<1>2. ProcTypes'
  BY <1>0, <1>1 DEF ProcTypes, Scan
<1>3. OnlyProc(p) /\ pc'[p] = "query" /\ found'[p] = <<>>
  BY <1>0, <1>1 DEF ProcTypes, OnlyProc, Scan
<1>4. Ascending(p)'
  <2>1. DOMAIN found'[p] = {}
    BY <1>3
  <2> QED BY <1>3, <2>1 DEF Ascending
<1> QED BY <1>2, <1>3, <1>4, OthersAscending

\* The next socket is above all that have been queried, and below the others.
LEMMA QueryAscends ==
  ASSUME ProcsInv, NEW p \in Procs, Query(p)
  PROVE  ProcsInv'
<1>0. ProcTypes /\ Ascending(p) /\ Ids \subseteq Nat
  BY SessionsAssumption DEF ProcsInv, Ids
<1>1. PICK i \in todo[p] :
        /\ \A j \in todo[p] : i =< j
        /\ todo' = [todo EXCEPT ![p] = todo[p] \ {i}]
        /\ cur' = [cur EXCEPT ![p] = i]
        /\ pc' = [pc EXCEPT ![p] = IF Connectable(i) THEN "asked" ELSE "probe"]
  BY DEF Query, Concern, Goto
<1>2. UNCHANGED <<command, found, wasUp, wasStale>>
  BY DEF Query
<1>3. i \in Ids /\ todo[p] \subseteq Ids /\ {"asked", "probe"} \subseteq Labels
  BY <1>0 DEF ProcTypes, Labels, Listing
<1>4. ProcTypes'
  BY <1>0, <1>1, <1>2, <1>3 DEF ProcTypes
<1>5. /\ OnlyProc(p) /\ found'[p] = found[p] /\ todo'[p] = todo[p] \ {i}
      /\ cur'[p] = i /\ pc'[p] # "idle"
  BY <1>0, <1>1, <1>2 DEF ProcTypes, OnlyProc
<1>6. /\ \A j \in todo[p] \ {i} : i < j
      /\ \A k \in DOMAIN found[p] : found[p][k].id < i
  <2>1. ASSUME NEW j \in todo[p] \ {i} PROVE i < j
    <3>1. i =< j
      BY <1>1
    <3>2. i \in Nat /\ j \in Nat /\ j # i
      BY <1>0, <1>3
    <3> QED BY <3>1, <3>2
  <2> QED BY <1>0, <2>1 DEF Ascending
<1>7. Ascending(p)'
  BY <1>0, <1>5, <1>6 DEF Ascending
<1> QED BY <1>4, <1>5, <1>7, OthersAscending

\* An answer comes from the session that was asked, and goes last.
LEMMA AnswerAscends ==
  ASSUME DirTypes, ProcsInv, NEW p \in Procs, Answer(p)
  PROVE  ProcsInv'
<1> DEFINE r == [id |-> cur[p], busy |-> busy[cur[p]]]
           s == found[p]
<1>0. ProcTypes /\ Ascending(p)
  BY DEF ProcsInv
<1>1. /\ pc[p] = "asked" /\ UNCHANGED <<command, cur, todo, wasUp, wasStale>>
      /\ pc' = [pc EXCEPT ![p] = "query"]
      /\ found' = [found EXCEPT ![p] = Append(s, r)]
  BY DEF Answer, Goto
<1>2. /\ cur[p] \in Ids /\ s \in Seq(Records) /\ todo[p] \subseteq Ids
      /\ "query" \in Labels /\ "query" \notin Concerned
  BY <1>0, <1>1 DEF ProcTypes, Concerned, Labels, Listing
<1>3. r \in Records /\ r.id = cur[p]
  BY <1>2 DEF Records, DirTypes
<1>4. /\ \A j, k \in DOMAIN s : j < k => s[j].id < s[k].id
      /\ \A k \in DOMAIN s, i \in todo[p] : s[k].id < i
      /\ \A k \in DOMAIN s : s[k].id < cur[p]
      /\ \A i \in todo[p] : cur[p] < i
  BY <1>0, <1>1 DEF Ascending
<1> HIDE DEF r, s
<1> DEFINE t == Append(s, r)
<1>5. t \in Seq(Records) /\ DOMAIN t = 1 .. Len(s) + 1 /\ DOMAIN s = 1 .. Len(s)
      /\ Len(s) \in Nat
  BY <1>2, <1>3
<1>6. t[Len(s) + 1] = r /\ \A k \in 1 .. Len(s) : t[k] = s[k]
  BY <1>2, <1>3
<1> HIDE DEF t
<1>7. ProcTypes'
  BY <1>0, <1>1, <1>2, <1>5 DEF ProcTypes, t
<1>8. /\ OnlyProc(p) /\ found'[p] = t /\ todo'[p] = todo[p] /\ pc'[p] = "query"
  BY <1>0, <1>1 DEF ProcTypes, OnlyProc, t
<1>9. /\ \A j, k \in DOMAIN t : j < k => t[j].id < t[k].id
      /\ \A k \in DOMAIN t, i \in todo[p] : t[k].id < i
  <2>1. \A k \in DOMAIN t : k \in 1 .. Len(s) \/ k = Len(s) + 1
    BY <1>5
  <2>2. ASSUME NEW j \in DOMAIN t, NEW k \in DOMAIN t, j < k
        PROVE  t[j].id < t[k].id
    <3>1. j \in 1 .. Len(s)
      BY <1>5, <2>2
    <3>2. CASE k = Len(s) + 1
      BY <1>3, <1>4, <1>5, <1>6, <3>1, <3>2
    <3>3. CASE k \in 1 .. Len(s)
      BY <1>4, <1>5, <1>6, <2>2, <3>1, <3>3
    <3> QED BY <2>1, <3>2, <3>3
  <2>3. ASSUME NEW k \in DOMAIN t, NEW i \in todo[p] PROVE t[k].id < i
    BY <1>3, <1>4, <1>5, <1>6, <2>1
  <2> QED BY <2>2, <2>3
<1>10. Ascending(p)'
  BY <1>8, <1>9 DEF Ascending
<1> QED BY <1>7, <1>8, <1>10, OthersAscending

\* A socket that is not there, or has been removed, is passed over.
LEMMA PassAscends ==
  ASSUME ProcsInv, NEW p \in Procs, NEW label \in {"unlink", "query"},
         pc[p] \in {"probe", "unlink"}, Goto(p, label),
         UNCHANGED <<command, cur, listVars>>
  PROVE  ProcsInv'
<1>0. ProcTypes /\ Ascending(p)
  BY DEF ProcsInv
<1>1. label \in Labels /\ cur[p] \in Ids /\ label # "idle"
  BY <1>0 DEF ProcTypes, Labels, Listing, Concerned
<1>2. OnlyProc(p) /\ pc'[p] = label
  BY <1>0 DEF ProcTypes, OnlyProc, Goto
<1>3. ProcTypes'
  BY <1>0, <1>1 DEF ProcTypes, Goto
<1>4. Ascending(p)'
  BY <1>0, <1>1, <1>2 DEF Ascending
<1> QED BY <1>2, <1>3, <1>4, OthersAscending

-----------------------------------------------------------------------------
(* Type correctness                                                        *)

\* The directory and the daemons keep their types.
LEMMA DirTypesStep == ASSUME DirTypes, Next PROVE DirTypes'
<1> USE DEF DirTypes
<1>1. ASSUME UNCHANGED dirVars PROVE DirTypes'
  BY <1>1
<1>2. ASSUME NEW i \in Ids, Daemon(i) PROVE DirTypes'
  BY <1>2 DEF Daemon, Dies, ShellExits, RemovesSocket, BrokerLeaves, Blocks,
              Unblocks
<1>3. ASSUME NEW p \in Procs, Start(p) \/ Prompt(p) PROVE DirTypes'
  BY <1>1, <1>3 DEF Start, Prompt
<1>4. ASSUME NEW p \in Procs, StarterFails(p) PROVE DirTypes'
  BY <1>4 DEF StarterFails
<1>5. ASSUME NEW p \in Procs,
             \/ Query(p) \/ Answer(p) \/ AnswerFails(p) \/ Probe(p) \/ Select(p)
             \/ Ready(p) \/ ReadyAnswer(p)
      PROVE  DirTypes'
  BY <1>1, <1>5 DEF Query, Answer, AnswerFails, Probe, Select, Ready,
                    ReadyAnswer
<1>6. ASSUME NEW p \in Procs, Unlink(p) PROVE DirTypes'
  BY <1>6 DEF Unlink, RemoveFile
<1>7. ASSUME NEW p \in Procs, Launch(p) PROVE DirTypes'
  BY <1>7 DEF Launch
<1>8. ASSUME NEW p \in Procs, Bind(p) \/ Listen(p) PROVE DirTypes'
  BY <1>8 DEF Bind, Listen
<1>9. ASSUME NEW p \in Procs, Detach(p) \/ Attach(p) PROVE DirTypes'
  <2>1. /\ UNCHANGED <<path, daemon, stuck>>
        /\ UNCHANGED busy \/ \E b \in BOOLEAN : busy' = [busy EXCEPT ![cur[p]] = b]
    BY <1>9 DEF Detach, Attach
  <2> QED BY <2>1
<1> QED BY <1>2, <1>3, <1>4, <1>5, <1>6, <1>7, <1>8, <1>9 DEF Next, Step

\* The commands keep theirs, and the order of the answers.
LEMMA ProcsStep ==
  ASSUME DirTypes, ProcsInv, Next
  PROVE  ProcsInv'
<1>0. ProcTypes
  BY DEF ProcsInv
<1>1. ASSUME UNCHANGED <<pc, command, cur, listVars>> PROVE ProcsInv'
  BY <1>1 DEF ProcsInv, ProcTypes, Ascending
<1>2. \A p \in Procs, c \in Commands :
        command' = [command EXCEPT ![p] = c]
          => command' \in [Procs -> Commands \cup {"none"}]
  BY <1>0 DEF ProcTypes
<1>3. UNCHANGED command => command' \in [Procs -> Commands \cup {"none"}]
  BY <1>0 DEF ProcTypes
<1>4. /\ {"attach", "detach", "launch", "starting", "ready", "readyAsked"}
            \subseteq Labels \ {"idle"}
      /\ {"attach", "detach", "launch", "starting", "ready", "readyAsked"}
            \cap Listing = {}
      /\ "launch" \notin Concerned /\ {"failed", "done"} \subseteq Ended
      /\ {"attach", "detach", "starting", "ready", "readyAsked"} \subseteq Concerned
  BY DEF Labels, Listing, Concerned, Ended
<1>5. \A i : \A p \in Procs : Concern(p, i) => cur'[p] = i
  BY <1>0 DEF ProcTypes, Concern
<1>6. \A p \in Procs : pc[p] \in Concerned => cur[p] \in Ids
  BY <1>0 DEF ProcTypes
<1>7. ASSUME NEW p \in Procs, Start(p) PROVE ProcsInv'
  <2>1. CASE \E c \in Commands :
               command' = [command EXCEPT ![p] = c] /\ Scan(p) /\ UNCHANGED cur
    <3>1. pc[p] = "idle"
      BY <1>7 DEF Start
    <3> QED BY <2>1, <3>1, ScanAscends
  <2>2. CASE \E c \in Commands, i \in Ids, label \in {"attach", "detach"} :
               /\ command' = [command EXCEPT ![p] = c]
               /\ Goto(p, label) /\ Concern(p, i) /\ UNCHANGED listVars
    <3>1. PICK c \in Commands, i \in Ids, label \in {"attach", "detach"} :
            /\ command' = [command EXCEPT ![p] = c]
            /\ Goto(p, label) /\ Concern(p, i) /\ UNCHANGED listVars
      BY <2>2
    <3>2. cur'[p] \in Ids /\ label \in Labels \ {"idle"} /\ label \notin Listing
      BY <1>4, <1>5, <3>1
    <3>3. command' \in [Procs -> Commands \cup {"none"}]
      BY <1>2, <3>1
    <3>4. i \in Ids \cup {0}
      OBVIOUS
    <3> QED BY <3>1, <3>2, <3>3, <3>4, MoveKept
  <2>3. CASE \E c \in Commands :
               /\ command' = [command EXCEPT ![p] = c]
               /\ Goto(p, "launch") /\ UNCHANGED <<cur, listVars>>
    BY <1>2, <1>4, <2>3, MoveKept
  <2>4. \/ \E c \in Commands :
             command' = [command EXCEPT ![p] = c] /\ Scan(p) /\ UNCHANGED cur
        \/ \E c \in Commands, i \in Ids, label \in {"attach", "detach"} :
             /\ command' = [command EXCEPT ![p] = c]
             /\ Goto(p, label) /\ Concern(p, i) /\ UNCHANGED listVars
        \/ \E c \in Commands :
             /\ command' = [command EXCEPT ![p] = c]
             /\ Goto(p, "launch") /\ UNCHANGED <<cur, listVars>>
    BY <1>7, Zenon DEF Start
  <2> QED BY <2>1, <2>2, <2>3, <2>4
<1>8. ASSUME NEW p \in Procs, \E how \in {"failed", "done"} : End(p, how)
      PROVE  ProcsInv'
  BY <1>4, <1>8, EndKept
<1>9. ASSUME NEW p \in Procs, NEW label \in {"attach", "ready", "readyAsked"},
             Goto(p, label), pc[p] \in Concerned,
             UNCHANGED <<command, cur, listVars>>
      PROVE  ProcsInv'
  <2>1. cur'[p] \in Ids
    BY <1>6, <1>9
  <2> QED BY <1>3, <1>4, <1>9, <2>1, MoveKept
<1>10. ASSUME NEW p \in Procs, Query(p) \/ Answer(p) PROVE ProcsInv'
  BY <1>10, QueryAscends, AnswerAscends
<1>11. ASSUME NEW p \in Procs, Probe(p) PROVE ProcsInv'
  <2>1. /\ pc[p] = "probe" /\ UNCHANGED <<command, cur, listVars>>
        /\ \E label \in {"unlink", "query"} : Goto(p, label)
    BY <1>11 DEF Probe
  <2> QED BY <2>1, PassAscends
<1>12. ASSUME NEW p \in Procs, Unlink(p) PROVE ProcsInv'
  <2>1. \/ End(p, "failed")
        \/ /\ pc[p] = "unlink" /\ UNCHANGED <<command, cur, listVars>>
           /\ Goto(p, "query")
    BY <1>12 DEF Unlink, FailListing
  <2> QED BY <1>8, <2>1, PassAscends
<1>13. ASSUME NEW p \in Procs, AnswerFails(p) \/ StarterFails(p) \/ Attach(p)
       PROVE  ProcsInv'
  <2>1. \E how \in {"failed", "done"} : End(p, how)
    BY <1>13 DEF AnswerFails, FailListing, StarterFails, Attach
  <2> QED BY <1>8, <2>1
<1>14. ASSUME NEW p \in Procs, Detach(p) \/ Listen(p) \/ Ready(p) \/ ReadyAnswer(p)
       PROVE  ProcsInv'
  <2>1. \/ \E how \in {"failed", "done"} : End(p, how)
        \/ /\ \E label \in {"attach", "ready", "readyAsked"} : Goto(p, label)
           /\ UNCHANGED <<command, cur, listVars>>
    BY <1>14 DEF Detach, Listen, Ready, ReadyAnswer
  <2>2. pc[p] \in Concerned
    BY <1>14 DEF Detach, Listen, Ready, ReadyAnswer, Concerned
  <2> QED BY <1>8, <1>9, <2>1, <2>2
<1>15. ASSUME NEW p \in Procs, Launch(p) PROVE ProcsInv'
  <2>1. CASE End(p, "failed")
    BY <1>8, <2>1
  <2>2. CASE \E i \in Ids : /\ Goto(p, "starting") /\ Concern(p, i)
                            /\ UNCHANGED <<command, listVars>>
    BY <1>3, <1>4, <1>5, <2>2, MoveKept
  <2> QED BY <1>15, <2>1, <2>2, Zenon DEF Launch
<1>16. ASSUME NEW p \in Procs, Bind(p) PROVE ProcsInv'
  BY <1>1, <1>16 DEF Bind
<1>17. ASSUME NEW i \in Ids, Daemon(i) PROVE ProcsInv'
  BY <1>1, <1>17 DEF Daemon, Dies, ShellExits, RemovesSocket, BrokerLeaves,
                     Blocks, Unblocks, DaemonOnly
<1>18. ASSUME NEW p \in Procs, Select(p) \/ Prompt(p) PROVE ProcsInv'
  BY <1>18, SelectKept
<1> QED BY <1>7, <1>10, <1>11, <1>12, <1>13, <1>14, <1>15, <1>16, <1>17, <1>18
        DEF Next, Step

\* A session belongs to the command that starts it: no other command starts it
\* too, and no daemon's end is the end of one that is being started.
LEMMA OwnerStep ==
  ASSUME DirTypes, ProcsInv, Owner, Owned, Next
  PROVE  Owner' /\ Owned'
<1>0. ProcTypes
  BY DEF ProcsInv
<1>1. ASSUME \A q \in Procs : pc'[q] = "starting"
               => /\ pc[q] = "starting" /\ cur'[q] = cur[q]
                  /\ daemon'[cur[q]] \in {"start", "bound"}
      PROVE  Owner' /\ Owned'
  BY <1>1 DEF Owner, Owned
<1>2. \A q \in Procs : pc[q] = "starting"
        => daemon[cur[q]] \in {"start", "bound"} /\ cur[q] \in Ids
  BY <1>0 DEF Owner, ProcTypes, Concerned
<1>3. ASSUME NEW p \in Procs, UNCHANGED daemon, pc'[p] # "starting",
             \A q \in Procs \ {p} : pc'[q] = pc[q] /\ cur'[q] = cur[q]
      PROVE  Owner' /\ Owned'
  BY <1>1, <1>2, <1>3
<1>4. ASSUME NEW p \in Procs, UNCHANGED daemon, NEW label, Goto(p, label),
             label # "starting", UNCHANGED cur \/ \E i : Concern(p, i)
      PROVE  Owner' /\ Owned'
  <2>1. /\ pc'[p] # "starting"
        /\ \A q \in Procs \ {p} : pc'[q] = pc[q] /\ cur'[q] = cur[q]
    BY <1>0, <1>4 DEF ProcTypes, Goto, Concern
  <2> QED BY <1>3, <1>4, <2>1
<1>5. ASSUME NEW p \in Procs, UNCHANGED daemon,
             \E how \in {"failed", "done"} : End(p, how)
      PROVE  Owner' /\ Owned'
  BY <1>4, <1>5 DEF End
<1>6. ASSUME NEW i \in Ids, Daemon(i) PROVE Owner' /\ Owned'
  <2>1. UNCHANGED <<pc, cur>>
    BY <1>6 DEF Daemon, Dies, ShellExits, RemovesSocket, BrokerLeaves, Blocks,
                Unblocks, DaemonOnly
  <2>2. \A j \in Ids : daemon[j] \in {"start", "bound"} => daemon'[j] = daemon[j]
    BY <1>6 DEF Daemon, Dies, ShellExits, RemovesSocket, BrokerLeaves, Blocks,
                Unblocks, DirTypes
  <2> QED BY <1>1, <1>2, <2>1, <2>2
<1>7. ASSUME NEW p \in Procs,
             \/ Start(p) \/ Query(p) \/ Answer(p) \/ Probe(p) \/ Unlink(p)
             \/ AnswerFails(p) \/ Detach(p) \/ Attach(p) \/ Ready(p)
             \/ ReadyAnswer(p)
      PROVE  Owner' /\ Owned'
  <2>1. UNCHANGED daemon
    BY <1>7 DEF Start, Query, Answer, Probe, Unlink, AnswerFails, Detach, Attach,
                Ready, ReadyAnswer
  <2>2. \/ \E how \in {"failed", "done"} : End(p, how)
        \/ \E label : /\ Goto(p, label) /\ label # "starting"
                      /\ UNCHANGED cur \/ \E i : Concern(p, i)
    <3>1. CASE Start(p)
      BY <3>1 DEF Start, Scan
    <3>2. CASE Query(p) \/ Answer(p) \/ Probe(p)
      BY <3>2 DEF Query, Answer, Probe
    <3>3. CASE Unlink(p) \/ AnswerFails(p)
      BY <3>3 DEF Unlink, AnswerFails, FailListing
    <3>4. CASE Detach(p) \/ Attach(p) \/ Ready(p) \/ ReadyAnswer(p)
      BY <3>4 DEF Detach, Attach, Ready, ReadyAnswer
    <3> QED BY <1>7, <3>1, <3>2, <3>3, <3>4
  <2> QED BY <1>4, <1>5, <2>1, <2>2
<1>8. ASSUME NEW p \in Procs, Select(p) \/ Prompt(p) PROVE Owner' /\ Owned'
  <2>1. UNCHANGED daemon /\ pc'[p] # "starting"
    BY <1>8, SelectKept DEF Select, Prompt
  <2>2. \E label, i : Goto(p, label) /\ Concern(p, i)
    BY <1>8 DEF Select, Prompt, Follow, End
  <2>3. \A q \in Procs \ {p} : pc'[q] = pc[q] /\ cur'[q] = cur[q]
    BY <1>0, <2>2 DEF ProcTypes, Goto, Concern
  <2> QED BY <1>3, <2>1, <2>3
<1>9. ASSUME NEW p \in Procs, Launch(p) PROVE Owner' /\ Owned'
  <2>1. CASE End(p, "failed") /\ UNCHANGED daemon
    BY <1>5, <2>1
  <2>2. CASE \E i \in Ids : /\ FreshId(i)
                            /\ daemon' = [daemon EXCEPT ![i] = "start"]
                            /\ Goto(p, "starting") /\ Concern(p, i)
    <3>1. PICK i \in Ids : /\ daemon[i] = "none"
                           /\ daemon' = [daemon EXCEPT ![i] = "start"]
                           /\ Goto(p, "starting") /\ Concern(p, i)
      BY <2>2 DEF FreshId
    <3>2. /\ pc'[p] = "starting" /\ cur'[p] = i
          /\ \A q \in Procs \ {p} : pc'[q] = pc[q] /\ cur'[q] = cur[q]
      BY <1>0, <3>1 DEF ProcTypes, Goto, Concern
    <3>3. \A q \in Procs \ {p} : pc[q] = "starting" => cur[q] # i
      BY <1>2, <3>1
    <3>4. /\ daemon'[i] = "start"
          /\ \A j \in Ids \ {i} : daemon'[j] = daemon[j]
      BY <3>1 DEF DirTypes
    <3>5. Owner'
      BY <1>2, <3>2, <3>3, <3>4 DEF Owner
    <3>6. Owned'
      BY <3>2, <3>3 DEF Owned
    <3> QED BY <3>5, <3>6
  <2> QED BY <1>9, <2>1, <2>2, Zenon DEF Launch
<1>10. ASSUME NEW p \in Procs, Bind(p) \/ Listen(p) \/ StarterFails(p)
       PROVE  Owner' /\ Owned'
  <2>0. pc[p] = "starting" /\ cur[p] \in Ids
    BY <1>2, <1>10 DEF Bind, Listen, StarterFails
  <2>1. \A j \in Ids \ {cur[p]} : daemon'[j] = daemon[j]
    BY <1>10, <2>0 DEF Bind, Listen, StarterFails, DirTypes
  <2>2. \A q \in Procs \ {p} : pc'[q] = pc[q] /\ cur'[q] = cur[q]
    BY <1>0, <1>10 DEF Bind, Listen, StarterFails, End, Goto, Concern, ProcTypes
  <2>3. ASSUME pc'[p] = "starting"
        PROVE  cur'[p] = cur[p] /\ daemon'[cur[p]] \in {"start", "bound"}
    <3>1. Bind(p)
      BY <1>0, <1>10, <2>3 DEF Listen, StarterFails, End, Goto, ProcTypes
    <3> QED BY <2>0, <3>1 DEF Bind, DirTypes
  <2>4. \A q \in Procs \ {p} : pc[q] = "starting" => cur[q] # cur[p]
    BY <2>0 DEF Owned
  <2> QED BY <1>1, <1>2, <2>0, <2>1, <2>2, <2>3, <2>4
<1> QED BY <1>6, <1>7, <1>8, <1>9, <1>10 DEF Next, Step

LEMMA TypeInvariant == Spec => []TypeInv
<1>1. Init => TypeInv
  <2> SUFFICES ASSUME Init PROVE TypeInv
    OBVIOUS
  <2>1. DirTypes
    BY DEF Init, DirTypes
  <2>2. "idle" \in Labels /\ "idle" \notin Concerned /\ <<>> \in Seq(Records)
    BY DEF Labels, Concerned
  <2>3. ProcTypes
    BY <2>2 DEF Init, ProcTypes
  <2>4. \A p \in Procs : pc[p] = "idle" /\ found[p] = <<>> /\ todo[p] = {}
    BY DEF Init
  <2>5. ASSUME NEW p \in Procs PROVE Ascending(p)
    <3>1. DOMAIN found[p] = {}
      BY <2>4
    <3> QED BY <2>4, <3>1 DEF Ascending
  <2> QED BY <2>1, <2>3, <2>4, <2>5 DEF TypeInv, ProcsInv, Owner, Owned
<1>2. TypeInv /\ [Next]_vars => TypeInv'
  <2>1. ASSUME TypeInv, UNCHANGED vars PROVE TypeInv'
    BY <2>1 DEF TypeInv, vars, DirTypes, ProcsInv, ProcTypes, Ascending, Owner,
                Owned
  <2>2. ASSUME TypeInv, Next PROVE TypeInv'
    BY <2>2, DirTypesStep, ProcsStep, OwnerStep DEF TypeInv
  <2> QED BY <2>1, <2>2
<1> QED BY <1>1, <1>2, PTL DEF Spec

(***************************************************************************)
(* Every variable keeps its type, a command always knows the session it is *)
(* concerned with, and a session that is being started is not touched by   *)
(* anything but the command that starts it.                                *)
(***************************************************************************)
THEOREM TypeCorrect == Spec => []TypeOK
<1>1. TypeInv => TypeOK
  BY TypeParts DEF TypeInv, ProcsInv
<1> QED BY <1>1, TypeInvariant, PTL

(***************************************************************************)
(* The number a prompt shows on a row is the one that picks that row, in   *)
(* the picker, which numbers the free sessions only, and in the takeover   *)
(* prompt, which numbers all of them, whatever the listing has found.      *)
(***************************************************************************)
THEOREM PromptTruthfulCorrect == Spec => []PromptTruthful
<1>1. TypeInv => PromptTruthful
  <2> SUFFICES ASSUME ProcsInv, NEW p \in Procs
               PROVE  /\ Truthful(Sorted(found[p]), PickerSelectors, PickFree)
                      /\ Truthful(Sorted(found[p]), TakeoverSelectors,
                                  PickExisting)
    BY DEF TypeInv, PromptTruthful
  <2>1. Sorted(found[p]) \in Seq(Records)
    BY SortedType
  <2> QED BY <2>1, PickerTruthful, TakeoverTruthful
<1> QED BY <1>1, TypeInvariant, PTL

-----------------------------------------------------------------------------
(* The listing: its inductive invariant                                    *)

\* What the argument needs of the types.
Types == DirTypes /\ ProcTypes

LEMMA TypesHold == Spec => []Types
<1>1. TypeInv => Types
  BY DEF TypeInv, ProcsInv, Types
<1> QED BY <1>1, TypeInvariant, PTL

\* The scan is not undone: what served then has served ever since or ended,
\* and what was stale stays so.  No daemon ever serves again.
Remembered(p) ==
  /\ \A i \in wasUp[p] : daemon[i] \in {"up", "ending", "gone"}
  /\ \A i \in wasStale[p] : daemon[i] = "gone"

\* A session that served and still serves under its path is still to be
\* queried, has been found, or is being asked ...
Covered(p) ==
  \A i \in wasUp[p] : daemon[i] = "up" /\ path[i]
    => \/ i \in todo[p] \/ i \in Names(found[p])
       \/ pc[p] = "asked" /\ cur[p] = i

\* ... and is not what the listing takes for stale.
NotSuspected(p) ==
  pc[p] \in {"probe", "unlink"} /\ cur[p] \in wasUp[p]
    => ~(daemon[cur[p]] = "up" /\ path[cur[p]])

\* A stale socket is still to be queried, or on its way out.
Doomed(p) ==
  \A i \in wasStale[p] : path[i]
    => i \in todo[p] \/ (pc[p] \in {"probe", "unlink"} /\ cur[p] = i)

ProcInv(p) ==
  /\ Remembered(p)
  /\ pc[p] \in Listing => Covered(p) /\ NotSuspected(p) /\ Doomed(p)
ListingInv == \A p \in Procs : ProcInv(p)

-----------------------------------------------------------------------------
(* What a step does to the directory and to the other commands             *)

\* Daemons get on with their lives: one that serves, ends or is gone never
\* serves again once it has stopped, and its socket file never comes back.
Aged ==
  \A i \in Ids : daemon[i] \in {"up", "ending", "gone"} =>
    /\ daemon'[i] \in {"up", "ending", "gone"}
    /\ daemon'[i] = "up" => daemon[i] = "up"
    /\ daemon[i] = "gone" => daemon'[i] = "gone"
    /\ path'[i] => path[i]

\* A step leaves command p alone.
Same(p) == /\ pc'[p] = pc[p] /\ cur'[p] = cur[p] /\ todo'[p] = todo[p]
           /\ found'[p] = found[p] /\ wasUp'[p] = wasUp[p]
           /\ wasStale'[p] = wasStale[p]
Alone(p) == \A q \in Procs \ {p} : Same(q)

\* p is not listing after the step.
Leaves(p) == /\ pc'[p] \notin Listing
             /\ wasUp'[p] \subseteq wasUp[p] /\ wasStale'[p] \subseteq wasStale[p]

\* A command that a step leaves alone may see a session end or a socket go,
\* and is as right as before.
LEMMA OthersKept ==
  ASSUME Types, Aged, NEW p \in Procs, ProcInv(p), Same(p)
  PROVE  ProcInv(p)'
<1>0. wasUp[p] \subseteq Ids /\ wasStale[p] \subseteq Ids
  BY DEF Types, ProcTypes
<1>1. Remembered(p)'
  BY <1>0 DEF ProcInv, Remembered, Aged, Same
<1>2. ASSUME pc[p] \in Listing PROVE Covered(p)'
  BY <1>0, <1>2 DEF ProcInv, Remembered, Covered, Aged, Same
<1>3. ASSUME pc[p] \in Listing PROVE NotSuspected(p)'
  BY <1>0, <1>3 DEF ProcInv, Remembered, NotSuspected, Aged, Same
<1>4. ASSUME pc[p] \in Listing PROVE Doomed(p)'
  BY <1>0, <1>4 DEF ProcInv, Remembered, Doomed, Aged, Same
<1> QED BY <1>1, <1>2, <1>3, <1>4 DEF ProcInv, Same

\* Of a command that is not listing only what it remembers matters.
LEMMA LeavingKept ==
  ASSUME Types, Aged, NEW p \in Procs, ProcInv(p), Leaves(p)
  PROVE  ProcInv(p)'
<1>0. wasUp[p] \subseteq Ids /\ wasStale[p] \subseteq Ids
  BY DEF Types, ProcTypes
<1>1. Remembered(p)'
  BY <1>0 DEF ProcInv, Remembered, Aged, Leaves
<1> QED BY <1>1 DEF ProcInv, Leaves

\* No step brings a daemon or its socket back: a socket file is created only
\* for an id that is being started, and only then does a daemon begin to serve.
LEMMA AgedStep == ASSUME Types, Next PROVE Aged
<1> USE DEF Types, DirTypes, Aged
<1>1. ASSUME UNCHANGED <<path, daemon>> PROVE Aged
  BY <1>1
<1>2. ASSUME NEW i \in Ids, Daemon(i) PROVE Aged
  BY <1>2 DEF Daemon, Dies, ShellExits, RemovesSocket, BrokerLeaves, Blocks,
              Unblocks
<1>3. ASSUME NEW p \in Procs, Start(p) \/ Prompt(p) PROVE Aged
  BY <1>1, <1>3 DEF Start, Prompt
<1>4. ASSUME NEW p \in Procs, StarterFails(p) PROVE Aged
  BY <1>4 DEF StarterFails
<1>5. ASSUME NEW p \in Procs,
             \/ Query(p) \/ Answer(p) \/ AnswerFails(p) \/ Probe(p) \/ Select(p)
             \/ Detach(p) \/ Attach(p) \/ Ready(p) \/ ReadyAnswer(p)
      PROVE  Aged
  BY <1>1, <1>5 DEF Query, Answer, AnswerFails, Probe, Select, Detach, Attach,
                    Ready, ReadyAnswer
<1>6. ASSUME NEW p \in Procs, Unlink(p) PROVE Aged
  BY <1>6 DEF Unlink, RemoveFile
<1>7. ASSUME NEW p \in Procs, Launch(p) PROVE Aged
  BY <1>7 DEF Launch, FreshId
<1>8. ASSUME NEW p \in Procs, Bind(p) \/ Listen(p) PROVE Aged
  BY <1>8 DEF Bind, Listen
<1> QED BY <1>2, <1>3, <1>4, <1>5, <1>6, <1>7, <1>8 DEF Next, Step

-----------------------------------------------------------------------------
(* Steps that are not part of a listing, or end it                         *)

\* What such a step does to its command.
LEMMA EndLeaves ==
  ASSUME ProcTypes, NEW p \in Procs, NEW how \in Ended, End(p, how)
  PROVE  Alone(p) /\ Leaves(p)
BY DEF ProcTypes, End, Goto, Concern, Forget, Ended, Alone, Same, Leaves, Listing

\* A command goes on to something else than listing, with or without another
\* session to be concerned with.
LEMMA GotoLeaves ==
  ASSUME ProcTypes, NEW p \in Procs, NEW label, label \notin Listing,
         Goto(p, label),
         UNCHANGED cur \/ \E i : Concern(p, i),
         UNCHANGED listVars \/ Forget(p)
  PROVE  Alone(p) /\ Leaves(p)
BY DEF ProcTypes, Goto, Concern, Forget, Alone, Same, Leaves, Listing

\* A choice among the sessions is one of these.
LEMMA FollowLeaves ==
  ASSUME ProcTypes, NEW p \in Procs, NEW choice, choice.do \notin Listing,
         Follow(p, choice)
  PROVE  Alone(p) /\ Leaves(p)
<1>1. CASE choice.do = "fail"
  BY <1>1, EndLeaves DEF Follow, Ended
<1>2. CASE choice.do # "fail"
  <2>1. /\ Goto(p, choice.do) /\ Concern(p, choice.id)
        /\ UNCHANGED listVars \/ Forget(p)
    BY <1>2 DEF Follow
  <2> QED BY <2>1, GotoLeaves
<1> QED BY <1>1, <1>2

\* Selection never leads back into the listing.
LEMMA SelectLeaves ==
  ASSUME ProcTypes, NEW p \in Procs, Select(p) \/ Prompt(p)
  PROVE  Alone(p) /\ Leaves(p)
<1>1. CASE Select(p)
  <2>1. CASE command[p] = "list"
    BY <1>1, <2>1, EndLeaves DEF Select, Ended
  <2>2. CASE command[p] # "list"
    <3>1. \A s : /\ AutoSelect(s).do \in {"launch", "attach", "prompt"}
                 /\ AutoSelectExisting(s).do \in {"fail", "detach", "prompt"}
      BY DEF AutoSelect, AutoSelectExisting
    <3>2. Chosen(p).do \notin Listing
      BY <3>1 DEF Chosen, Listing
    <3>3. Follow(p, Chosen(p))
      BY <1>1, <2>2 DEF Select
    <3> HIDE DEF Chosen
    <3> QED BY <3>2, <3>3, FollowLeaves
  <2> QED BY <2>1, <2>2
<1>2. CASE Prompt(p)
  <2> DEFINE takeover == command[p] = "detach-connect"
             Pick(k) == IF takeover THEN PickExisting(Sorted(found[p]), k)
                                    ELSE PickFree(Sorted(found[p]), k)
             Do(k) == IF Pick(k) = 0 THEN "fail"
                      ELSE IF takeover THEN "detach" ELSE "attach"
  <2>1. \/ \E k : Follow(p, [do |-> Do(k), id |-> Pick(k)])
        \/ Follow(p, [do |-> "launch", id |-> 0])
    BY <1>2, Zenon DEF Prompt
  <2>2. \A k : Do(k) \notin Listing
    BY DEF Listing
  <2> HIDE DEF Do, Pick
  <2>3. ASSUME NEW k, Follow(p, [do |-> Do(k), id |-> Pick(k)])
        PROVE  Alone(p) /\ Leaves(p)
    <3>1. [do |-> Do(k), id |-> Pick(k)].do \notin Listing
      BY <2>2
    <3> QED BY <2>3, <3>1, FollowLeaves
  <2>4. ASSUME Follow(p, [do |-> "launch", id |-> 0])
        PROVE  Alone(p) /\ Leaves(p)
    <3>1. [do |-> "launch", id |-> 0].do \notin Listing
      BY DEF Listing
    <3> QED BY <2>4, <3>1, FollowLeaves
  <2> QED BY <2>1, <2>3, <2>4
<1> QED BY <1>1, <1>2

\* All the steps of a command after which it is not listing.
LEMMA LeavingStep ==
  ASSUME ProcTypes, NEW p \in Procs,
         \/ Start(p) /\ pc'[p] # "query"
         \/ Unlink(p) /\ pc'[p] # "query"
         \/ AnswerFails(p) \/ Select(p) \/ Prompt(p) \/ Detach(p) \/ Attach(p)
         \/ Launch(p)
         \/ Listen(p) \/ StarterFails(p) \/ Ready(p) \/ ReadyAnswer(p)
  PROVE  Alone(p) /\ Leaves(p)
<1> DEFINE Goal == Alone(p) /\ Leaves(p)
<1> SUFFICES Goal
  OBVIOUS
<1>0. /\ \A label : Goto(p, label) => pc'[p] = label
      /\ {"detach", "attach", "launch", "starting", "ready", "readyAsked"}
            \cap Listing = {}
      /\ {"failed", "done"} \subseteq Ended
  BY DEF ProcTypes, Goto, Listing, Ended
<1>1. CASE Start(p) /\ pc'[p] # "query"
  <2>1. \E label \in {"attach", "detach", "launch"} :
          /\ Goto(p, label) /\ UNCHANGED listVars
          /\ UNCHANGED cur \/ \E i : Concern(p, i)
    BY <1>0, <1>1 DEF Start, Scan
  <2> QED BY <1>0, <2>1, GotoLeaves
<1>2. CASE AnswerFails(p) \/ StarterFails(p)
  BY <1>0, <1>2, EndLeaves DEF AnswerFails, FailListing, StarterFails
<1>3. CASE Unlink(p) /\ pc'[p] # "query"
  BY <1>0, <1>3, EndLeaves DEF Unlink, FailListing
<1>4. CASE Select(p) \/ Prompt(p)
  BY <1>4, SelectLeaves
<1>5. CASE Detach(p)
  <2>1. \/ Goto(p, "attach") /\ UNCHANGED <<cur, listVars>>
        \/ \E how \in {"failed", "done"} : End(p, how)
    BY <1>5 DEF Detach
  <2> QED BY <1>0, <2>1, EndLeaves, GotoLeaves
<1>6. CASE Attach(p)
  <2>1. \E how \in {"failed", "done"} : End(p, how)
    BY <1>6 DEF Attach
  <2> QED BY <1>0, <2>1, EndLeaves
<1>7. CASE Launch(p)
  BY <1>0, <1>7, EndLeaves, GotoLeaves DEF Launch
<1>8. CASE Listen(p)
  BY <1>0, <1>8, GotoLeaves DEF Listen
<1>9. CASE Ready(p) \/ ReadyAnswer(p)
  BY <1>0, <1>9, EndLeaves, GotoLeaves DEF Ready, ReadyAnswer
<1> QED BY <1>1, <1>2, <1>3, <1>4, <1>5, <1>6, <1>7, <1>8, <1>9

-----------------------------------------------------------------------------
(* The listing                                                             *)

\* The scan remembers what it has still to query.
LEMMA ScanKept ==
  ASSUME Types, Aged, NEW p \in Procs, Scan(p), UNCHANGED <<cur, dirVars>>
  PROVE  Alone(p) /\ ProcInv(p)'
<1> USE DEF Types, DirTypes, ProcTypes, Concerned
<1>1. Alone(p)
  BY DEF Scan, Goto, Alone, Same
<1>2. /\ pc'[p] = "query" /\ todo'[p] = {i \in Ids : path[i]}
      /\ wasUp'[p] = {i \in Ids : path[i] /\ daemon[i] = "up"}
      /\ wasStale'[p] = {i \in Ids : path[i] /\ daemon[i] = "gone"}
  BY DEF Scan, Goto
<1>3. ProcInv(p)'
  BY <1>2 DEF ProcInv, Remembered, Covered, NotSuspected, Doomed
<1> QED BY <1>1, <1>3

\* A socket leaves the list of those to query for the daemon's answer, which
\* one that serves can give, or for the probe, which a stale one fails.
LEMMA QueryKept ==
  ASSUME Types, NEW p \in Procs, ProcInv(p), Query(p)
  PROVE  Alone(p) /\ ProcInv(p)'
<1> USE DEF Types, DirTypes, ProcTypes, Concerned
<1>1. PICK i \in todo[p] :
        /\ todo' = [todo EXCEPT ![p] = todo[p] \ {i}]
        /\ Concern(p, i)
        /\ Goto(p, IF Connectable(i) THEN "asked" ELSE "probe")
  BY DEF Query
<1>2. UNCHANGED <<dirVars, found, wasUp, wasStale>> /\ pc[p] = "query"
  BY DEF Query
<1>3. /\ i \in Ids /\ cur'[p] = i /\ todo'[p] = todo[p] \ {i}
      /\ pc'[p] = IF Connectable(i) THEN "asked" ELSE "probe"
  BY <1>1 DEF Concern, Goto
<1>4. Alone(p)
  BY <1>1, <1>2, <1>3 DEF Concern, Goto, Alone, Same
<1>5. Covered(p) /\ Doomed(p) /\ Remembered(p)
  BY <1>2 DEF ProcInv, Listing
<1>6. Remembered(p)' /\ pc'[p] \in Listing
  BY <1>2, <1>3, <1>5 DEF Remembered, Listing
<1>7. Covered(p)'
  BY <1>2, <1>3, <1>5 DEF Covered, Connectable
<1>8. NotSuspected(p)'
  BY <1>2, <1>3 DEF NotSuspected, Connectable
<1>9. Doomed(p)'
  BY <1>2, <1>3, <1>5 DEF Doomed, Remembered, Connectable
<1> QED BY <1>4, <1>6, <1>7, <1>8, <1>9 DEF ProcInv

\* An answer is recorded.
LEMMA AnswerKept ==
  ASSUME Types, NEW p \in Procs, ProcInv(p), Answer(p)
  PROVE  Alone(p) /\ ProcInv(p)'
<1> USE DEF Types, DirTypes, ProcTypes, Concerned
<1> DEFINE r == [id |-> cur[p], busy |-> busy[cur[p]]]
           s == found[p]
<1>1. /\ UNCHANGED <<dirVars, cur, todo, wasUp, wasStale>> /\ pc[p] = "asked"
      /\ pc'[p] = "query" /\ found' = [found EXCEPT ![p] = Append(s, r)]
  BY DEF Answer, Goto
<1>2. Alone(p) /\ found'[p] = Append(s, r)
  BY <1>1 DEF Answer, Goto, Alone, Same
<1>3. Names(found[p]) \subseteq Names(found'[p]) /\ cur[p] \in Names(found'[p])
  <2>1. s \in Seq(Records) /\ r.id = cur[p]
    OBVIOUS
  <2> HIDE DEF r
  <2>2. r \in Records
    BY <1>1 DEF Records, r
  <2> HIDE DEF s
  <2> DEFINE t == Append(s, r)
  <2>3. /\ \A k \in DOMAIN s : k \in DOMAIN t /\ t[k] = s[k]
        /\ Len(s) + 1 \in DOMAIN t /\ t[Len(s) + 1] = r
    BY <2>1, <2>2
  <2> HIDE DEF t
  <2>4. Names(s) \subseteq Names(t) /\ cur[p] \in Names(t)
    BY <2>1, <2>3 DEF Names
  <2> QED BY <1>2, <2>4 DEF s, t
<1>4. Covered(p) /\ Doomed(p) /\ Remembered(p)
  BY <1>1 DEF ProcInv, Listing
<1>5. Remembered(p)' /\ pc'[p] \in Listing
  BY <1>1, <1>4 DEF Remembered, Listing
<1>6. Covered(p)' /\ NotSuspected(p)' /\ Doomed(p)'
  BY <1>1, <1>3, <1>4 DEF Covered, NotSuspected, Doomed
<1> QED BY <1>2, <1>5, <1>6 DEF ProcInv

\* The probe finds out a stale socket, and nothing that served when the
\* listing began is taken for one.
LEMMA ProbeKept ==
  ASSUME Types, NEW p \in Procs, ProcInv(p), Probe(p)
  PROVE  Alone(p) /\ ProcInv(p)'
<1> USE DEF Types, DirTypes, ProcTypes, Concerned
<1>1. /\ UNCHANGED <<dirVars, cur, listVars>> /\ pc[p] = "probe"
      /\ pc'[p] = IF Refused(cur[p]) THEN "unlink" ELSE "query"
      /\ cur[p] \in Ids
  BY DEF Probe, Goto
<1>2. Alone(p)
  BY <1>1 DEF Probe, Goto, Alone, Same
<1>3. Covered(p) /\ Doomed(p) /\ Remembered(p) /\ NotSuspected(p)
  BY <1>1 DEF ProcInv, Listing
<1>4. Remembered(p)' /\ pc'[p] \in Listing
  BY <1>1, <1>3 DEF Remembered, Listing
<1>5. Covered(p)' /\ NotSuspected(p)'
  BY <1>1, <1>3 DEF Covered, NotSuspected
<1>6. Doomed(p)'
  BY <1>1, <1>3 DEF Doomed, Remembered, Refused, Connectable
<1> QED BY <1>2, <1>4, <1>5, <1>6 DEF ProcInv

\* Only the socket that was found stale is removed.
LEMMA UnlinkKept ==
  ASSUME Types, NEW p \in Procs, ProcInv(p), Unlink(p), pc'[p] = "query"
  PROVE  Alone(p) /\ ProcInv(p)'
<1> USE DEF Types, DirTypes, ProcTypes, Concerned
<1>0. ~End(p, "failed")
  BY DEF End, Goto
<1>1. /\ UNCHANGED <<cur, listVars, daemon>> /\ pc[p] = "unlink"
      /\ cur[p] \in Ids /\ Goto(p, "query")
      /\ path' = [path EXCEPT ![cur[p]] = FALSE]
  BY <1>0 DEF Unlink, FailListing, RemoveFile
<1>2. Alone(p)
  BY <1>1 DEF Goto, Alone, Same
<1>3. Covered(p) /\ Doomed(p) /\ Remembered(p)
  BY <1>1 DEF ProcInv, Listing
<1>4. Remembered(p)' /\ pc'[p] \in Listing
  BY <1>1, <1>3 DEF Remembered, Listing
<1>5. Covered(p)' /\ NotSuspected(p)' /\ Doomed(p)'
  BY <1>1, <1>3 DEF Covered, NotSuspected, Doomed
<1> QED BY <1>2, <1>4, <1>5 DEF ProcInv

-----------------------------------------------------------------------------
(* The theorems                                                            *)

\* Every step keeps the invariant.
LEMMA ListingStep ==
  ASSUME Types, ListingInv, [Next]_vars
  PROVE  ListingInv'
<1> USE DEF ListingInv
<1>1. CASE UNCHANGED vars
  BY <1>1 DEF vars, ProcInv, Remembered, Covered,
              NotSuspected, Doomed
<1>2. CASE Next
  <2>0. Aged /\ ProcTypes
    BY <1>2, AgedStep DEF Types
  <2>1. ASSUME NEW p \in Procs, Alone(p), ProcInv(p)'
        PROVE  ListingInv'
    BY <2>0, <2>1, OthersKept DEF Alone
  <2>2. ASSUME NEW p \in Procs,
               \/ Start(p) /\ pc'[p] # "query"
               \/ Unlink(p) /\ pc'[p] # "query"
               \/ AnswerFails(p) \/ Select(p) \/ Prompt(p) \/ Detach(p) \/ Attach(p)
               \/ Launch(p) \/ Listen(p) \/ StarterFails(p) \/ Ready(p)
               \/ ReadyAnswer(p)
        PROVE  ListingInv'
    <3>1. Alone(p) /\ Leaves(p)
      BY <2>0, <2>2, LeavingStep
    <3>2. ProcInv(p)'
      BY <2>0, <3>1, LeavingKept
    <3> QED BY <2>1, <3>1, <3>2
  <2>3. ASSUME NEW p \in Procs, Start(p), pc'[p] = "query" PROVE ListingInv'
    <3>1. Scan(p) /\ UNCHANGED <<cur, dirVars>>
      BY <2>0, <2>3 DEF Start, Goto, ProcTypes
    <3> QED BY <2>0, <2>1, <3>1, ScanKept
  <2>4. ASSUME NEW p \in Procs, Query(p) \/ Answer(p) \/ Probe(p)
        PROVE  ListingInv'
    BY <2>1, <2>4, QueryKept, AnswerKept, ProbeKept
  <2>5. ASSUME NEW p \in Procs, Unlink(p), pc'[p] = "query" PROVE ListingInv'
    BY <2>1, <2>5, UnlinkKept
  <2>6. ASSUME UNCHANGED <<pc, cur, listVars>> PROVE ListingInv'
    <3>1. \A p \in Procs : Same(p)
      BY <2>6 DEF Same
    <3> QED BY <2>0, <3>1, OthersKept
  <2>7. ASSUME NEW p \in Procs, Bind(p) PROVE ListingInv'
    BY <2>6, <2>7 DEF Bind
  <2>8. ASSUME NEW i \in Ids, Daemon(i) PROVE ListingInv'
    BY <2>6, <2>8 DEF Daemon, Dies, ShellExits, RemovesSocket, BrokerLeaves,
                      Blocks, Unblocks, DaemonOnly
  <2> HIDE DEF ListingInv
  <2>9. ASSUME NEW p \in Procs,
               Start(p) \/ Step(p) \/ Prompt(p) \/ StarterFails(p)
        PROVE  ListingInv'
    <3>1. CASE Start(p)
      BY <2>2, <2>3, <3>1
    <3>2. CASE Unlink(p)
      BY <2>2, <2>5, <3>2
    <3>3. CASE Query(p) \/ Answer(p) \/ Probe(p) \/ Bind(p)
      BY <2>4, <2>7, <3>3
    <3>4. CASE \/ AnswerFails(p) \/ Select(p) \/ Prompt(p) \/ Detach(p)
               \/ Attach(p) \/ Launch(p) \/ Listen(p) \/ StarterFails(p)
               \/ Ready(p) \/ ReadyAnswer(p)
      BY <2>2, <3>4
    <3> QED BY <2>9, <3>1, <3>2, <3>3, <3>4 DEF Step
  <2> QED BY <1>2, <2>8, <2>9 DEF Next
<1> QED BY <1>1, <1>2

\* ListingInv holds in every state.
LEMMA ListingInvariant == Spec => []ListingInv
<1>1. Init => ListingInv
  <2> SUFFICES ASSUME Init PROVE ListingInv
    OBVIOUS
  <2>1. \A p \in Procs : pc[p] = "idle" /\ wasUp[p] = {} /\ wasStale[p] = {}
    BY DEF Init
  <2> QED BY <2>1 DEF ListingInv, ProcInv, Remembered, Listing
<1>2. Types /\ ListingInv /\ [Next]_vars => ListingInv'
  BY ListingStep
<1> QED BY <1>1, <1>2, TypesHold, PTL DEF Spec

(***************************************************************************)
(* A listing that succeeds names every session that served when it began   *)
(* and still serves under its path, whatever other listings, daemons and   *)
(* users do meanwhile.                                                     *)
(***************************************************************************)
THEOREM ListingCompleteCorrect == Spec => []ListingComplete
<1>1. ListingInv => ListingComplete
  <2> SUFFICES ASSUME ListingInv, NEW p \in Procs, Listed(p),
                      NEW i \in wasUp[p], daemon[i] = "up", path[i]
               PROVE  i \in Names(found[p])
    BY DEF ListingComplete
  <2>1. Covered(p)
    BY DEF ListingInv, ProcInv, Listed, Listing
  <2> QED BY <2>1 DEF Covered, Listed
<1> QED BY <1>1, ListingInvariant, PTL

(***************************************************************************)
(* ... and has removed every socket that was stale when it began, or       *)
(* another listing has.                                                    *)
(***************************************************************************)
THEOREM StaleRemovedCorrect == Spec => []StaleRemoved
<1>1. ListingInv => StaleRemoved
  <2> SUFFICES ASSUME ListingInv, NEW p \in Procs, Listed(p),
                      NEW i \in wasStale[p]
               PROVE  ~path[i]
    BY DEF StaleRemoved
  <2>1. Doomed(p)
    BY DEF ListingInv, ProcInv, Listed, Listing
  <2> QED BY <2>1 DEF Doomed, Listed
<1> QED BY <1>1, ListingInvariant, PTL

(***************************************************************************)
(* A serving daemon loses its socket file only to a listing that met the   *)
(* file between bind(2) and listen(2): the second connection that          *)
(* remove_stale_socket makes before it removes a file protects every       *)
(* daemon that served when the listing began.                              *)
(***************************************************************************)
THEOREM ServingSocketCorrect == Spec => ServingSocketKept
<1> DEFINE Kept == \A i \in Ids :
             daemon[i] = "up" /\ daemon'[i] = "up" /\ path[i] /\ ~path'[i]
               => \E p \in Procs :
                    pc[p] = "unlink" /\ cur[p] = i /\ i \notin wasUp[p]
<1>1. ASSUME Types, ListingInv, Next PROVE Kept
  <2> SUFFICES ASSUME NEW i \in Ids, daemon[i] = "up", path[i], ~path'[i],
                      daemon'[i] = "up"
               PROVE  \E p \in Procs :
                        pc[p] = "unlink" /\ cur[p] = i /\ i \notin wasUp[p]
    OBVIOUS
  <2>0. path \in [Ids -> BOOLEAN]
    BY <1>1 DEF Types, DirTypes
  <2>1. PICK p \in Procs : Unlink(p) /\ cur[p] = i
    <3>1. ASSUME NEW j \in Ids, Daemon(j) PROVE FALSE
      BY <2>0, <3>1 DEF Daemon, Dies, ShellExits, RemovesSocket, BrokerLeaves,
                        Blocks, Unblocks
    <3>2. ASSUME NEW p \in Procs, Bind(p) PROVE FALSE
      BY <2>0, <3>2 DEF Bind
    <3>3. ASSUME NEW p \in Procs, Unlink(p) PROVE cur[p] = i
      BY <2>0, <3>3 DEF Unlink, RemoveFile
    <3>4. ASSUME NEW p \in Procs, Start(p) \/ Prompt(p) \/ StarterFails(p)
          PROVE  FALSE
      BY <3>4 DEF Start, Prompt, StarterFails
    <3>5. ASSUME NEW p \in Procs, Step(p), ~Bind(p), ~Unlink(p) PROVE FALSE
      BY <3>5 DEF Step, Query, Answer, AnswerFails, Probe, Select, Detach,
                  Attach, Launch, Listen, Ready, ReadyAnswer
    <3> QED BY <1>1, <3>1, <3>2, <3>3, <3>4, <3>5 DEF Next
  <2>2. pc[p] = "unlink"
    BY <2>1 DEF Unlink
  <2>3. NotSuspected(p)
    BY <1>1, <2>2 DEF ListingInv, ProcInv, Listing
  <2> QED BY <2>1, <2>2, <2>3 DEF NotSuspected
<1>2. Types /\ ListingInv /\ [Next]_vars => [Kept]_vars
  BY <1>1
<1> QED BY <1>2, TypesHold, ListingInvariant, PTL DEF Spec, ServingSocketKept

=============================================================================
