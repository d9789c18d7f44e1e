------------------------------ MODULE Session ------------------------------
(***************************************************************************)
(* What a session promises, whatever its daemon's threads do: one stream   *)
(* of output, at most one holder at a time, and for a client that gets     *)
(* hold of the session a bounded piece of the past, once, and every byte   *)
(* after it.  Output is only taken from the shell when the last of it has  *)
(* been passed on; if it could not be passed on, whoever holds the session *)
(* is let go before there is more, so that no holder ever misses a byte.   *)
(***************************************************************************)
EXTENDS Naturals

CONSTANTS Clients, Nobody,
          Keep,   \* bytes of the past that are kept
          Chunk   \* bytes taken at a time, at most

VARIABLES
  out,     \* the bytes 1..out have been taken from the shell
  holder,  \* who holds the session
  joined,  \* the clients that have ever held it
  start,   \* where the output was when a client joined
  past,    \* the bytes up to start that a client has been sent
  got,     \* the bytes after start that a client has been sent
  due      \* the output on its way: to whom and which, or to nobody
vars == <<out, holder, joined, start, past, got, due>>

NothingDue == [to |-> Nobody, bytes |-> {}, lost |-> FALSE]
Lost       == [to |-> Nobody, bytes |-> {}, lost |-> TRUE]

Init ==
  /\ out = 0 /\ holder = Nobody /\ joined = {} /\ due = NothingDue
  /\ start = [c \in Clients |-> 0]
  /\ past = [c \in Clients |-> {}] /\ got = [c \in Clients |-> {}]

Recent(end) == {b \in 1 .. end : b + Keep > end}

Join(c) ==
  /\ holder = Nobody /\ c \notin joined
  /\ holder' = c /\ joined' = joined \cup {c}
  /\ start' = [start EXCEPT ![c] = out]
  /\ UNCHANGED <<out, past, got, due>>

Replay(c) ==
  /\ c \in joined /\ past[c] = {}
  /\ past' = [past EXCEPT ![c] = Recent(start[c])]
  /\ UNCHANGED <<out, holder, joined, start, got, due>>

Produce ==
  /\ due = NothingDue
  /\ out' \in out + 1 .. out + Chunk
  /\ due' = IF holder = Nobody THEN NothingDue
            ELSE [to |-> holder, bytes |-> out + 1 .. out', lost |-> FALSE]
  /\ UNCHANGED <<holder, joined, start, past, got>>

Deliver ==
  /\ due.to # Nobody
  /\ got' = [got EXCEPT ![due.to] = @ \cup due.bytes]
  /\ due' = NothingDue
  /\ UNCHANGED <<out, holder, joined, start, past>>

Lose ==
  /\ due.to # Nobody /\ due' = Lost
  /\ UNCHANGED <<out, holder, joined, start, past, got>>

\* After a loss nobody holds the session any more.
LetGo ==
  /\ holder' = Nobody
  /\ due' \in {due} \cup (IF due = Lost THEN {NothingDue} ELSE {})
  /\ UNCHANGED <<out, joined, start, past, got>>

Next == Produce \/ Deliver \/ Lose \/ LetGo \/ \E c \in Clients : Join(c) \/ Replay(c)

Spec == Init /\ [][Next]_vars
=============================================================================
