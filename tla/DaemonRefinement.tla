-------------------------- MODULE DaemonRefinement --------------------------
(* The daemon implements Session: its registered broker is the holder, and *)
(* what its threads have written to a connection is what the holder got.   *)
EXTENDS Daemon

Bytes(seq) == {seq[i] : i \in 1 .. Len(seq)}

\* Replayed and live output written to a connection.
Past(c) == {b \in Bytes(view[c]) : b =< base[c]}
Live(c) == {b \in Bytes(view[c]) : b > base[c]}

\* What the reader has taken from the PTY and not yet written; after a failed
\* write it is lost until the reader has detached whoever is registered.
Due == IF reader.pc = "write"
       THEN [to |-> reader.to, bytes |-> Bytes(reader.bytes), lost |-> FALSE]
       ELSE [to |-> NoConn, bytes |-> {}, lost |-> reader.pc = "detach"]

S == INSTANCE Session WITH
       Clients <- Conns, Nobody <- NoConn, Keep <- Capacity, Chunk <- MaxRead,
       out <- nread, holder <- broker.conn,
       joined <- {c \in Conns : token[c] # 0}, start <- base,
       past <- [c \in Conns |-> Past(c)], got <- [c \in Conns |-> Live(c)],
       due <- Due

\* The daemon's threads, in every interleaving, give each broker that attaches
\* what Session promises its holder: the recent output once, then every byte
\* read from the PTY while it is registered (attach_broker's critical section
\* and the reader's, and the detach after a failed write).
ImplementsSession == S!Spec
=============================================================================
