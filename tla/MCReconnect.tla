----------------------------- MODULE MCReconnect -----------------------------
(* Reconnect for TLC: clients and how they were started.                   *)
EXTENDS Reconnect, TLC

CONSTANTS c1, c2, c3

OneSession   == (c1 :> "session")
SessionPick  == (c1 :> "session" @@ c2 :> "pick")
AllModes     == (c1 :> "session" @@ c2 :> "pick" @@ c3 :> "takeover")
=============================================================================
