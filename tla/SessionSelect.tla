--------------------------- MODULE SessionSelect ---------------------------
(***************************************************************************)
(* Choosing among the sessions of a listing: auto_select,                  *)
(* auto_select_existing and picker_rows (session.rs) and the answers to    *)
(* the two prompts (client.rs).  A listing is a sequence of records with   *)
(* the fields id, a positive number, and busy; 0 stands for no session.    *)
(***************************************************************************)
EXTENDS Naturals, Sequences

IsSelectable(session) == ~session.busy

\* The free sessions among the first so many: what a filter has let through.
FreeUpTo(sessions) ==
  LET kept[row \in 0 .. Len(sessions)] ==
        IF row = 0 THEN <<>>
        ELSE IF IsSelectable(sessions[row])
             THEN Append(kept[row - 1], sessions[row]) ELSE kept[row - 1]
  IN kept
Free(sessions) == FreeUpTo(sessions)[Len(sessions)]

\* What the client does without asking: start a session, attach to the only
\* free one, or ask.
AutoSelect(sessions) ==
  LET free == Free(sessions)
  IN CASE Len(free) = 0 -> [do |-> "launch", id |-> 0]
       [] Len(free) = 1 -> [do |-> "attach", id |-> free[1].id]
       [] OTHER         -> [do |-> "prompt", id |-> 0]

\* The same for a takeover, to which a busy session is as good as any.
AutoSelectExisting(sessions) ==
  CASE Len(sessions) = 0 -> [do |-> "fail", id |-> 0]
    [] Len(sessions) = 1 -> [do |-> "detach", id |-> sessions[1].id]
    [] OTHER             -> [do |-> "prompt", id |-> 0]

\* The picker's counter after so many rows: only a selectable session advances
\* it.
NextSelector(sessions) ==
  LET next[row \in 0 .. Len(sessions)] ==
        IF row = 0 THEN 1
        ELSE IF IsSelectable(sessions[row]) THEN next[row - 1] + 1
                                            ELSE next[row - 1]
  IN next
\* The column of selectors in the picker, 0 for a row without one.
PickerSelectors(sessions) ==
  [row \in 1 .. Len(sessions) |->
     IF IsSelectable(sessions[row]) THEN NextSelector(sessions)[row - 1] ELSE 0]

\* Mutant: the answer counts every row of the table.
PickAnyRow(sessions, selector) ==
  IF selector \in 1 .. Len(sessions) THEN sessions[selector].id ELSE 0
\* The session a number typed at the picker stands for, or 0 if it is invalid.
PickFree(sessions, selector) ==
  LET free == Free(sessions)
  IN IF selector \in 1 .. Len(free) THEN free[selector].id ELSE 0

\* The takeover prompt numbers all rows and counts all rows.
TakeoverSelectors(sessions) == [row \in 1 .. Len(sessions) |-> row]
PickExisting(sessions, selector) ==
  IF selector \in 1 .. Len(sessions) THEN sessions[selector].id ELSE 0

\* Reference: a prompt is truthful when every selector it shows stands for the
\* session on its row, and no other number stands for any.
Truthful(sessions, Shown(_), Pick(_, _)) ==
  /\ \A row \in 1 .. Len(sessions) :
       Shown(sessions)[row] # 0
         => Pick(sessions, Shown(sessions)[row]) = sessions[row].id
  /\ \A selector \in 0 .. Len(sessions) + 1 :
       Pick(sessions, selector) # 0
         => \E row \in 1 .. Len(sessions) : Shown(sessions)[row] = selector
=============================================================================
