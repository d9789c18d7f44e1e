---------------------------- MODULE SelectProofs ----------------------------
(***************************************************************************)
(* Machine-checked facts about SessionSelect, for listings of any length:  *)
(* what the filter and the counter compute, and that the number shown on a *)
(* row and the number typed mean the same session.                         *)
(***************************************************************************)
EXTENDS SessionSelect, Recursions

-----------------------------------------------------------------------------
(* The recursive definitions satisfy their equations                       *)

\* What the filter of prompt_session_selection lets through.
LEMMA FreeUpToEquation ==
  ASSUME NEW R, NEW sessions \in Seq(R)
  PROVE  LET n == Len(sessions)
             kept == FreeUpTo(sessions)
         IN /\ kept \in [0 .. n -> Seq(R)] /\ kept[0] = <<>>
            /\ \A row \in 1 .. n :
                 kept[row] = IF IsSelectable(sessions[row])
                             THEN Append(kept[row - 1], sessions[row])
                             ELSE kept[row - 1]
<1> DEFINE n == Len(sessions)
           V == Seq(R)
           h == [row \in 1 .. n |-> [v \in V |->
                   IF IsSelectable(sessions[row])
                   THEN Append(v, sessions[row]) ELSE v]]
           Body(g) == [row \in 0 .. n |->
                         IF row = 0 THEN <<>>
                         ELSE IF IsSelectable(sessions[row])
                              THEN Append(g[row - 1], sessions[row])
                              ELSE g[row - 1]]
<1>0. n \in Nat /\ <<>> \in V /\ \A row \in 1 .. n : sessions[row] \in R
  OBVIOUS
<1>1. h \in [1 .. n -> [V -> V]]
  <2>1. ASSUME NEW row \in 1 .. n, NEW v \in V
        PROVE  (IF IsSelectable(sessions[row])
                THEN Append(v, sessions[row]) ELSE v) \in V
    BY <1>0
  <2> HIDE DEF V
  <2> QED BY <2>1
<1>2. PICK g \in [0 .. n -> V] : Recurs(g, n, <<>>, h)
  <2> HIDE DEF V, h, n
  <2> QED BY <1>0, <1>1, RecursionExists
<1>3. /\ g[0] = <<>>
      /\ \A row \in 1 .. n : g[row] = IF IsSelectable(sessions[row])
                                      THEN Append(g[row - 1], sessions[row])
                                      ELSE g[row - 1]
  <2>1. ASSUME NEW row \in 1 .. n
        PROVE  row - 1 \in 0 .. n /\ g[row - 1] \in V /\ g[row] = h[row][g[row - 1]]
    <3>1. row - 1 \in 0 .. n
      BY <1>0
    <3> QED BY <1>2, <3>1 DEF Recurs
  <2> HIDE DEF V, n
  <2> QED BY <1>2, <2>1 DEF Recurs
<1>4. g = Body(g)
  <2>1. ASSUME NEW row \in 0 .. n PROVE g[row] = Body(g)[row]
    <3>1. row = 0 \/ row \in 1 .. n
      BY <1>0
    <3> QED BY <1>3, <3>1
  <2> HIDE DEF n
  <2>2. /\ g = [row \in 0 .. n |-> g[row]]
        /\ Body(g) = [row \in 0 .. n |-> Body(g)[row]]
    OBVIOUS
  <2> HIDE DEF Body
  <2> QED BY <2>1, <2>2, Zenon
<1>5. FreeUpTo(sessions) = CHOOSE f : f = Body(f)
  BY Zenon DEF FreeUpTo
<1>6. FreeUpTo(sessions) = Body(FreeUpTo(sessions))
  <2> HIDE DEF Body
  <2> QED BY <1>4, <1>5, Zenon
<1> DEFINE kept == FreeUpTo(sessions)
<1> HIDE DEF kept
<1>7. /\ kept = [row \in 0 .. n |-> kept[row]] /\ kept[0] = <<>>
      /\ \A row \in 1 .. n :
           kept[row] = IF IsSelectable(sessions[row])
                       THEN Append(kept[row - 1], sessions[row])
                       ELSE kept[row - 1]
  <2>1. kept = Body(kept)
    BY <1>6 DEF kept
  <2>2. 0 \in 0 .. n /\ \A row \in 1 .. n : row \in 0 .. n /\ row # 0
    BY <1>0
  <2>3. kept = [row \in 0 .. n |-> kept[row]]
    BY <2>1
  <2>4. \A row \in 0 .. n : kept[row] = Body(kept)[row]
    BY <2>1
  <2> HIDE DEF n
  <2> QED BY <2>2, <2>3, <2>4
<1>8. 0 .. n \subseteq {row \in 0 .. n : kept[row] \in V}
  <2> DEFINE S == {row \in 0 .. n : kept[row] \in V}
  <2>1. 0 \in S
    <3>1. 0 \in 0 .. n
      BY <1>0
    <3> HIDE DEF n, V
    <3> QED BY <1>0, <1>7, <3>1
  <2>2. ASSUME NEW row \in 1 .. n, row - 1 \in S PROVE row \in S
    <3>1. row \in 0 .. n /\ kept[row - 1] \in V /\ sessions[row] \in R
      BY <1>0, <2>2
    <3>2. Append(kept[row - 1], sessions[row]) \in V
      BY <3>1
    <3> HIDE DEF V
    <3> QED BY <1>7, <3>1, <3>2
  <2> HIDE DEF S, n
  <2> QED BY <1>0, <2>1, <2>2, BoundedInduction DEF S
<1> HIDE DEF n, V
<1>9. kept \in [0 .. n -> V]
  BY <1>7, <1>8
<1> QED BY <1>7, <1>9 DEF n, V, kept

\* The counter of picker_rows.
LEMMA NextSelectorEquation ==
  ASSUME NEW R, NEW sessions \in Seq(R)
  PROVE  LET n == Len(sessions)
             next == NextSelector(sessions)
         IN /\ next \in [0 .. n -> Nat] /\ next[0] = 1
            /\ \A row \in 1 .. n :
                 next[row] = IF IsSelectable(sessions[row])
                             THEN next[row - 1] + 1 ELSE next[row - 1]
<1> DEFINE n == Len(sessions)
           h == [row \in 1 .. n |-> [v \in Nat |->
                   IF IsSelectable(sessions[row]) THEN v + 1 ELSE v]]
           Body(g) == [row \in 0 .. n |->
                         IF row = 0 THEN 1
                         ELSE IF IsSelectable(sessions[row])
                              THEN g[row - 1] + 1 ELSE g[row - 1]]
<1>0. n \in Nat
  OBVIOUS
<1>1. h \in [1 .. n -> [Nat -> Nat]]
  OBVIOUS
<1>2. PICK g \in [0 .. n -> Nat] : Recurs(g, n, 1, h)
  <2> HIDE DEF h, n
  <2> QED BY <1>0, <1>1, RecursionExists
<1>3. /\ g[0] = 1
      /\ \A row \in 1 .. n : g[row] = IF IsSelectable(sessions[row])
                                      THEN g[row - 1] + 1 ELSE g[row - 1]
  <2>1. ASSUME NEW row \in 1 .. n
        PROVE  g[row - 1] \in Nat /\ g[row] = h[row][g[row - 1]]
    <3>1. row - 1 \in 0 .. n
      BY <1>0
    <3> QED BY <1>2, <3>1 DEF Recurs
  <2> HIDE DEF n
  <2> QED BY <1>2, <2>1 DEF Recurs
<1>4. g = Body(g)
  <2>1. ASSUME NEW row \in 0 .. n PROVE g[row] = Body(g)[row]
    <3>1. row = 0 \/ row \in 1 .. n
      BY <1>0
    <3> QED BY <1>3, <3>1
  <2> HIDE DEF n
  <2>2. /\ g = [row \in 0 .. n |-> g[row]]
        /\ Body(g) = [row \in 0 .. n |-> Body(g)[row]]
    OBVIOUS
  <2> HIDE DEF Body
  <2> QED BY <2>1, <2>2, Zenon
<1>5. NextSelector(sessions) = CHOOSE f : f = Body(f)
  BY Zenon DEF NextSelector
<1>6. NextSelector(sessions) = Body(NextSelector(sessions))
  <2> HIDE DEF Body
  <2> QED BY <1>4, <1>5, Zenon
<1> DEFINE next == NextSelector(sessions)
<1> HIDE DEF next
<1>7. /\ next = [row \in 0 .. n |-> next[row]] /\ next[0] = 1
      /\ \A row \in 1 .. n :
           next[row] = IF IsSelectable(sessions[row])
                       THEN next[row - 1] + 1 ELSE next[row - 1]
  <2>1. next = Body(next)
    BY <1>6 DEF next
  <2>2. 0 \in 0 .. n /\ \A row \in 1 .. n : row \in 0 .. n /\ row # 0
    BY <1>0
  <2>3. next = [row \in 0 .. n |-> next[row]]
    BY <2>1
  <2>4. \A row \in 0 .. n : next[row] = Body(next)[row]
    BY <2>1
  <2> HIDE DEF n
  <2> QED BY <2>2, <2>3, <2>4
<1>8. 0 .. n \subseteq {row \in 0 .. n : next[row] \in Nat}
  <2> DEFINE S == {row \in 0 .. n : next[row] \in Nat}
  <2>1. 0 \in S
    BY <1>0, <1>7
  <2>2. ASSUME NEW row \in 1 .. n, row - 1 \in S PROVE row \in S
    <3>1. row \in 0 .. n /\ next[row - 1] \in Nat
      BY <1>0, <2>2
    <3>2. next[row] = next[row - 1] + 1 \/ next[row] = next[row - 1]
      BY <1>7
    <3>3. next[row] \in Nat
      BY <3>1, <3>2
    <3> QED BY <3>1, <3>3
  <2> HIDE DEF S, n
  <2> QED BY <1>0, <2>1, <2>2, BoundedInduction DEF S
<1> HIDE DEF n
<1>9. next \in [0 .. n -> Nat]
  BY <1>7, <1>8
<1> QED BY <1>7, <1>9 DEF n, next

-----------------------------------------------------------------------------
(* The two prompts                                                         *)

\* After so many rows, the counter is one ahead of what the filter has let
\* through; every selectable row so far got the number of its place there, a
\* number greater than those of the rows above; and every place is a row's.
InStep(sessions, row) ==
  LET kept == FreeUpTo(sessions)[row]
      next == NextSelector(sessions)
  IN /\ Len(kept) + 1 = next[row]
     /\ \A k \in 1 .. row : IsSelectable(sessions[k])
          => next[k - 1] \in 1 .. Len(kept) /\ kept[next[k - 1]] = sessions[k]
     /\ \A j, k \in 1 .. row :
          IsSelectable(sessions[j]) /\ IsSelectable(sessions[k]) /\ j < k
            => next[j - 1] < next[k - 1]
     /\ \A place \in 1 .. Len(kept) :
          \E k \in 1 .. row : IsSelectable(sessions[k]) /\ next[k - 1] = place

LEMMA PromptInStep ==
  ASSUME NEW R, NEW sessions \in Seq(R)
  PROVE  \A row \in 0 .. Len(sessions) : InStep(sessions, row)
<1> DEFINE n == Len(sessions)
           kept == FreeUpTo(sessions)
           next == NextSelector(sessions)
           S == {row \in 0 .. n : InStep(sessions, row)}
<1>0. n \in Nat /\ \A row \in 1 .. n : sessions[row] \in R
  OBVIOUS
<1>1. /\ kept \in [0 .. n -> Seq(R)] /\ kept[0] = <<>>
      /\ \A row \in 1 .. n :
           kept[row] = IF IsSelectable(sessions[row])
                       THEN Append(kept[row - 1], sessions[row])
                       ELSE kept[row - 1]
  BY FreeUpToEquation
<1>2. /\ next \in [0 .. n -> Nat] /\ next[0] = 1
      /\ \A row \in 1 .. n :
           next[row] = IF IsSelectable(sessions[row])
                       THEN next[row - 1] + 1 ELSE next[row - 1]
  BY NextSelectorEquation
<1>3. \A row : InStep(sessions, row) <=>
        /\ Len(kept[row]) + 1 = next[row]
        /\ \A k \in 1 .. row : IsSelectable(sessions[k])
             => /\ next[k - 1] \in 1 .. Len(kept[row])
                /\ kept[row][next[k - 1]] = sessions[k]
        /\ \A j, k \in 1 .. row :
             IsSelectable(sessions[j]) /\ IsSelectable(sessions[k]) /\ j < k
               => next[j - 1] < next[k - 1]
        /\ \A place \in 1 .. Len(kept[row]) :
             \E k \in 1 .. row : IsSelectable(sessions[k]) /\ next[k - 1] = place
  BY DEF InStep
<1> HIDE DEF kept, next
<1>4. 0 \in S
  <2>1. Len(kept[0]) = 0 /\ 0 \in 0 .. n
    BY <1>0, <1>1
  <2> HIDE DEF n
  <2> QED BY <1>2, <1>3, <2>1
<1>5. ASSUME NEW row \in 1 .. n, row - 1 \in S PROVE row \in S
  <2> DEFINE before == kept[row - 1]
             after == kept[row]
  <2>0. row \in 0 .. n /\ row - 1 \in 0 .. n /\ row \in 1 .. row
    BY <1>0
  <2>1. /\ before \in Seq(R) /\ Len(before) \in Nat /\ sessions[row] \in R
        /\ next[row - 1] \in Nat
    <3>1. before \in Seq(R) /\ next[row - 1] \in Nat
      <4> HIDE DEF n
      <4> QED BY <1>1, <1>2, <2>0
    <3>2. Len(before) \in Nat
      <4> HIDE DEF before
      <4> QED BY <3>1
    <3> QED BY <1>0, <3>1, <3>2
  <2>2. /\ Len(before) + 1 = next[row - 1]
        /\ \A k \in 1 .. row - 1 : IsSelectable(sessions[k])
             => /\ next[k - 1] \in 1 .. Len(before)
                /\ before[next[k - 1]] = sessions[k]
        /\ \A j, k \in 1 .. row - 1 :
             IsSelectable(sessions[j]) /\ IsSelectable(sessions[k]) /\ j < k
               => next[j - 1] < next[k - 1]
        /\ \A place \in 1 .. Len(before) :
             \E k \in 1 .. row - 1 :
               IsSelectable(sessions[k]) /\ next[k - 1] = place
    BY <1>3, <1>5
  <2>3. \A k \in 1 .. row : k = row \/ k \in 1 .. row - 1
    BY <1>0
  <2>4. CASE ~IsSelectable(sessions[row])
    <3>1. after = before /\ next[row] = next[row - 1]
      BY <1>1, <1>2, <2>4
    <3>2. 1 .. row - 1 \subseteq 1 .. row
      BY <1>0
    <3> HIDE DEF n, before, after
    <3>3. ASSUME NEW k \in 1 .. row, IsSelectable(sessions[k])
          PROVE  next[k - 1] \in 1 .. Len(after) /\ after[next[k - 1]] = sessions[k]
      BY <2>2, <2>3, <2>4, <3>1, <3>3
    <3>4. ASSUME NEW place \in 1 .. Len(after)
          PROVE  \E k \in 1 .. row :
                   IsSelectable(sessions[k]) /\ next[k - 1] = place
      BY <2>2, <3>1, <3>2
    <3>5. ASSUME NEW j \in 1 .. row, NEW k \in 1 .. row, j < k,
                 IsSelectable(sessions[j]), IsSelectable(sessions[k])
          PROVE  next[j - 1] < next[k - 1]
      BY <2>2, <2>3, <2>4, <3>5
    <3>6. InStep(sessions, row)
      BY <1>3, <2>2, <3>1, <3>3, <3>4, <3>5 DEF after
    <3> QED BY <2>0, <3>6
  <2>5. CASE IsSelectable(sessions[row])
    <3>1. after = Append(before, sessions[row]) /\ next[row] = next[row - 1] + 1
      BY <1>1, <1>2, <2>5
    <3>2. /\ Len(after) = Len(before) + 1
          /\ after[Len(before) + 1] = sessions[row]
          /\ \A k \in 1 .. Len(before) : after[k] = before[k]
      BY <2>1, <3>1
    <3> HIDE DEF n, before, after
    <3>3. Len(after) + 1 = next[row]
      BY <2>1, <2>2, <3>1, <3>2
    <3>4. ASSUME NEW k \in 1 .. row, IsSelectable(sessions[k])
          PROVE  next[k - 1] \in 1 .. Len(after) /\ after[next[k - 1]] = sessions[k]
      <4>1. CASE k = row
        BY <2>1, <2>2, <3>2, <4>1
      <4>2. CASE k \in 1 .. row - 1
        <5>1. next[k - 1] \in 1 .. Len(before) /\ before[next[k - 1]] = sessions[k]
          BY <2>2, <3>4, <4>2
        <5> QED BY <2>1, <3>2, <5>1
      <4> QED BY <2>3, <4>1, <4>2
    <3>5. ASSUME NEW place \in 1 .. Len(after)
          PROVE  \E k \in 1 .. row :
                   IsSelectable(sessions[k]) /\ next[k - 1] = place
      <4>1. CASE place = Len(before) + 1
        BY <2>0, <2>2, <2>5, <4>1
      <4>2. CASE place # Len(before) + 1
        <5>1. place \in 1 .. Len(before)
          BY <2>1, <3>2, <4>2
        <5>2. PICK k \in 1 .. row - 1 :
                IsSelectable(sessions[k]) /\ next[k - 1] = place
          BY <2>2, <5>1
        <5>3. k \in 1 .. row
          BY <1>0
        <5> QED BY <5>2, <5>3
      <4> QED BY <4>1, <4>2
    <3>6. ASSUME NEW j \in 1 .. row, NEW k \in 1 .. row, j < k,
                 IsSelectable(sessions[j]), IsSelectable(sessions[k])
          PROVE  next[j - 1] < next[k - 1]
      <4>1. j \in 1 .. row - 1
        BY <3>6
      <4>2. CASE k = row
        <5>1. next[j - 1] \in 1 .. Len(before)
          BY <2>2, <3>6, <4>1
        <5> QED BY <2>1, <2>2, <4>2, <5>1
      <4>3. CASE k \in 1 .. row - 1
        BY <2>2, <3>6, <4>1, <4>3
      <4> QED BY <2>3, <4>2, <4>3
    <3>7. InStep(sessions, row)
      BY <1>3, <3>3, <3>4, <3>5, <3>6 DEF after
    <3> QED BY <2>0, <3>7
  <2> QED BY <2>4, <2>5
<1>6. 0 .. n \subseteq S
  <2> HIDE DEF S, n
  <2> QED BY <1>0, <1>4, <1>5, BoundedInduction
<1> QED BY <1>6

(***************************************************************************)
(* The picker shows on the row of a free session the number that picks it, *)
(* and no other number picks any: the counter of picker_rows, in           *)
(* session.rs, and the filter of prompt_session_selection, in client.rs,   *)
(* agree on every listing.                                                 *)
(***************************************************************************)
THEOREM PickerTruthful ==
  ASSUME NEW R, NEW sessions \in Seq(R)
  PROVE  Truthful(sessions, PickerSelectors, PickFree)
<1> DEFINE n == Len(sessions)
           free == Free(sessions)
           next == NextSelector(sessions)
           shown == PickerSelectors(sessions)
<1>0. n \in Nat
  OBVIOUS
<1>1. /\ \A k \in 1 .. n : IsSelectable(sessions[k])
           => next[k - 1] \in 1 .. Len(free) /\ free[next[k - 1]] = sessions[k]
      /\ \A place \in 1 .. Len(free) :
           \E k \in 1 .. n : IsSelectable(sessions[k]) /\ next[k - 1] = place
  <2>1. InStep(sessions, n)
    BY <1>0, PromptInStep
  <2> QED BY <2>1 DEF InStep, Free
<1>2. \A row \in 1 .. n :
        shown[row] = IF IsSelectable(sessions[row]) THEN next[row - 1] ELSE 0
  BY DEF PickerSelectors
<1>3. \A k : PickFree(sessions, k) = IF k \in 1 .. Len(free) THEN free[k].id ELSE 0
  BY DEF PickFree
<1> HIDE DEF free, next, shown, n
<1>4. ASSUME NEW row \in 1 .. n, shown[row] # 0
      PROVE  PickFree(sessions, shown[row]) = sessions[row].id
  BY <1>1, <1>2, <1>3, <1>4
<1>5. ASSUME NEW k \in 0 .. n + 1, PickFree(sessions, k) # 0
      PROVE  \E row \in 1 .. n : shown[row] = k
  <2>1. k \in 1 .. Len(free)
    BY <1>3, <1>5
  <2>2. PICK row \in 1 .. n : IsSelectable(sessions[row]) /\ next[row - 1] = k
    BY <1>1, <2>1
  <2>3. shown[row] = k
    BY <1>2, <2>2
  <2> QED BY <2>3
<1> QED BY <1>4, <1>5, Zenon DEF Truthful, shown, n

\* The takeover prompt numbers the rows, and counts them.
LEMMA TakeoverTruthful ==
  ASSUME NEW R, NEW sessions \in Seq(R)
  PROVE  Truthful(sessions, TakeoverSelectors, PickExisting)
BY DEF Truthful, TakeoverSelectors, PickExisting

(***************************************************************************)
(* Without asking, the client launches a session only if none is free, and *)
(* attaches only to the one that is; it asks only if there is a choice     *)
(* (auto_select, session.rs).                                              *)
(***************************************************************************)
THEOREM AutoSelectCorrect ==
  ASSUME NEW R, NEW sessions \in Seq(R)
  PROVE  LET free == {k \in 1 .. Len(sessions) : IsSelectable(sessions[k])}
             choice == AutoSelect(sessions)
         IN /\ choice.do \in {"launch", "attach", "prompt"}
            /\ choice.do = "launch" => free = {}
            /\ choice.do = "attach" =>
                 \E k \in free : free = {k} /\ choice.id = sessions[k].id
            /\ choice.do = "prompt" => \E j, k \in free : j # k
<1> DEFINE n == Len(sessions)
           kept == Free(sessions)
           size == Len(kept)
           next == NextSelector(sessions)
           free == {k \in 1 .. n : IsSelectable(sessions[k])}
           choice == AutoSelect(sessions)
<1>0. n \in Nat /\ size \in Nat
  <2>1. kept \in Seq(R)
    <3>1. /\ FreeUpTo(sessions) \in [0 .. Len(sessions) -> Seq(R)]
          /\ Len(sessions) \in 0 .. Len(sessions)
      BY FreeUpToEquation
    <3> QED BY <3>1, Zenon DEF Free
  <2> HIDE DEF kept
  <2> QED BY <2>1
<1>1. /\ \A k \in free :
           next[k - 1] \in 1 .. size /\ kept[next[k - 1]] = sessions[k]
      /\ \A j, k \in free : j < k => next[j - 1] < next[k - 1]
      /\ \A place \in 1 .. size : \E k \in free : next[k - 1] = place
  <2>1. InStep(sessions, n)
    BY <1>0, PromptInStep
  <2> QED BY <2>1 DEF InStep, Free
<1>2. choice = CASE size = 0 -> [do |-> "launch", id |-> 0]
                 [] size = 1 -> [do |-> "attach", id |-> kept[1].id]
                 [] OTHER         -> [do |-> "prompt", id |-> 0]
  BY DEF AutoSelect
<1>3. free \subseteq Nat
  OBVIOUS
<1> HIDE DEF kept, size, next, free, choice, n
<1>4. CASE size = 0
  <2>1. choice.do = "launch"
    BY <1>2, <1>4
  <2>2. free = {}
    BY <1>1, <1>4
  <2> QED BY <2>1, <2>2 DEF choice, free, n
<1>5. CASE size = 1
  <2>1. choice.do = "attach" /\ choice.id = kept[1].id
    BY <1>2, <1>5
  <2>2. PICK k \in free : next[k - 1] = 1
    BY <1>1, <1>5
  <2>3. kept[1] = sessions[k]
    BY <1>1, <2>2
  <2>4. ASSUME NEW j \in free PROVE j = k
    <3>1. next[j - 1] = 1
      BY <1>1, <1>5
    <3>2. ~(j < k) /\ ~(k < j)
      BY <1>1, <2>2, <3>1
    <3> QED BY <1>3, <3>2
  <2>5. free = {k} /\ choice.id = sessions[k].id
    BY <2>1, <2>3, <2>4
  <2> QED BY <2>1, <2>5 DEF choice, free, n
<1>6. CASE size > 1
  <2>1. choice.do = "prompt"
    <3>1. size # 0 /\ size # 1
      BY <1>0, <1>6
    <3>2. choice = [do |-> "prompt", id |-> 0]
      BY <1>2, <3>1
    <3> QED BY <3>2
  <2>2. 1 \in 1 .. size /\ 2 \in 1 .. size
    BY <1>0, <1>6
  <2>3. PICK j \in free, k \in free : next[j - 1] = 1 /\ next[k - 1] = 2
    BY <1>1, <2>2
  <2>4. \E i, l \in free : i # l
    BY <2>3
  <2> QED BY <2>1, <2>4 DEF choice, free, n
<1>7. size = 0 \/ size = 1 \/ size > 1
  BY <1>0
<1> QED BY <1>4, <1>5, <1>6, <1>7, Zenon

-----------------------------------------------------------------------------
(* What is chosen is one of the sessions                                   *)

\* Every free session is one of the listing.
LEMMA FreeType ==
  ASSUME NEW R, NEW sessions \in Seq(R)
  PROVE  Free(sessions) \in Seq(R)
<1>1. /\ FreeUpTo(sessions) \in [0 .. Len(sessions) -> Seq(R)]
      /\ Len(sessions) \in 0 .. Len(sessions)
  BY FreeUpToEquation
<1> QED BY <1>1, Zenon DEF Free

\* A prompt's answer is the id of a session, or 0.
LEMMA PickType ==
  ASSUME NEW I, NEW R, \A r \in R : r.id \in I, NEW sessions \in Seq(R), NEW k
  PROVE  /\ PickFree(sessions, k) \in I \cup {0}
         /\ PickExisting(sessions, k) \in I \cup {0}
<1> DEFINE free == Free(sessions)
<1>1. free \in Seq(R)
  BY FreeType
<1>2. PickFree(sessions, k) = IF k \in 1 .. Len(free) THEN free[k].id ELSE 0
  BY DEF PickFree
<1> HIDE DEF free
<1>3. PickFree(sessions, k) \in I \cup {0}
  BY <1>1, <1>2
<1>4. PickExisting(sessions, k) \in I \cup {0}
  BY DEF PickExisting
<1> QED BY <1>3, <1>4

\* What the client does without asking, it does to a session of the listing.
LEMMA ChoiceType ==
  ASSUME NEW I, NEW R, \A r \in R : r.id \in I, NEW sessions \in Seq(R),
         NEW choice \in {AutoSelect(sessions), AutoSelectExisting(sessions)}
  PROVE  \/ choice.do \in {"launch", "prompt", "fail"} /\ choice.id = 0
         \/ choice.do \in {"attach", "detach"} /\ choice.id \in I
<1> DEFINE free == Free(sessions)
<1>1. free \in Seq(R)
  BY FreeType
<1>2. AutoSelect(sessions) =
        CASE Len(free) = 0 -> [do |-> "launch", id |-> 0]
          [] Len(free) = 1 -> [do |-> "attach", id |-> free[1].id]
          [] OTHER         -> [do |-> "prompt", id |-> 0]
  BY DEF AutoSelect
<1> HIDE DEF free
<1>3. CASE choice = AutoSelect(sessions)
  BY <1>1, <1>2, <1>3
<1>4. CASE choice = AutoSelectExisting(sessions)
  BY <1>4 DEF AutoSelectExisting
<1> QED BY <1>3, <1>4

=============================================================================
