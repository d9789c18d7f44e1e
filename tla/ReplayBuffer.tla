---------------------------- MODULE ReplayBuffer ----------------------------
(***************************************************************************)
(* The bounded ring of recent PTY output (ReplayBuffer, daemon.rs).  The   *)
(* VecDeque of bytes is a sequence, oldest byte first; the capacity is     *)
(* nonzero, which ReplayBuffer::new checks.                                *)
(***************************************************************************)
EXTENDS Naturals, Sequences

\* usize::saturating_sub
SaturatingSub(a, b) == IF a > b THEN a - b ELSE 0

\* ReplayBuffer::new: the empty ring.
EmptyReplay == << >>

\* Mutant: the chunk's own length is left out of the overflow.
ReplayAppendGrows(capacity, bytes, chunk) ==
  IF Len(chunk) >= capacity
  THEN SubSeq(chunk, Len(chunk) - capacity + 1, Len(chunk))
  ELSE LET overflow == SaturatingSub(Len(bytes), capacity)
       IN  SubSeq(bytes, overflow + 1, Len(bytes)) \o chunk

\* ReplayBuffer::append: a chunk at least as long as the ring replaces it by
\* the chunk's tail; otherwise the oldest bytes make room for the chunk.
ReplayAppend(capacity, bytes, chunk) ==
  IF Len(chunk) >= capacity
  THEN SubSeq(chunk, Len(chunk) - capacity + 1, Len(chunk))
  ELSE LET overflow == SaturatingSub(Len(bytes) + Len(chunk), capacity)
       IN  SubSeq(bytes, overflow + 1, Len(bytes)) \o chunk
=============================================================================
