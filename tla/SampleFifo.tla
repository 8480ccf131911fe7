----------------------------- MODULE SampleFifo -----------------------------
(***************************************************************************)
(* What complex_manager promises its consumer, stated without buffers: one *)
(* first-in first-out queue of samples per channel.  The demux thread puts *)
(* the samples of an admitted packet at the tail, fill_buffers takes       *)
(* samples from the head and hands them out (got records what was handed  *)
(* out since the last reset), and update_tuners empties every queue.       *)
(* Double buffering, flips, read indices and the task pool are invisible   *)
(* here; ComplexManager is shown to implement this specification.         *)
(***************************************************************************)
EXTENDS Integers, Sequences

CONSTANTS
  Channels,  \* the channels
  Ids,       \* the samples a queue can hold
  PutSizes   \* samples per admitted packet

VARIABLES
  q,    \* q[c]: the samples queued on channel c, head first
  got   \* got[c]: the samples taken from channel c since the last reset

Init ==
  /\ q = [c \in Channels |-> <<>>]
  /\ got = [c \in Channels |-> <<>>]

\* A packet of n samples is admitted on channel c.
Put(c) ==
  \E n \in PutSizes : \E s \in [1 .. n -> Ids] :
     /\ q' = [q EXCEPT ![c] = @ \o s]
     /\ UNCHANGED got

\* The consumer takes the n oldest samples of channel c.
Take(c) ==
  \E n \in 1 .. Len(q[c]) :
     /\ got' = [got EXCEPT ![c] = @ \o SubSeq(q[c], 1, n)]
     /\ q' = [q EXCEPT ![c] = SubSeq(@, n + 1, Len(@))]

\* A reconfiguration discards everything queued on every channel.
Reset ==
  /\ q' = [c \in Channels |-> <<>>]
  /\ got' = [c \in Channels |-> <<>>]

Next == Reset \/ \E c \in Channels : Put(c) \/ Take(c)

Spec == Init /\ [][Next]_<<q, got>>

=============================================================================
