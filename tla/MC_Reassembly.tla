---------------------------- MODULE MC_Reassembly ----------------------------
(***************************************************************************)
(* Radio streams for Reassembly: frames of IF-data packets (type 0x1, a    *)
(* header and a stream id) and IF-context packets, back to back, with     *)
(* padding words where a stream calls for them.                           *)
(***************************************************************************)
EXTENDS Reassembly

FAW == [k |-> "FAW"]
VEND == [k |-> "VEND"]
Pad == [k |-> "X"]

\* An IF-data packet with packet counter n, and an IF-context packet.
DataPkt(n) ==
  <<[k |-> "HDR", type |-> 1, c |-> FALSE, t |-> FALSE, tsi |-> 0, tsf |-> 0,
     count |-> n, size |-> 2], [k |-> "SID", sid |-> 1]>>
CtxPkt ==
  <<[k |-> "HDR", type |-> 4, c |-> FALSE, t |-> FALSE, tsi |-> 0, tsf |-> 0,
     count |-> 0, size |-> 2], [k |-> "SID", sid |-> 1]>>

\* A frame around body with frame counter n.
Frame(body, n) ==
  <<FAW, [k |-> "INFO", size |-> Len(body) + 3, count |-> n]>> \o body \o <<VEND>>

\* Three frames back to back, then either five words of idle padding or a
\* last five-word frame that nothing follows.
Frames3 ==
  Frame(DataPkt(1), 0) \o Frame(DataPkt(2) \o CtxPkt, 1)
    \o Frame(DataPkt(3) \o DataPkt(4), 2)
MCStreams ==
  { [words |-> Frames3 \o [i \in 1 .. 5 |-> Pad], ids |-> <<1, 2, 3, 4>>],
    [words |-> Frames3 \o Frame(DataPkt(5), 3), ids |-> <<1, 2, 3, 4, 5>>] }

\* Padding between the first two frames.
MCPaddedStreams ==
  { [words |-> Frame(DataPkt(1), 0) \o <<Pad>> \o Frame(DataPkt(2), 1)
                 \o Frame(DataPkt(3), 2),
     ids |-> <<1, 2, 3>>] }

\* A frame whose data packet declares 9 words but holds 2.
MCLongPacketStreams ==
  { [words |-> Frame(<<[DataPkt(1)[1] EXCEPT !.size = 9], DataPkt(1)[2]>>, 0)
                 \o Frame(DataPkt(2), 1) \o Frame(DataPkt(3), 2),
     ids |-> <<1, 2, 3>>] }

=============================================================================
