------------------------------- MODULE Vita49 -------------------------------
(***************************************************************************)
(* The VITA-49 decoder of gr-pico (src/lib/vita49.cpp): VRTPacketImpl and  *)
(* VRLFrameImpl as pure operators over a sequence of abstract 32-bit words. *)
(*                                                                         *)
(* A word is a record tagged with what the radio put there: the frame      *)
(* alignment word, a frame info word, a packet header, a stream-id word,   *)
(* the frame trailer, or any other word (payload, class id, timestamps,    *)
(* packet trailer, padding or garbage).  The decoder reads a word through  *)
(* a view (header, info, stream id); a word that was not written as that   *)
(* view reads as all-zero bits.  size_t arithmetic keeps its wrap-around   *)
(* at 2^SizeTBits.                                                         *)
(***************************************************************************)
EXTENDS Integers, Sequences

CONSTANT SizeTBits   \* width of size_t (64 in the build)

SizeT == 2 ^ SizeTBits
\* Unsigned size_t arithmetic.
U(x) == x % SizeT

Fields == {"STREAM_ID", "CLASS_ID", "TSI", "TSF", "PAYLOAD", "TRAILER"}

\* PACKET_TYPE: PT_MIN .. PT_MAX.
PT_IF_DATA == 1
PT_IF_CONTEXT == 4
PT_EXTENSION_CONTEXT == 5
KnownTypes == 0 .. 5

ZeroHeader == [k |-> "HDR", type |-> 0, c |-> FALSE, t |-> FALSE, tsi |-> 0,
               tsf |-> 0, count |-> 0, size |-> 0]
ZeroWord == [k |-> "X"]

\* Reads past the supplied words read zero bits.
Word(ws, i) == IF i \in DOMAIN ws THEN ws[i] ELSE ZeroWord

\* The views of a word.
Hdr(w)  == IF w.k = "HDR" THEN w ELSE ZeroHeader
InfoSize(w)  == IF w.k = "INFO" THEN w.size ELSE 0
InfoCount(w) == IF w.k = "INFO" THEN w.count ELSE 0
IsAlignment(w) == w.k = "FAW"          \* 0x56524C50 or 0x56533439

-----------------------------------------------------------------------------
(* VRTPacketImpl accessors *)

HasStreamId(h) == h.type \in {1, 3, 4, 5}
HasClassId(h)  == h.c
IsContext(h)   == h.type \in {PT_IF_CONTEXT, PT_EXTENSION_CONTEXT}
HasTrailer(h)  == ~IsContext(h) /\ h.t

\* Mutant: the class identifier counted as one word.
FieldOffsetClassOneWord(h, f) ==
  IF f = "TRAILER" THEN U(h.size - 1)
  ELSE 1 + (IF f # "STREAM_ID" /\ HasStreamId(h) THEN 1 ELSE 0)
         + (IF f \notin {"STREAM_ID", "CLASS_ID"} /\ HasClassId(h) THEN 1 ELSE 0)
         + (IF f \in {"TSF", "PAYLOAD"} /\ h.tsi # 0 THEN 1 ELSE 0)
         + (IF f = "PAYLOAD" /\ h.tsf # 0 THEN 2 ELSE 0)

\* get_field_offset: walk the presence chain up to the requested field
\* (it does not care whether the field itself is present).
FieldOffset(h, f) ==
  IF f = "TRAILER" THEN U(h.size - 1)
  ELSE 1 + (IF f # "STREAM_ID" /\ HasStreamId(h) THEN 1 ELSE 0)
         + (IF f \notin {"STREAM_ID", "CLASS_ID"} /\ HasClassId(h) THEN 2 ELSE 0)
         + (IF f \in {"TSF", "PAYLOAD"} /\ h.tsi # 0 THEN 1 ELSE 0)
         + (IF f = "PAYLOAD" /\ h.tsf # 0 THEN 2 ELSE 0)

\* get_payload_size: bytes, in size_t.
PayloadSize(h) ==
  U(4 * (h.size - FieldOffset(h, "PAYLOAD") - (IF HasTrailer(h) THEN 1 ELSE 0)))

\* A getter's outcome: the runtime_error it throws, or the words it reads.
Thrown == [thrown |-> TRUE, words |-> <<>>]

\* The n words at get_field_offset(f) of the packet at word i.
ReadAt(ws, i, f, n) ==
  [thrown |-> FALSE,
   words |-> [j \in 1 .. n |-> Word(ws, i + FieldOffset(Hdr(Word(ws, i)), f) + j - 1)]]

\* The value getters: each throws runtime_error when the header says its
\* field is absent, and otherwise reads it at get_field_offset.  The
\* integer timestamp type is a 2-bit field, so it is always one of the
\* four types get_integer_timestamp_type accepts.
GetStreamId(ws, i) ==
  IF HasStreamId(Hdr(Word(ws, i))) THEN ReadAt(ws, i, "STREAM_ID", 1)
  ELSE Thrown
GetClassId(ws, i) ==
  IF HasClassId(Hdr(Word(ws, i))) THEN ReadAt(ws, i, "CLASS_ID", 2)
  ELSE Thrown
GetIntegerTimestamp(ws, i) ==
  IF Hdr(Word(ws, i)).tsi # 0 THEN ReadAt(ws, i, "TSI", 1)
  ELSE Thrown

\* Mutant: the fractional timestamp's presence tested on the integer type.
GetFractionalTimestampTestsTsi(ws, i) ==
  IF Hdr(Word(ws, i)).tsi # 0 THEN ReadAt(ws, i, "TSF", 2)
  ELSE Thrown

GetFractionalTimestamp(ws, i) ==
  IF Hdr(Word(ws, i)).tsf # 0 THEN ReadAt(ws, i, "TSF", 2)
  ELSE Thrown
GetTrailer(ws, i) ==
  IF HasTrailer(Hdr(Word(ws, i))) THEN ReadAt(ws, i, "TRAILER", 1)
  ELSE Thrown

\* get_payload: a pointer at get_field_offset(PAYLOAD), unchecked; here the
\* word it points at.
GetPayload(ws, i) == ReadAt(ws, i, "PAYLOAD", 1)

\* The VRTPacketImpl constructor on the words from i, given size bytes.
ParsePacket(ws, i, size) ==
  LET h == Hdr(Word(ws, i))
  IN IF h.type \notin KnownTypes THEN "runtime_error"
     ELSE IF h.size > size \div 4 THEN "index_error"
     ELSE "ok"

-----------------------------------------------------------------------------
(* VRLFrameImpl *)

\* The alignment scan: step one word while at least 5 words remain and the
\* word is not an alignment word.
RECURSIVE AlignScan(_, _, _)
AlignScan(ws, j, size) ==
  IF size >= 20 /\ ~IsAlignment(Word(ws, j))
  THEN AlignScan(ws, j + 1, size - 4)
  ELSE [at |-> j, size |-> size]

\* Mutant: the loop test off by one word, dropping a last packet of one word.
RECURSIVE PacketWalkStopsEarly(_, _, _, _, _)
PacketWalkStopsEarly(ws, a, fs, off, acc) ==
  LET remaining == U(fs - off - 1)
      r == ParsePacket(ws, a + off, U(remaining * 4))
      sz == Hdr(Word(ws, a + off)).size
  IN IF r # "ok" THEN [err |-> r, packets |-> acc]
     ELSE IF sz = 0 THEN [err |-> "none", packets |-> acc]
     ELSE IF off + sz + 2 < fs
          THEN PacketWalkStopsEarly(ws, a, fs, off + sz, Append(acc, a + off))
          ELSE [err |-> "none", packets |-> Append(acc, a + off)]

\* The do-while over the packets of a frame at word a of frame_size fs,
\* from word offset off; a packet parse error propagates.
RECURSIVE PacketWalk(_, _, _, _, _)
PacketWalk(ws, a, fs, off, acc) ==
  LET remaining == U(fs - off - 1)
      r == ParsePacket(ws, a + off, U(remaining * 4))
      sz == Hdr(Word(ws, a + off)).size
  IN IF r # "ok" THEN [err |-> r, packets |-> acc]
     ELSE IF sz = 0 THEN [err |-> "none", packets |-> acc]
     ELSE IF off + sz + 1 < fs
          THEN PacketWalk(ws, a, fs, off + sz, Append(acc, a + off))
          ELSE [err |-> "none", packets |-> Append(acc, a + off)]

\* The result of VRLFrame::parse: err ("none", "index_error",
\* "runtime_error"), index (words skipped to the alignment word; the code
\* sets it before the alignment check throws), and for a parsed frame its
\* size, count and the word positions of its packets.
FrameResult(err, index, fsize, fcount, packets) ==
  [err |-> err, index |-> index, fsize |-> fsize, fcount |-> fcount,
   packets |-> packets]

\* VRLFrame::get_trailer: the word at get_frame_size() - 1 from the
\* alignment word, for a frame parsed from word i with result r.
FrameTrailer(ws, i, r) == Word(ws, i + r.index + r.fsize - 1)

\* Mutant: a frame needs more than five words.
ParseFrameNeedsSixWords(ws, i, size) ==
  IF size <= 20 THEN FrameResult("index_error", 0, 0, 0, <<>>)
  ELSE
  LET s == AlignScan(ws, i, size)
      fs == InfoSize(Word(ws, s.at + 1))
      walk == PacketWalk(ws, s.at, fs, 2, <<>>)
  IN IF s.size < 20 THEN FrameResult("runtime_error", s.at - i, 0, 0, <<>>)
     ELSE IF fs > s.size \div 4
          THEN FrameResult("index_error", s.at - i, fs, 0, <<>>)
     ELSE FrameResult(walk.err, s.at - i, fs, InfoCount(Word(ws, s.at + 1)),
                      walk.packets)

\* VRLFrame::parse on the words from i, given size bytes.
ParseFrame(ws, i, size) ==
  IF size < 20 THEN FrameResult("index_error", 0, 0, 0, <<>>)
  ELSE
  LET s == AlignScan(ws, i, size)
      fs == InfoSize(Word(ws, s.at + 1))
      walk == PacketWalk(ws, s.at, fs, 2, <<>>)
  IN IF s.size < 20 THEN FrameResult("runtime_error", s.at - i, 0, 0, <<>>)
     ELSE IF fs > s.size \div 4
          THEN FrameResult("index_error", s.at - i, fs, 0, <<>>)
     ELSE FrameResult(walk.err, s.at - i, fs, InfoCount(Word(ws, s.at + 1)),
                      walk.packets)

=============================================================================
