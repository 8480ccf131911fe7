------------------------------ MODULE MC_Vita49 ------------------------------
(***************************************************************************)
(* Checks the decoder operators of Vita49 against reference definitions   *)
(* built from the layout of the data model: every packet header of a      *)
(* bounded set, and every window made of garbage, one frame of up to two  *)
(* packets, and padding.  The variables only hold the input under test.   *)
(***************************************************************************)
EXTENDS Vita49, FiniteSets

VARIABLES hdr, win
vars == <<hdr, win>>


\* Headers: every type (known and one unknown), flag and timestamp
\* combination, sizes up to 8 words.
Headers ==
  [k: {"HDR"}, type: 0 .. 6, c: BOOLEAN, t: BOOLEAN, tsi: 0 .. 3, tsf: 0 .. 3,
   count: {0}, size: 0 .. 8]

\* n copies of x.
Rep(x, n) == [i \in 1 .. n |-> x]

\* The packet as the data model lays it out: header, stream id, class id
\* (2 words), integer timestamp, fractional timestamp (2 words), payload,
\* trailer; each optional field is present under its header condition.
RefPrefix(h) ==
  <<"HDR">> \o Rep("STREAM_ID", IF h.type \in {1, 3, 4, 5} THEN 1 ELSE 0)
            \o Rep("CLASS_ID", IF h.c THEN 2 ELSE 0)
            \o Rep("TSI", IF h.tsi # 0 THEN 1 ELSE 0)
            \o Rep("TSF", IF h.tsf # 0 THEN 2 ELSE 0)
RefTrailerWords(h) == IF h.type \in 0 .. 3 /\ h.t THEN 1 ELSE 0
RefPayloadWords(h) == h.size - Len(RefPrefix(h)) - RefTrailerWords(h)
WellFormed(h) == h.type \in KnownTypes /\ RefPayloadWords(h) >= 0
RefLayout(h) ==
  RefPrefix(h) \o Rep("PAYLOAD", RefPayloadWords(h))
               \o Rep("TRAILER", RefTrailerWords(h))

\* Word offset (0 = header) of the first word of field f in a layout.
RefOffset(l, f) == (CHOOSE i \in DOMAIN l : l[i] = f /\ \A j \in 1 .. i - 1 : l[j] # f) - 1
Present(l, f) == \E i \in DOMAIN l : l[i] = f

\* The words the radio sends for a packet with header h of stream s.
EncodePacket(h, s) ==
  <<h>> \o (IF HasStreamId(h) THEN <<[k |-> "SID", sid |-> s]>> ELSE <<>>)
        \o Rep(ZeroWord, h.size - 1 - (IF HasStreamId(h) THEN 1 ELSE 0))

RECURSIVE EncodePackets(_)
EncodePackets(ps) ==
  IF ps = <<>> THEN <<>> ELSE EncodePacket(Head(ps), 0) \o EncodePackets(Tail(ps))

EncodeFrame(ps, fc) ==
  LET body == EncodePackets(ps)
  IN <<[k |-> "FAW"], [k |-> "INFO", size |-> Len(body) + 3, count |-> fc]>>
     \o body \o <<[k |-> "VEND"]>>

\* Word positions (1-based, in a window after g garbage words) at which
\* the packets of ps start.
RECURSIVE Starts(_, _)
Starts(ps, at) ==
  IF ps = <<>> THEN <<>> ELSE <<at>> \o Starts(Tail(ps), at + Head(ps).size)

\* Frame contents: data and context packets of 1 to 3 words with or
\* without a trailer flag, one or two of them.
FramePackets ==
  { h \in [k: {"HDR"}, type: {0, 1, 4}, c: {FALSE}, t: BOOLEAN, tsi: {0},
           tsf: {0}, count: {0}, size: 1 .. 3] : WellFormed(h) }
FrameLists == { <<h>> : h \in FramePackets } \cup
              { <<h1, h2>> : h1, h2 \in FramePackets }

Window(g, ps, fc, p) ==
  Rep([k |-> "X"], g) \o EncodeFrame(ps, fc) \o Rep([k |-> "X"], p)

Windows ==
  { [g |-> g, ps |-> ps, fc |-> fc, p |-> p] :
      g \in 0 .. 2, ps \in FrameLists, fc \in {0, 4095}, p \in 1 .. 2 }

-----------------------------------------------------------------------------

\* Either a packet header is under test, or a window.
Init ==
  \/ hdr \in Headers /\ win = [g |-> 0, ps |-> <<>>, fc |-> 0, p |-> 0]
  \/ hdr = ZeroHeader /\ win \in Windows

Next == UNCHANGED vars

Spec == Init /\ [][Next]_vars

-----------------------------------------------------------------------------

\* get_field_offset walks the presence chain to the same word at which the
\* data model's layout puts every present optional field, the payload and
\* the trailer, and get_payload_size counts exactly the payload words, for
\* every combination of the four presence conditions and trailer flag.
FieldOffsetsMatchLayout ==
  WellFormed(hdr) =>
    LET l == RefLayout(hdr)
    IN /\ \A f \in Fields : Present(l, f) => FieldOffset(hdr, f) = RefOffset(l, f)
       /\ PayloadSize(hdr) = 4 * RefPayloadWords(hdr)

\* The packet of header h with every word after the header tagged with the
\* field the layout puts there.
Tagged(h) ==
  [n \in DOMAIN RefLayout(h) |->
     IF n = 1 THEN h ELSE [k |-> "X", tag |-> RefLayout(h)[n]]]

\* What a getter of field f, n words wide, should return for layout l.
Expect(l, f, n) ==
  IF Present(l, f) THEN [thrown |-> FALSE, words |-> [j \in 1 .. n |-> [k |-> "X", tag |-> f]]]
  ELSE Thrown

\* get_stream_id, get_class_id, get_integer_timestamp,
\* get_fractional_timestamp and get_trailer throw exactly when the header
\* says their field is absent and otherwise return that field's words, and
\* get_payload points at the first payload word, for every header.
GettersReadTheirFields ==
  WellFormed(hdr) =>
    LET l == RefLayout(hdr)
        ws == Tagged(hdr)
    IN /\ GetStreamId(ws, 1) = Expect(l, "STREAM_ID", 1)
       /\ GetClassId(ws, 1) = Expect(l, "CLASS_ID", 2)
       /\ GetIntegerTimestamp(ws, 1) = Expect(l, "TSI", 1)
       /\ GetFractionalTimestamp(ws, 1) = Expect(l, "TSF", 2)
       /\ GetTrailer(ws, 1) = Expect(l, "TRAILER", 1)
       /\ Present(l, "PAYLOAD") => GetPayload(ws, 1) = Expect(l, "PAYLOAD", 1)

\* VRLFrame::parse on a window of garbage, one well-formed frame and
\* padding returns the frame's size and counter, the number of garbage
\* words skipped, exactly the frame's packets at their positions, and, as
\* get_trailer, the frame's VEND word.
FrameDecodesToItsPackets ==
  win.ps # <<>> =>
    LET w == Window(win.g, win.ps, win.fc, win.p)
        r == ParseFrame(w, 1, 4 * Len(w))
    IN /\ r.err = "none"
       /\ r.index = win.g
       /\ r.fsize = Len(EncodePackets(win.ps)) + 3
       /\ r.fcount = win.fc
       /\ r.packets = Starts(win.ps, win.g + 3)
       /\ FrameTrailer(w, 1, r) = [k |-> "VEND"]

=============================================================================
