----------------------------- MODULE Reassembly -----------------------------
(***************************************************************************)
(* Split-frame reassembly in the demux thread of gr-pico: the window loop  *)
(* of complex_manager::operator() (src/lib/complex_manager.cpp) over the   *)
(* buffers the UDP listener hands it, with the overflow staging region     *)
(* m_overflow_buffer that carries an incomplete frame into the next read.  *)
(*                                                                         *)
(* The radio's output is the word sequence Stream; the listener delivers   *)
(* it in chunks of ChunkSizes words (datagrams carry whole words, so byte  *)
(* offsets are kept in words).  Frames are parsed with Vita49!ParseFrame. *)
(* A parsed data packet is recorded by its packet counter in out; stream   *)
(* ids, tuner checks, buffer space and the worker hand-off are modelled in *)
(* ComplexManager and left out here.                                       *)
(***************************************************************************)
EXTENDS Vita49, SequencesExt

CONSTANTS
  Streams,     \* what the radio may send: [words, ids] records, ids the
               \* counters of the data packets among words, in order
  ChunkSizes,  \* lengths (words) get_buffer_list may return
  StageCap     \* UDP_START_INDEX in words: size of m_overflow_buffer

VARIABLES
  radio,   \* the stream the radio sends in this behaviour
  sent,    \* words of Stream the listener has handed out
  staged,  \* m_overflow_buffer[0 .. m_amnt_saved)
  win,     \* the window: staged bytes prepended to the new buffer
  idx,     \* byte_index, as a word position in win
  pc,      \* "Get" (top of the outer loop), "Parse" (inner loop), "Crashed"
  out      \* counters of the data packets dispatched, in order

vars == <<radio, sent, staged, win, idx, pc, out>>

Stream == radio.words
SentIds == radio.ids

TypeOK ==
  /\ radio \in Streams
  /\ sent \in 0 .. Len(Stream)
  /\ Len(staged) \in Nat /\ Len(win) \in Nat
  /\ idx \in Nat \ {0}
  /\ pc \in {"Get", "Parse", "Crashed"}
  /\ out \in Seq(Nat)

\* Mutant: packets of every type are dispatched.
DataIdsAllTypes(ws, ps) == [j \in DOMAIN ps |-> Hdr(Word(ws, ps[j])).count]

\* Counters of the data packets (type 0x1) among the packets starting at
\* word positions ps of ws; other packet types are skipped.
DataIds(ws, ps) ==
  LET d == SelectSeq(ps, LAMBDA p : Hdr(Word(ws, p)).type = PT_IF_DATA)
  IN [j \in DOMAIN d |-> Hdr(Word(ws, d[j])).count]

\* VRLFrame::parse at byte_index, given total_length - byte_index bytes.
ParseAt(ws, i) == ParseFrame(ws, i, 4 * (Len(ws) - i + 1))

Init ==
  /\ radio \in Streams
  /\ sent = 0
  /\ staged = <<>>          \* m_amnt_saved = 0
  /\ win = <<>>
  /\ idx = 1
  /\ pc = "Get"
  /\ out = <<>>

\* get_buffer_list returns length 0: sleep and poll again.
GetEmpty ==
  /\ pc = "Get"
  /\ UNCHANGED vars

\* get_buffer_list returns a chunk; a saved tail is copied in just before
\* UDP_START_INDEX, byte_index starts at it and m_amnt_saved is cleared.
GetBuffer ==
  /\ pc = "Get"
  /\ sent < Len(Stream)
  /\ \E c \in ChunkSizes :
       LET n == IF sent + c <= Len(Stream) THEN c ELSE Len(Stream) - sent
       IN /\ win' = staged \o SubSeq(Stream, sent + 1, sent + n)
          /\ sent' = sent + n
  /\ staged' = <<>>
  /\ idx' = 1
  /\ pc' = "Parse"
  /\ UNCHANGED <<radio, out>>

\* A frame parses: its data packets are dispatched and byte_index moves
\* past the skipped words and the frame.
ParseOk ==
  /\ pc = "Parse"
  /\ idx <= Len(win)
  /\ LET r == ParseAt(win, idx)
     IN /\ r.err = "none"
        /\ out' = out \o DataIds(win, r.packets)
        /\ idx' = idx + r.index + r.fsize
  /\ UNCHANGED <<radio, sent, staged, win, pc>>

\* Mutant: the whole window, from its start, is saved.
ParseShortSavesWindow ==
  /\ pc = "Parse"
  /\ idx <= Len(win)
  /\ ParseAt(win, idx).err = "index_error"
  /\ LET tail == SubSeq(win, 1, Len(win))
     IN IF Len(tail) > StageCap
        THEN pc' = "Crashed" /\ UNCHANGED <<staged, idx>>
        ELSE staged' = tail /\ idx' = Len(win) + 1 /\ UNCHANGED pc
  /\ UNCHANGED <<radio, sent, win, out>>

\* index_error: the rest of the window, from byte_index, is copied into
\* m_overflow_buffer and byte_index moves to the end.  The copy has no
\* bound check: a tail longer than UDP_START_INDEX overruns the array.
ParseShort ==
  /\ pc = "Parse"
  /\ idx <= Len(win)
  /\ ParseAt(win, idx).err = "index_error"
  /\ LET tail == SubSeq(win, idx, Len(win))
     IN IF Len(tail) > StageCap
        THEN pc' = "Crashed" /\ UNCHANGED <<staged, idx>>
        ELSE staged' = tail /\ idx' = Len(win) + 1 /\ UNCHANGED pc
  /\ UNCHANGED <<radio, sent, win, out>>

\* Mutant: byte_index reset to the buffer start instead of its end.
ParseBadResetsIndex ==
  /\ pc = "Parse"
  /\ idx <= Len(win)
  /\ ParseAt(win, idx).err = "runtime_error"
  /\ idx' = 0
  /\ staged' = <<>>
  /\ UNCHANGED <<radio, sent, win, pc, out>>

\* Any other exception: the rest of the window is dropped.
ParseBad ==
  /\ pc = "Parse"
  /\ idx <= Len(win)
  /\ ParseAt(win, idx).err = "runtime_error"
  /\ idx' = Len(win) + 1
  /\ staged' = <<>>
  /\ UNCHANGED <<radio, sent, win, pc, out>>

\* byte_index reached total_length: back to the top of the outer loop.
EndWindow ==
  /\ pc = "Parse"
  /\ idx > Len(win)
  /\ pc' = "Get"
  /\ UNCHANGED <<radio, sent, staged, win, idx, out>>

Next == GetEmpty \/ GetBuffer \/ ParseOk \/ ParseShort \/ ParseBad \/ EndWindow

\* The demux loop runs while m_run holds; the listener eventually hands
\* out what the radio has sent.
Fairness ==
  /\ WF_vars(GetBuffer)
  /\ WF_vars(ParseOk \/ ParseShort \/ ParseBad \/ EndWindow)

Spec == Init /\ [][Next]_vars /\ Fairness

-----------------------------------------------------------------------------

\* Split-frame reassembly: however the listener cuts the stream into
\* reads, the packets the window loop dispatches are, in order, a prefix of
\* those the radio sent: a frame split across two reads is neither lost,
\* duplicated nor overtaken by a later frame.
DeliveredInOrder == IsPrefix(out, SentIds)

\* The tail saved on index_error always fits in m_overflow_buffer
\* (UDP_START_INDEX bytes); a longer memcpy overruns it.
NoStagingOverflow == pc # "Crashed"

\* Every data packet the radio sent is eventually dispatched.
AllSentDelivered == <>(out = SentIds)

=============================================================================
