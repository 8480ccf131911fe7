--------------------------- MODULE ComplexManager ---------------------------
(***************************************************************************)
(* The stream demultiplexer of gr-pico (src/lib/complex_manager.cpp) and   *)
(* the two gr-pico callers that drive it (src/lib/pico_src_impl.cc).       *)
(*                                                                         *)
(* Threads and the state each one writes:                                  *)
(*   demux      complex_manager::operator()  : per-channel double buffers, *)
(*              the frame and packet counters, the worker jobs;            *)
(*   workers    process_packet (one per task): the slots of the active     *)
(*              buffer they were given;                                    *)
(*   consumer   pico_src_impl::work -> fill_buffers : read cursors, counts *)
(*              of the readable buffer, flip flags, m_request_flip;        *)
(*              pico_src_impl::stop -> complex_manager::stop : m_run;      *)
(*   controller pico_src_impl::start / set_channel -> update_tuners :      *)
(*              m_active_channels, tuner_valid_safe, m_update_valid_streams*)
(*                                                                         *)
(* The bytes of the wire are abstracted: a parsed frame is a frame counter *)
(* and a number of packets, a packet is its type, stream id, sample count  *)
(* and packet counter (the parser itself is the module Vita49).  A sample  *)
(* is abstracted to a per-channel serial number ("id") so that the model   *)
(* can tell which admitted sample ends up in which slot and which slot the *)
(* consumer copies out.                                                    *)
(***************************************************************************)
EXTENDS Integers, Sequences, FiniteSets

CONSTANTS
  NumStreams,      \* NUM_STREAMS: channels m_mang[0 .. NUM_STREAMS-1]
  NumThreads,      \* NUM_THREADS: size of the worker pool
  Capacity,        \* NUM_COMPLEX: samples per buffer
  NumRecursive,    \* NUM_RECURSIVE: retry budget of fill_buffers
  MaxPacketCount,  \* MAX_PACKET_COUNT (15 in the code: 4-bit counter)
  MaxFrameCount,   \* MAX_FRAME_COUNT (4095 in the code: 12-bit counter)
  StreamIds,       \* stream ids (low byte) the radio puts on data packets
  OtherTypes,      \* packet types other than IF data (0x1) on the wire
  PacketSizes,     \* samples per data packet
  PacketsPerFrame, \* bound: packets in one VRL frame
  MaxDrop,         \* bound: packets/frames lost in a row on the network
  MaxSamples,      \* bound: samples the radio sends per stream id
  RequestSizes,    \* noutput_items the scheduler passes to work()
  InitTuners,      \* m_active_channels[0] when start() runs
  TunerValues,     \* values set_channel stores in m_active_channels[0]
  RuntimeReconfig, \* set_channel may be called while the flowgraph runs
  Serialized,      \* set_channel never runs concurrently with work()
  AllowStop        \* the scheduler may call stop()

ASSUME /\ NumStreams \in Nat \ {0}
       /\ NumThreads \in Nat \ {0}
       /\ Capacity \in Nat \ {0}
       /\ NumRecursive \in Nat \ {0}
       /\ MaxPacketCount \in Nat /\ MaxFrameCount \in Nat
       /\ StreamIds \subseteq 0..255
       /\ OtherTypes \subseteq (0..5) \ {1}
       /\ PacketSizes \subseteq Nat \ {0}
       /\ PacketsPerFrame \in Nat \ {0}
       /\ MaxDrop \in Nat /\ MaxDrop < MaxPacketCount /\ MaxDrop < MaxFrameCount
       /\ MaxSamples \in Nat
       /\ RequestSizes \subseteq Nat \ {0}
       /\ InitTuners \subseteq Int /\ TunerValues \subseteq Int
       /\ RuntimeReconfig \in BOOLEAN /\ Serialized \in BOOLEAN
       /\ AllowStop \in BOOLEAN

Channels == 0 .. NumStreams - 1
Workers  == 1 .. NumThreads
Bufs     == {0, 1}
Slots    == 0 .. Capacity - 1
DataType == 1                  \* VRTPacket::PT_IF_DATA
Junk     == -1                 \* a slot no worker has written since allocation
PacketMod == MaxPacketCount + 1
FrameMod  == MaxFrameCount + 1

VARIABLES
  mang,        \* m_mang[c]: buffer_manager of channel c
  buf,         \* buf[c][b][i]: id of the sample in out_buff[b][i] of channel c
  run,         \* m_run
  requestFlip, \* m_request_flip
  updateValid, \* m_update_valid_streams
  lastFrameCount, \* m_last_frame_count
  dpc,         \* demux: "Top" | "Frame" | "Packet" | "Dispatch" | "Drain" | "Done"
  left,        \* demux: packets of the current frame not yet handled
  cur,         \* demux: the packet being handled (kept when deferred)
  held,        \* demux: cur is a deferred packet still to be re-attempted
  wk,          \* wk[w]: m_process_tasks[w] running, and its job
  cpc,         \* consumer: "Idle" | "WaitFlip" | "Copy" | "Joining" | "Stopped"
               \*           | "Crashed" (the process died in fill_buffers)
  returned,    \* consumer: value the last fill_buffers call returned
  creq,        \* consumer: count argument of the fill_buffers call
  cmin,        \* consumer: the min computed by fill_buffers
  safety,      \* m_safety_count
  kpc,         \* controller: "Start" | "StartWait" | "Idle" | "Update" | "Wait"
  active,      \* pico_src_impl::m_active_channels[0]
  \* the radio and the network (not program state)
  sent, fsent, sentSamples,
  \* history variables
  nextId,      \* next id to give to an admitted sample of channel c
  base,        \* first id admitted on channel c in the current configuration
  delivered,   \* ids fill_buffers copied out of channel c in this configuration
  unbacked,    \* fill_buffers returned items it copied from no channel buffer
  seeded,      \* channel c admitted a packet in this configuration
  lossMark,    \* L markers printed when the last packet of c was counted
  lossTruth,   \* packets of c the network lost right before that packet
  seededF, frameMark, frameTruth, \* the same for frames and F markers
  oob          \* a stream id indexed m_mang outside 0 .. NUM_STREAMS-1

demuxVars  == <<dpc, left, cur, held, lastFrameCount>>
flagVars   == <<run, requestFlip, updateValid>>
consVars   == <<cpc, returned, creq, cmin, safety>>
ctrlVars   == <<kpc, active>>
radioVars  == <<sent, fsent, sentSamples>>
ghostVars  == <<nextId, base, delivered, unbacked, seeded, lossMark,
                lossTruth, seededF, frameMark, frameTruth, oob>>
vars == <<mang, buf, wk, demuxVars, flagVars, consVars, ctrlVars,
          radioVars, ghostVars>>

Packet == [type: {DataType} \cup OtherTypes, sid: StreamIds,
           n: PacketSizes \cup {0}, count: 0 .. MaxPacketCount,
           drop: 0 .. MaxDrop]
Job == [running: BOOLEAN, c: Channels, b: Bufs, start: 0 .. Capacity,
        first: 0 .. MaxSamples, n: PacketSizes \cup {0}]
IdleJob == [running |-> FALSE, c |-> 0, b |-> 0, start |-> 0, first |-> 0,
            n |-> 0]

-----------------------------------------------------------------------------
(* buffer_manager helpers *)

ReadBuf(m)   == 1 - m.op                 \* !out_pointer
ReadCount(m) == m.count[ReadBuf(m)]       \* out_count[!out_pointer]

\* The process has not crashed: the threads other than the consumer run
\* only while this holds (the consumer's own states say it).
Alive == cpc # "Crashed"

WorkersIdle == \A w \in Workers : ~wk[w].running     \* !threads_active()

\* Mutant: handle_flip leaves the read index of the new readable buffer.
HandleFlipKeepsReadIndex(m) ==
  [c \in Channels |->
     IF m[c].valid /\ m[c].flip
     THEN [m[c] EXCEPT !.op = 1 - m[c].op, !.count[1 - m[c].op] = 0,
                       !.flip = FALSE]
     ELSE m[c]]

\* handle_flip, after its wait: flip every valid channel that asked for it.
HandleFlip(m) ==
  [c \in Channels |->
     IF m[c].valid /\ m[c].flip
     THEN [m[c] EXCEPT !.op = 1 - m[c].op,
                       !.count[1 - m[c].op] = 0,
                       !.ridx = [b \in Bufs |-> 0],
                       !.flip = FALSE]
     ELSE m[c]]

\* Mutant: handle_update leaves the buffered counts.
HandleUpdateKeepsCounts(m) ==
  [c \in Channels |->
     [m[c] EXCEPT !.valid = m[c].validSafe,
                  !.last = -1,
                  !.ridx = [b \in Bufs |-> 0],
                  !.op = 0]]

\* handle_update, after its wait: adopt tuner_valid_safe, reset everything.
HandleUpdate(m) ==
  [c \in Channels |->
     [m[c] EXCEPT !.valid = m[c].validSafe,
                  !.count = [b \in Bufs |-> 0],
                  !.last = -1,
                  !.ridx = [b \in Bufs |-> 0],
                  !.op = 0]]

\* The checks at the head of the demux loops: "if (m_request_flip)
\* { handle_flip(); m_request_flip = false; }" and the same for updates, in
\* the order of the loop (flipFirst at the outer loop, update first inside).
Serviced(m, flipFirst) ==
  LET F(x) == IF requestFlip THEN HandleFlip(x) ELSE x
      U(x) == IF updateValid THEN HandleUpdate(x) ELSE x
  IN IF flipFirst THEN U(F(m)) ELSE F(U(m))

\* Both handlers first wait for all workers to go idle.
ServiceReady == (requestFlip \/ updateValid) => WorkersIdle

\* A new configuration starts a new epoch of the history variables.
NewEpoch ==
  IF updateValid
  THEN /\ base' = nextId
       /\ delivered' = [c \in Channels |-> <<>>]
  ELSE UNCHANGED <<base, delivered>>
SeededAfterService == IF updateValid THEN [c \in Channels |-> FALSE] ELSE seeded

-----------------------------------------------------------------------------
(* The wire: what the next packet of a parsed frame can be.  A data packet *)
(* of stream s carries the radio's next counter of s, after d packets of s *)
(* were lost on the way.                                                    *)

WireData ==
  UNION { { [type |-> DataType, sid |-> s, n |-> n,
             count |-> (sent[s] + 1 + d) % PacketMod, drop |-> d] :
              n \in {x \in PacketSizes : sentSamples[s] + x <= MaxSamples},
              d \in 0 .. MaxDrop } : s \in StreamIds }
WireOther ==
  { [type |-> t, sid |-> CHOOSE s \in StreamIds : TRUE, n |-> 0, count |-> 0,
     drop |-> 0] : t \in OtherTypes }

\* The value cur holds when no packet is being handled.
NoPacket == CHOOSE p \in WireOther : TRUE

\* The radio's bookkeeping when packet p leaves it.
Send(p) ==
  IF p.type = DataType
  THEN /\ sent' = [sent EXCEPT ![p.sid] = p.count]
       /\ sentSamples' = [sentSamples EXCEPT ![p.sid] = @ + p.n]
  ELSE UNCHANGED <<sent, sentSamples>>

\* Capacity check: "out_count[out_pointer] + samples >= NUM_COMPLEX" defers.
Fits(m, p) == m.count[m.op] + p.n < Capacity

\* Mutant: the expected counter wraps one early.
ExpectedCountWrapEarly(last, got) ==
  LET e == last + 1
  IN IF e = 0 THEN got ELSE IF e >= MaxPacketCount THEN 0 ELSE e

\* Packet-counter continuity: the counter fill_buffers expects after last.
ExpectedCount(last, got) ==
  LET e == last + 1
  IN IF e = 0 THEN got ELSE IF e > MaxPacketCount THEN 0 ELSE e

\* Frame-counter continuity on m_last_frame_count.
ExpectedFrame(last, got) ==
  LET e == last + 1
  IN IF e = 0 THEN got ELSE IF e > MaxFrameCount THEN 0 ELSE e

\* End of one packet of the frame loop: the next packet, or the head of the
\* window loop, or (window consumed) the head of the outer loop.
NextInFrame ==
  IF left > 1 THEN left' = left - 1 /\ dpc' = "Packet"
              ELSE left' = 0 /\ dpc' \in {"Frame", "Top"}

-----------------------------------------------------------------------------
(* Demux thread: complex_manager::operator() *)

\* Head of "while (m_run)": flip, update, wait for the workers, then
\* get_buffer_list; an empty read loops ("continue"), a full one enters the
\* window loop.
DemuxTop ==
  /\ Alive
  /\ dpc = "Top" /\ run
  /\ WorkersIdle
  /\ mang' = Serviced(mang, TRUE)
  /\ requestFlip' = FALSE /\ updateValid' = FALSE
  /\ NewEpoch /\ seeded' = SeededAfterService
  /\ dpc' \in {"Top", "Frame"}
  /\ UNCHANGED <<buf, wk, left, cur, held, lastFrameCount, run, consVars,
                 ctrlVars, radioVars, nextId, unbacked, lossMark, lossTruth,
                 seededF, frameMark, frameTruth, oob>>

\* Head of the window loop: update, flip, then VRLFrame::parse.  A frame
\* that does not fit or fails to parse ends the window; a parsed frame is
\* checked for frame loss and its packets are handled.
DemuxFrame ==
  /\ Alive
  /\ dpc = "Frame" /\ run
  /\ ServiceReady
  /\ mang' = Serviced(mang, FALSE)
  /\ requestFlip' = FALSE /\ updateValid' = FALSE
  /\ NewEpoch /\ seeded' = SeededAfterService
  /\ \/ /\ dpc' = "Top"
        /\ UNCHANGED <<left, lastFrameCount, fsent, seededF, frameMark,
                       frameTruth>>
     \/ \E fdrop \in 0 .. MaxDrop, k \in 1 .. PacketsPerFrame :
          LET fc == (fsent + 1 + fdrop) % FrameMod
          IN /\ frameMark' = IF ExpectedFrame(lastFrameCount, fc) # fc
                             THEN 1 ELSE 0
             /\ frameTruth' = IF seededF THEN fdrop ELSE 0
             /\ seededF' = TRUE
             /\ fsent' = fc
             /\ lastFrameCount' = fc
             /\ left' = k
             /\ dpc' = "Packet"
  /\ held' = FALSE
  /\ UNCHANGED <<buf, wk, cur, run, consVars, ctrlVars, sent, sentSamples,
                 nextId, unbacked, lossMark, lossTruth, oob>>

\* One iteration of the packet loop: update, flip, then the packet (a new
\* one from the frame, or the deferred one after "it--").  Non-data packets,
\* out-of-range stream ids and invalid channels are skipped; a packet that
\* does not fit is deferred; otherwise its counter is checked and the demux
\* goes to look for an idle worker.  The loop does not test m_run.
DemuxPacket ==
  /\ Alive
  /\ dpc = "Packet"
  /\ ServiceReady
  /\ requestFlip' = FALSE /\ updateValid' = FALSE
  /\ NewEpoch
  /\ LET m1 == Serviced(mang, FALSE)
         s1 == SeededAfterService
     IN \E p \in IF held THEN {cur} ELSE WireData \cup WireOther :
          /\ IF held THEN UNCHANGED <<sent, sentSamples>> ELSE Send(p)
          /\ \/ /\ \/ p.type # DataType
                   \/ p.sid > NumStreams
                   \/ p.sid < NumStreams /\ ~m1[p.sid].valid
                /\ mang' = m1 /\ held' = FALSE /\ cur' = NoPacket
                /\ NextInFrame
                /\ seeded' = s1 /\ UNCHANGED <<lossMark, lossTruth, oob>>
             \/ /\ p.type = DataType /\ p.sid = NumStreams
                \* m_mang[NUM_STREAMS]: one past the array (undefined
                \* behaviour); the model records it and skips the packet.
                /\ oob' = TRUE
                /\ mang' = m1 /\ held' = FALSE /\ cur' = NoPacket
                /\ NextInFrame
                /\ seeded' = s1 /\ UNCHANGED <<lossMark, lossTruth>>
             \/ /\ p.type = DataType /\ p.sid < NumStreams
                /\ m1[p.sid].valid /\ ~Fits(m1[p.sid], p)
                /\ mang' = m1 /\ held' = TRUE /\ cur' = p /\ seeded' = s1
                /\ UNCHANGED <<left, dpc, lossMark, lossTruth, oob>>
             \/ /\ p.type = DataType /\ p.sid < NumStreams
                /\ m1[p.sid].valid /\ Fits(m1[p.sid], p)
                /\ mang' = [m1 EXCEPT ![p.sid].last = p.count]
                /\ lossMark' = [lossMark EXCEPT ![p.sid] =
                     IF ExpectedCount(m1[p.sid].last, p.count) # p.count
                     THEN 1 ELSE 0]
                /\ lossTruth' = [lossTruth EXCEPT ![p.sid] =
                     IF s1[p.sid] THEN p.drop ELSE 0]
                /\ seeded' = [s1 EXCEPT ![p.sid] = TRUE]
                /\ held' = FALSE /\ cur' = p /\ dpc' = "Dispatch"
                /\ UNCHANGED <<left, oob>>
  /\ UNCHANGED <<buf, wk, lastFrameCount, run, consVars, ctrlVars, fsent,
                 nextId, unbacked, seededF, frameMark, frameTruth>>

\* Mutant: the dispatch takes the first task whether or not it is running.
DemuxDispatchBusyTask ==
  /\ Alive
  /\ dpc = "Dispatch"
  /\ \/ /\ run
        /\ LET w == 1
               c == cur.sid
               m == mang[c]
           IN /\ wk' = [wk EXCEPT ![w] =
                         [running |-> TRUE, c |-> c, b |-> m.op,
                          start |-> m.count[m.op], first |-> nextId[c],
                          n |-> cur.n]]
              /\ mang' = [mang EXCEPT ![c].count[m.op] = @ + cur.n]
              /\ nextId' = [nextId EXCEPT ![c] = @ + cur.n]
        /\ cur' = NoPacket
        /\ NextInFrame
     \/ /\ ~run
        /\ dpc' = "Done"
        /\ UNCHANGED <<wk, mang, nextId, left, cur>>
  /\ UNCHANGED <<buf, held, lastFrameCount, flagVars, consVars, ctrlVars,
                 radioVars, base, delivered, unbacked, seeded, lossMark,
                 lossTruth, seededF, frameMark, frameTruth, oob>>

\* Busy-wait for the first idle task, hand it the packet and the write
\* position, count the samples in, wake the task.  If m_run turned false
\* the thread returns at once.
DemuxDispatch ==
  /\ Alive
  /\ dpc = "Dispatch"
  /\ \/ /\ run
        /\ \E w \in Workers :
             /\ ~wk[w].running
             /\ \A v \in Workers : v < w => wk[v].running
             /\ LET c == cur.sid
                    m == mang[c]
                IN /\ wk' = [wk EXCEPT ![w] =
                              [running |-> TRUE, c |-> c, b |-> m.op,
                               start |-> m.count[m.op], first |-> nextId[c],
                               n |-> cur.n]]
                   /\ mang' = [mang EXCEPT ![c].count[m.op] = @ + cur.n]
                   /\ nextId' = [nextId EXCEPT ![c] = @ + cur.n]
        /\ cur' = NoPacket
        /\ NextInFrame
     \/ /\ ~run
        /\ dpc' = "Done"
        /\ UNCHANGED <<wk, mang, nextId, left, cur>>
  /\ UNCHANGED <<buf, held, lastFrameCount, flagVars, consVars, ctrlVars,
                 radioVars, base, delivered, unbacked, seeded, lossMark,
                 lossTruth, seededF, frameMark, frameTruth, oob>>

\* Mutant: the thread ends without waiting for the tasks.
DemuxExitNoDrain ==
  /\ Alive
  /\ dpc \in {"Top", "Frame"} /\ ~run
  /\ dpc' = "Done"
  /\ UNCHANGED <<mang, buf, wk, left, cur, held, lastFrameCount, flagVars,
                 consVars, ctrlVars, radioVars, ghostVars>>

\* m_run is false at the head of either loop: leave them and wait for the
\* tasks before the thread ends.
DemuxExit ==
  /\ Alive
  /\ dpc \in {"Top", "Frame"} /\ ~run
  /\ dpc' = "Drain"
  /\ UNCHANGED <<mang, buf, wk, left, cur, held, lastFrameCount, flagVars,
                 consVars, ctrlVars, radioVars, ghostVars>>

DemuxDrain ==
  /\ Alive
  /\ dpc = "Drain" /\ WorkersIdle
  /\ dpc' = "Done"
  /\ UNCHANGED <<mang, buf, wk, left, cur, held, lastFrameCount, flagVars,
                 consVars, ctrlVars, radioVars, ghostVars>>

-----------------------------------------------------------------------------
(* Worker task w: process_packet(w) converts its packet into the slots     *)
(* start .. start+n-1 of the buffer it was given, then goes idle.          *)

ProcessPacket(w) ==
  /\ Alive
  /\ wk[w].running
  /\ LET j == wk[w]
     IN buf' = [buf EXCEPT ![j.c][j.b] =
                  [i \in Slots |-> IF j.start <= i /\ i < j.start + j.n
                                   THEN j.first + (i - j.start)
                                   ELSE buf[j.c][j.b][i]]]
  /\ wk' = [wk EXCEPT ![w] = IdleJob]
  /\ UNCHANGED <<mang, demuxVars, flagVars, consVars, ctrlVars, radioVars,
                 ghostVars>>

-----------------------------------------------------------------------------
(* Consumer thread: pico_src_impl::work -> complex_manager::fill_buffers   *)

\* The first loop of fill_buffers over m_mang: clear every flip flag, take
\* the smallest readable count of the valid channels (starting from the
\* request), and flag the channels whose readable count is what set min
\* to 0.
\* Mutant: the scan compares the wrong way round.
RECURSIVE ScanFromWrongCompare(_, _, _)
ScanFromWrongCompare(m, i, acc) ==
  IF i = NumStreams THEN acc
  ELSE LET n == ReadCount(m[i])
       IN ScanFromWrongCompare(m, i + 1,
                   IF n >= acc.min /\ m[i].valid
                   THEN [min |-> n,
                         flip |-> IF n = 0 THEN acc.flip \cup {i}
                                           ELSE acc.flip]
                   ELSE acc)

RECURSIVE ScanFrom(_, _, _)
ScanFrom(m, i, acc) ==
  IF i = NumStreams THEN acc
  ELSE LET n == ReadCount(m[i])
       IN ScanFrom(m, i + 1,
                   IF n <= acc.min /\ m[i].valid
                   THEN [min |-> n,
                         flip |-> IF n = 0 THEN acc.flip \cup {i}
                                           ELSE acc.flip]
                   ELSE acc)
Scan(m, count) == ScanFrom(m, 0, [min |-> count, flip |-> {}])

\* Mutant: fill_buffers flags the empty channels but never raises
\* m_request_flip; it keeps re-scanning until NUM_RECURSIVE runs out.
FillBodyNoRequest(count) ==
  /\ creq' = IF updateValid THEN 0 ELSE count
  /\ IF updateValid
     THEN /\ returned' = 0 /\ cpc' = "Idle" /\ cmin' = 0
          /\ UNCHANGED <<mang, requestFlip, safety>>
     ELSE LET r == Scan(mang, count)
          IN /\ safety' = safety + 1
             /\ mang' = [c \in Channels |-> [mang[c] EXCEPT !.flip = c \in r.flip]]
             /\ cmin' = r.min
             /\ UNCHANGED <<returned, requestFlip>>
             /\ cpc' = IF r.min = 0 THEN "WaitFlip" ELSE "Copy"

\* A call (or recursive re-call) of fill_buffers(buffs, tuners, count):
\* return 0 while an update is pending; otherwise count the call, scan, and
\* either ask the demux for a flip and wait, or go on to copy.
FillBody(count) ==
  /\ creq' = IF updateValid THEN 0 ELSE count
  /\ IF updateValid
     THEN /\ returned' = 0 /\ cpc' = "Idle" /\ cmin' = 0
          /\ UNCHANGED <<mang, requestFlip, safety>>
     ELSE LET r == Scan(mang, count)
          IN /\ safety' = safety + 1
             /\ mang' = [c \in Channels |-> [mang[c] EXCEPT !.flip = c \in r.flip]]
             /\ cmin' = r.min
             /\ UNCHANGED returned
             /\ IF r.min = 0
                THEN requestFlip' = TRUE /\ cpc' = "WaitFlip"
                ELSE cpc' = "Copy" /\ UNCHANGED requestFlip

\* work() is called only after start() returned and before stop(); when
\* callbacks are serialized with work() no set_channel is in progress.
MayWork == kpc \notin {"Start", "StartWait"} /\ run /\ (Serialized => kpc = "Idle")

FillCall ==
  /\ cpc = "Idle" /\ MayWork
  /\ \E count \in RequestSizes : FillBody(count)
  /\ UNCHANGED <<buf, wk, demuxVars, run, updateValid, ctrlVars, radioVars,
                 ghostVars>>

\* "while (m_request_flip) usleep": the demux cleared it; recurse, or give up
\* after NUM_RECURSIVE tries and return 0.
FillWaitFlip ==
  /\ cpc = "WaitFlip" /\ ~requestFlip
  /\ IF safety < NumRecursive
     THEN FillBody(creq)
     ELSE /\ safety' = 0 /\ returned' = 0 /\ cpc' = "Idle"
          /\ creq' = 0 /\ cmin' = 0
          /\ UNCHANGED <<mang, requestFlip>>
  /\ UNCHANGED <<buf, wk, demuxVars, run, updateValid, ctrlVars, radioVars,
                 ghostVars>>

\* The sample a copy reads at index i of buffer b of channel c.
SlotAt(c, b, i) == IF i \in Slots THEN buf[c][b][i] ELSE Junk

\* Map each output to its tuner (tuners[i] is m_active_channels[i], read
\* now), memcpy min samples from the readable buffer at its read index,
\* advance the index, lower the count, return min.  A negative min (a count
\* driven below zero) makes the memcpy length a huge size_t, and a read
\* past the end of the buffer is undefined: the model ends the process in
\* both cases.
CopyFaults(tgt) ==
  \E c \in tgt : cmin < 0 \/ mang[c].ridx[ReadBuf(mang[c])] + cmin > Capacity

FillCopy ==
  /\ cpc = "Copy"
  /\ LET tgt == IF active <= NumStreams /\ active > 0 THEN {active - 1} ELSE {}
     IN IF CopyFaults(tgt)
        THEN /\ cpc' = "Crashed"
             /\ UNCHANGED <<mang, delivered, unbacked, safety, returned, creq,
                            cmin>>
        ELSE
        /\ mang' = [c \in Channels |->
                      IF c \in tgt
                      THEN [mang[c] EXCEPT
                              !.ridx[ReadBuf(mang[c])] = @ + cmin,
                              !.count[ReadBuf(mang[c])] = @ - cmin]
                      ELSE mang[c]]
        /\ delivered' = [c \in Channels |->
                           IF c \in tgt
                           THEN delivered[c] \o
                                [k \in 1 .. cmin |->
                                   SlotAt(c, ReadBuf(mang[c]),
                                          mang[c].ridx[ReadBuf(mang[c])] + k - 1)]
                           ELSE delivered[c]]
        /\ unbacked' = (unbacked \/ tgt = {})
        /\ safety' = 0 /\ returned' = cmin /\ cpc' = "Idle"
        /\ creq' = 0 /\ cmin' = 0
  /\ UNCHANGED <<buf, wk, demuxVars, flagVars, ctrlVars,
                 radioVars, nextId, base, seeded, lossMark, lossTruth,
                 seededF, frameMark, frameTruth, oob>>

\* pico_src_impl::stop -> complex_manager::stop: m_run = false, join the
\* demux thread (then the tasks are stopped).
Stop ==
  /\ cpc = "Idle" /\ AllowStop /\ MayWork
  /\ run' = FALSE /\ cpc' = "Joining"
  /\ UNCHANGED <<mang, buf, wk, demuxVars, requestFlip, updateValid, returned,
                 creq, cmin, safety, ctrlVars, radioVars, ghostVars>>

Join ==
  /\ cpc = "Joining" /\ dpc = "Done"
  /\ cpc' = "Stopped"
  /\ UNCHANGED <<mang, buf, wk, demuxVars, flagVars, returned, creq, cmin,
                 safety, ctrlVars, radioVars, ghostVars>>

-----------------------------------------------------------------------------
(* Controller: pico_src_impl::start and set_channel, both ending in        *)
(* update_tuners(m_active_channels, 1), which blocks until the demux has   *)
(* applied the update.                                                      *)

UpdateTuners(t) ==
  /\ mang' = [c \in Channels |-> [mang[c] EXCEPT !.validSafe = (c + 1 = t)]]
  /\ updateValid' = TRUE

StartUpdate ==
  /\ Alive
  /\ kpc = "Start"
  /\ UpdateTuners(active)
  /\ kpc' = "StartWait"
  /\ UNCHANGED <<buf, wk, demuxVars, run, requestFlip, consVars, active,
                 radioVars, ghostVars>>

\* set_channel: store resp+1 (or -1) in m_active_channels[0] ...  Nothing
\* stops a callback after stop(): m_complex_manager still exists then.
SetChannel ==
  /\ Alive
  /\ kpc = "Idle" /\ RuntimeReconfig
  /\ Serialized => cpc \in {"Idle", "Stopped"}
  /\ \E t \in TunerValues : active' = t
  /\ kpc' = "Update"
  /\ UNCHANGED <<mang, buf, wk, demuxVars, flagVars, consVars, radioVars,
                 ghostVars>>

\* ... then call update_tuners.
CtrlUpdate ==
  /\ Alive
  /\ kpc = "Update"
  /\ UpdateTuners(active)
  /\ kpc' = "Wait"
  /\ UNCHANGED <<buf, wk, demuxVars, run, requestFlip, consVars, active,
                 radioVars, ghostVars>>

\* "while (m_update_valid_streams) usleep": return once the demux cleared it.
CtrlWait ==
  /\ Alive
  /\ kpc \in {"StartWait", "Wait"} /\ ~updateValid
  /\ kpc' = "Idle"
  /\ UNCHANGED <<mang, buf, wk, demuxVars, flagVars, consVars, active,
                 radioVars, ghostVars>>

-----------------------------------------------------------------------------
(* The constructor has run; start() is about to call update_tuners.        *)

Init ==
  /\ mang = [c \in Channels |->
               [op |-> 0, count |-> [b \in Bufs |-> 0], last |-> -1,
                ridx |-> [b \in Bufs |-> 0], valid |-> FALSE,
                validSafe |-> FALSE, flip |-> FALSE]]
  /\ buf = [c \in Channels |-> [b \in Bufs |-> [i \in Slots |-> Junk]]]
  /\ run = TRUE /\ requestFlip = FALSE /\ updateValid = FALSE
  /\ lastFrameCount = -1
  /\ dpc = "Top" /\ left = 0 /\ held = FALSE
  /\ cur = NoPacket
  /\ wk = [w \in Workers |-> IdleJob]
  /\ cpc = "Idle" /\ returned = 0 /\ creq = 0 /\ cmin = 0 /\ safety = 0
  /\ kpc = "Start" /\ active \in InitTuners
  /\ sent \in [StreamIds -> 0 .. MaxPacketCount]
  /\ fsent \in 0 .. MaxFrameCount
  /\ sentSamples = [s \in StreamIds |-> 0]
  /\ nextId = [c \in Channels |-> 0]
  /\ base = [c \in Channels |-> 0]
  /\ delivered = [c \in Channels |-> <<>>]
  /\ unbacked = FALSE
  /\ seeded = [c \in Channels |-> FALSE]
  /\ lossMark = [c \in Channels |-> 0]
  /\ lossTruth = [c \in Channels |-> 0]
  /\ seededF = FALSE /\ frameMark = 0 /\ frameTruth = 0
  /\ oob = FALSE

Next ==
  \/ DemuxTop \/ DemuxFrame \/ DemuxPacket \/ DemuxDispatch
  \/ DemuxExit \/ DemuxDrain
  \/ \E w \in Workers : ProcessPacket(w)
  \/ FillCall \/ FillWaitFlip \/ FillCopy \/ Stop \/ Join
  \/ StartUpdate \/ SetChannel \/ CtrlUpdate \/ CtrlWait

\* The demux thread and the tasks always get scheduled; the scheduler keeps
\* calling work() while the flowgraph runs; start() and update_tuners get
\* their turn.  set_channel and stop are user choices: no fairness.
Fairness ==
  /\ WF_vars(DemuxTop) /\ WF_vars(DemuxFrame) /\ WF_vars(DemuxPacket)
  /\ WF_vars(DemuxDispatch) /\ WF_vars(DemuxExit) /\ WF_vars(DemuxDrain)
  /\ \A w \in Workers : WF_vars(ProcessPacket(w))
  /\ WF_vars(FillCall) /\ WF_vars(FillWaitFlip) /\ WF_vars(FillCopy)
  /\ WF_vars(Join)
  /\ WF_vars(StartUpdate) /\ WF_vars(CtrlUpdate) /\ WF_vars(CtrlWait)

Spec == Init /\ [][Next]_vars /\ Fairness

-----------------------------------------------------------------------------
(* Refinement: the double buffers of a channel, read as one queue.         *)

\* The sample slot i of buffer b of channel c holds, or will hold once the
\* task converting into it finishes: a slot reserved for a running task
\* counts as the id that task writes there.
Content(c, b, i) ==
  LET ws == {w \in Workers : /\ wk[w].running /\ wk[w].c = c /\ wk[w].b = b
                             /\ wk[w].start <= i /\ i < wk[w].start + wk[w].n}
  IN IF ws = {} THEN SlotAt(c, b, i)
     ELSE LET j == wk[CHOOSE w \in ws : TRUE] IN j.first + (i - j.start)

\* get_read_buffer and get_active_buffer: the unread part of the readable
\* buffer (from read_index), then the written part of the active one.
Queue(c) ==
  LET m == mang[c]
      r == ReadBuf(m)
  IN [k \in 1 .. m.count[r] |-> Content(c, r, m.ridx[r] + k - 1)]
     \o [k \in 1 .. m.count[m.op] |-> Content(c, m.op, k - 1)]

Fifo == INSTANCE SampleFifo
          WITH q <- [c \in Channels |-> Queue(c)], got <- delivered,
               Ids <- 0 .. MaxSamples - 1, PutSizes <- PacketSizes

-----------------------------------------------------------------------------
(* Properties *)

\* fill_buffers hands the scheduler only samples the demux admitted on the
\* requested channel since the last update_tuners, each once and in the
\* order they were admitted (a flip, an update, a worker or a copy
\* interleaved wrongly shows up as a gap, a repeat, a stale or an unwritten
\* slot), and never reports items it did not copy.
DeliveredSamplesAreAdmitted ==
  /\ ~unbacked
  /\ \A c \in Channels :
       /\ delivered[c] = [k \in 1 .. Len(delivered[c]) |-> base[c] + k - 1]
       /\ base[c] + Len(delivered[c]) <= nextId[c]

\* The counts and read indices of both buffers of every channel stay within
\* the buffer: the capacity check of the demux and the decrement of
\* fill_buffers never drive a count below zero or past NUM_COMPLEX.
BufferCountsInBounds ==
  \A c \in Channels, b \in Bufs :
     /\ mang[c].count[b] >= 0
     /\ mang[c].ridx[b] + mang[c].count[b] <= Capacity

\* One L is printed when packets of the channel were lost since the last
\* one counted in this configuration, and none otherwise; the same for F
\* and frames -- across the wrap of the 4-bit and 12-bit counters and the
\* re-seeding after update_tuners.
LossReportedIffLost ==
  /\ \A c \in Channels : (lossMark[c] > 0) <=> (lossTruth[c] > 0)
  /\ (frameMark > 0) <=> (frameTruth > 0)

\* Every sample admitted on a channel is eventually handed to the consumer,
\* unless an update_tuners discards it first: a deferred packet and a
\* half-full buffer do not hold samples back forever.
AdmittedSamplesEventuallyDelivered ==
  \A c \in Channels : \A k \in 0 .. MaxSamples - 1 :
     (nextId[c] > k) ~> (base[c] > k \/ base[c] + Len(delivered[c]) > k)

\* complex_manager implements a per-channel FIFO (module SampleFifo): read
\* through the double buffers, every step of the demux, the tasks and
\* fill_buffers either leaves each channel's queue as it is (a flip, a
\* conversion), appends an admitted packet at its tail, hands out samples
\* from its head in order, or (handle_update) empties every queue.
FifoRefinement == Fifo!Spec

\* stop() returns: once m_run is cleared, the demux thread leaves its loops
\* and finishes, so the join in complex_manager::stop completes whatever the
\* demux, the tasks and set_channel were doing when stop() was called.
StopReturns == (cpc = "Joining") ~> (cpc = "Stopped")

\* The DRAINING state of spec.md: on shutdown the demux thread waits for
\* every task to go idle before it ends, so when complex_manager::stop has
\* joined it (and only then stops the tasks) no task is still converting
\* into a buffer that is about to be freed.
StoppedOnlyWhenTasksIdle == cpc = "Stopped" => WorkersIdle

=============================================================================
