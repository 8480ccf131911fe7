# TLA+ models of gr-pico

gr-pico is a pair of GNU Radio blocks for the Pico radio. The source block
(`pico_src_impl`) receives VITA-49 VRL frames over UDP. It demultiplexes the
IF-data packets into per-channel double buffers, converts the samples on a
small task pool, and hands them to the GNU Radio scheduler from `work()`. The
sink block (`pico_sink_impl`) throttles and sends samples to the radio. Both
blocks configure the radio through a text control socket (`boost_client`,
`mne_helper`).

This directory holds the TLA+ modules that model the concurrent part of the
source block, its VITA-49 decoder, its split-frame reassembly, and the
sink block's throttle and setters and the source block's control calls,
each composed with the control client (`MnemonicLink`) they talk to the
radio through. An abstract per-channel FIFO (`SampleFifo`) states
what the source block's double buffers promise, and the source block is
checked to implement it. Beside them are the TLC configurations that
check them, and `PROJECT.json`. That file maps every definition to the source lines it translates, and lists the
runs, the mutants, the findings and the hazards.

## 1. Inventory of the system

| Part | Source | State | Operations | Modelled in |
|---|---|---|---|---|
| Demux thread | `complex_manager.cpp` `operator()` | `m_mang[c]` (`out_pointer`, `out_count[2]`, `read_index[2]`, `last_count`, `tuner_valid`, `flip`), `m_last_frame_count`, `m_overflow_buffer`/`m_amnt_saved`, `m_run` | window loop, frame parse, packet loop (skip / drop / defer / count / dispatch), flip and update service, final drain | `ComplexManager` (frames and packets), `Reassembly` (byte windows and overflow staging) |
| Worker tasks | `process_packet`, `task_impl` (not in the repository) | `m_packet_buffer`, `m_target_buffer`, `m_start_index`, `m_sample_count`, `is_running` | convert a packet into its slots | `ComplexManager` |
| Consumer API | `fill_buffers` | `m_request_flip`, `m_safety_count`, the read cursors and counts | update-pending return, scan, flip-and-wait, retry, copy | `ComplexManager`, which implements `SampleFifo` |
| Reconfiguration | `update_tuners`, `handle_update`, `handle_flip` | `tuner_valid_safe`, `m_update_valid_streams` | post and wait; apply after the tasks are idle | `ComplexManager` |
| Source block | `pico_src_impl.cc` | `m_connected`, `m_active_channels[0]`, `m_complex_manager` | constructor (`try_connect`, `setup_pico`), `start`, `stop`, `set_sample_rate`, `set_attenuation`, `set_frequency`, `set_channel`, `work` | `SourceControl` (control calls, with `MnemonicLink`); `ComplexManager` (`work` and `update_tuners` against the demux) |
| VITA-49 codec | `vita49.cpp` | none (a parse of an immutable byte window) | `VRLFrameImpl` parse, `VRTPacketImpl` field-offset chain and value getters | `Vita49` (partly: `get_timestamp_mode`, the dumps and the CRC are not modelled) |
| Sink block | `pico_sink_impl.cc` | `m_total_samples`, `m_start`, `m_sample_rate`, `m_samples_per_tick`, `m_samples_per_us`, connection flags | constructor and connects, `start`, throttled `work()`, `set_sample_rate`, `set_bandwidth`, `set_power`, destructor | `PacingSink` (`set_frequency` and `setup_pico` only send commands) |
| Control client | `boost_client.cpp`, `mne_helper.h` | the socket and its receive buffer | `send_message` (write, one `read_some`), `disconnect`, `try_connect` | `MnemonicLink`, composed into `PacingSink` and `SourceControl`; `try_connect` is a success or a failure |
| Aligned buffers | `aligned_buffer.cpp` | memory | allocate | not modelled: its effect is the uninitialized slots in `Init` |

Four threads interact through shared memory, with only busy-wait flags for
synchronization:

- The demux thread writes samples into the active buffer of a channel.
- The tasks convert packets into slots of that buffer.
- The scheduler thread calls `work()`, i.e. `fill_buffers`. It drains the
  readable buffer and raises `m_request_flip` when that buffer is empty.
- Whatever thread calls `set_channel` (in GNU Radio, a GUI or message
  callback, with no lock in this block) runs `update_tuners`. That function
  raises `m_update_valid_streams` and spins until the demux applies it.

What makes the code hard:

- Flips and updates must wait for the tasks.
- `fill_buffers` checks for an update only on entry.
- A full active buffer defers a packet until the consumer asks for a flip.
- The packet and frame counters wrap.
- `stop()` joins a thread that may be spinning.

## 2. Module `ComplexManager`

One module composes the four threads. It has one action per step of each
thread, a step being the code between two points where another thread can
observe or change shared state.

**Demux thread (`operator()`):**

| Action | Code |
|---|---|
| `DemuxTop` | Head of `while (m_run)`: flip, then update, then wait for the tasks, then `get_buffer_list`. An empty read loops. |
| `DemuxFrame` | Head of the window loop: update, flip, `VRLFrame::parse`. A frame that fails or does not fit ends the window. A parsed frame gets the frame-counter check (`F` marker). |
| `DemuxPacket` | One iteration of the packet loop. It skips non-data packets, out-of-range ids and invalid channels, defers a packet that does not fit (`it--`), and otherwise runs the packet-counter check (`L` marker). An id equal to `NUM_STREAMS` sets the history flag `oob` (the code indexes past `m_mang`). |
| `DemuxDispatch` | Busy-wait for the lowest idle task, hand over the job, count the samples in. With `m_run` false, return. |
| `DemuxExit`, `DemuxDrain` | Leave the loops when `m_run` is false, then the final wait for the tasks. |

**Tasks:** `ProcessPacket(w)` writes sample ids into its slots and goes idle.

**Consumer (`work()` → `fill_buffers`):**

| Action | Code |
|---|---|
| `FillCall` | The call. Its body `FillBody` is the update-pending return, `m_safety_count += 1`, the recursive scan `ScanFrom`, and the flip request. |
| `FillWaitFlip` | The end of the flip wait: recurse, or give up after `NUM_RECURSIVE`. |
| `FillCopy` | Target mapping from `m_active_channels`, copy, cursor and count update. A negative `min`, or a copy past the end of the buffer, is undefined behaviour (a `memcpy` of a huge `size_t`). The model takes it as a crash of the process (`cpc = "Crashed"`), after which no thread runs (`Alive`). |
| `Stop`, `Join` | `pico_src_impl::stop` → `complex_manager::stop`: clear `m_run`, join the demux thread. |

**Controller (`start`, `set_channel` → `update_tuners`):**

| Action | Code |
|---|---|
| `StartUpdate` | `start()` calls `update_tuners` with the constructor's tuner value. |
| `SetChannel` | `m_active_channels[0] = resp+1` or `-1`. |
| `CtrlUpdate` | The call to `update_tuners` that follows. |
| `CtrlWait` | The end of its busy-wait. |

**Data abstraction.** Bytes, formatting and the fixed-to-float arithmetic are
left out:

- A sample is a per-channel serial number (`nextId`), given to it when the demux
  counts it in.
- A slot holds the number of the sample written there, or `Junk` if no task has
  written it since allocation.
- The radio and network are the variables `sent`, `fsent` and `sentSamples`,
  plus the choice of how many packets or frames are lost (`drop`, `fdrop`).

**History variables** record what the properties compare:

| Variable | Records |
|---|---|
| `base`, `delivered` | The ids copied out since the last update. |
| `unbacked` | A return of items that were never copied. |
| `lossMark`/`lossTruth` and `frameMark`/`frameTruth` | Markers printed against packets or frames actually lost. |
| `seeded`, `seededF` | The first packet or frame after a reset. |
| `oob` | An out-of-bounds id was used. |

`MC_ComplexManager` adds model values that a .cfg cannot write (negative
tuner values, stream-id sets derived from `NumStreams`).

## 2a. Module `Vita49`

`Vita49.tla` models `vita49.cpp` as pure operators. There is no state: a
parse reads an immutable window.

- **Words.** A word is a record tagged with what the radio put there: `FAW`
  (either alignment value), `INFO` (frame_size, frame_count), `HDR` (the
  `VRTHeader` fields: type, c, t, tsi, tsf, count, size), `SID`, `VEND`, or
  `X` (any other word). The decoder reads a word through a view (`Hdr`,
  `InfoSize`, `InfoCount`). A word not written as that view reads as zero
  bits, which is what the reinterpret casts see for a zero word.
- **size_t.** `U(x) == x % 2^SizeTBits` is the unsigned arithmetic of
  `buffer_remaining`, `get_payload_size` and the `TRAILER` offset.
- **Operators.** `HasStreamId`, `HasClassId`, `HasTrailer`, `FieldOffset` (the
  nested-if chain of `get_field_offset`) and `PayloadSize` model the packet
  accessors. `GetStreamId`, `GetClassId`, `GetIntegerTimestamp`,
  `GetFractionalTimestamp`, `GetTrailer` and `GetPayload` are the value
  getters: `Thrown` when the header says the field is absent, else the
  field's words read by `ReadAt` at `FieldOffset`. `FrameTrailer` is the
  frame's `get_trailer`. `ParsePacket` is the constructor's type and size checks.
  `AlignScan` and `PacketWalk` are RECURSIVE translations of the scan `while`
  and the packet `do ... while`. `ParseFrame` is the `VRLFrameImpl`
  constructor: the result is the exception thrown (`index_error` or
  `runtime_error`) or the frame, with `*index`.

`MC_Vita49` checks the operators against reference definitions written from
the data model, not from the code. `RefLayout` lays out a packet field by field
as a sequence of tags, and `Tagged` turns that layout into a packet whose
words name their field, so a getter that reads the wrong word or throws for
a present field is seen. `EncodeFrame` builds a frame around a list of packets.

## 2b. Module `Reassembly`

`Reassembly.tla` models the window loop of `complex_manager::operator()`
(lines 252-310 and 430-457) over the buffers of `get_buffer_list`.

| Variable | Code |
|---|---|
| `sent` | how much of the radio's word sequence `Stream` the listener has handed out |
| `staged` | `m_overflow_buffer[0 .. m_amnt_saved)` |
| `win` | the buffer from `cpy_loc` to `total_length`: the saved tail prepended to the new data |
| `idx` | `byte_index`, as a word position in `win` |
| `pc` | top of the outer loop, the inner loop, or `Crashed` |
| `out` | the packet counters of the data packets dispatched |

Datagrams carry whole words, so byte offsets are kept in words.

| Action | Code |
|---|---|
| `GetEmpty` | `length == 0`: sleep and poll again |
| `GetBuffer` | a chunk of `ChunkSizes` words; the saved tail is copied before `UDP_START_INDEX` and `m_amnt_saved` cleared |
| `ParseOk` | `VRLFrame::parse` succeeds; the data packets (type `0x1`) are dispatched and `byte_index += vrl_index*4 + frame_size*4` |
| `ParseShort` | `index_error`: the tail from `byte_index` is saved. A tail longer than `UDP_START_INDEX` overruns the array, which is undefined behaviour and modelled as a crash. |
| `ParseBad` | any other exception: the window is abandoned |
| `EndWindow` | `byte_index >= total_length` |

Stream ids, tuner checks, buffer space, counters and the worker hand-off are
`ComplexManager`'s; here every data packet of a parsed frame counts as
dispatched. `MC_Reassembly` builds the radio streams: frames of IF-data and
IF-context packets, with padding where a run calls for it.

## 2c. Module `PacingSink`

`pico_sink_impl::work` paces the samples it sends to the radio. It compares
`m_total_samples` with the samples the radio has used since `m_start` at the
reported rate, and sleeps off the excess. `set_sample_rate` (and
`set_bandwidth`, which re-applies the rate) resets the throttle from the
radio's reply. Time is an integer `now` in microseconds, advanced by `Tick`.
In the build a `posix_time` tick is a microsecond, so `m_samples_per_tick`
and `m_samples_per_us` hold the same number. Rates are whole samples per
microsecond.

| Action | Code |
|---|---|
| `Init` | the constructor: `try_connect_mne`, then `try_connect_data` only when the mnemonic link is up (`ConnectOutcomes`); everything starts at 0. When the data connection failed, `try_connect_data` has sent `HLP?` and awaits the reply (phase `"Ctor"`) |
| `CtorRead` | that reply is read (its content is only printed) |
| `Start` | `start()`: `m_start`, `m_total_samples` and both per-time rates from `m_sample_rate` |
| `WorkDone` | `work()` without both connections returns `WORK_DONE` |
| `WorkCall` | `work()` with `m_sample_rate > 0`: `Expected`, then the sleep `SleepFor` (`long` of the excess over `m_samples_per_us`; a zero divisor gives `long(+inf)`, `LONG_MIN` on x86-64, so no sleep) |
| `WorkWake`, `WorkAdd` | the end of the sleep, then `m_total_samples += noutput_items` as a read and a write |
| `SetSampleRate` | `set_sample_rate(sr)` for `sr` in `1..MaxSr+1`: out of range it only prints; otherwise `SrCall` sends `SPR sr` and `SPR?` |
| `SrRead1`, `SrRead2` | the reply is read and parsed (`ReplyValues`) into `m_sample_rate`; above `MAX_SR_MHZ` the radio is sent `SPR 0` and asked again |
| `SetStart`, `SetTotal`, `SetPerTick`, `SetPerUs` | the four assignments that follow, one step each; when the rate differs from `sr`, `SetPerUs` also sends the help query `?SPR` |
| `SrHelp` | the help text is read (`get_values` only feeds the printout) |
| `SetBandwidth`, `BwRead`, `BwHelp` | `set_bandwidth`: `BWT bw` and `BWT?`, the reply read, the help query `?BWT` when the bandwidth differs (either way, since `actual_bw` is not modelled); `BwTail` then calls `set_sample_rate(m_sample_rate)` when the rate is positive |
| `SetPower`, `PwRead` | `set_power`: `TXP pwr` and `TXP?`, the reply read (its value is only printed) |
| `Destroy` | the destructor, with no call in progress: `disconnect_data` and `disconnect_mne` clear both flags (`Disconnected`) and close the socket (`Link!Disconnect`); no call follows |
| `Deliver` | a segment of a reply reaches the sink's socket |
| `Tick` | one microsecond passes |

`ReplyValues` is the parse `atof(response.substr(response.find_first_of(" ")
+ 1, 13))` over tokens: the text after the first space (from the start when
there is none), a leading line end skipped as white space, then the number
there or 0. A number followed by the unwritten byte, or that byte alone,
may read as any rate (the byte may be a digit).

`work()` runs in the scheduler's thread and the setters in the caller's, and
the block takes no lock. The constant `Serialized` makes a setter and a
`work()` call exclude each other, as they would if both took `d_setlock`.
The run sets it, to check the throttle's arithmetic. The code itself runs
as with `Serialized = FALSE` (see the sink race below).
With `m_sample_rate = 0`, `work()` sends without touching the throttle. That
step changes no modelled state, so it has no action.

## 2c'. Module `MnemonicLink`

`boost_client` on the mnemonic connection, and the radio at its far end as
the client sees it. Its actions are fragments that `PacingSink` and
`SourceControl` conjoin (`Link == INSTANCE MnemonicLink`); its variables
are the socket's state `sock`, the reply segments in flight `wire`, the
bytes received and not yet read `rx`, the rate the radio runs at `radio`
and the radio's selected channel `rch`. The sink never selects a channel,
so it instantiates the module with one channel and `rch <- 1`. A reply line `"<MNE>
<value>\r\n"` is four tokens: mnemonic, space, number, line end; command
strings are reduced to their mnemonic.

| Definition | Code |
|---|---|
| `Send(cmds, c, q)`, `Write(cmds, q)` | `send_message`'s `boost::asio::write` for each command and then the query; the radio executes them in order (`SPR` and `BWT` may change its rate, `RCH c` selects channel `c`) and answers the query: `SPR?` with its rate, `VID?` with the stream id of its channel (`StreamOf`), any other with some value (`Answers`). With `q = ""` (`SEND_STR`, timeout -1) nothing is read. `Write` is a request without `RCH` |
| `AfterSpace(s)` | `response.substr(response.find_first_of(" ") + 1, n)`, which both blocks apply to a reply: the tokens after the first space, or all of them when there is none (`npos + 1 = 0`) |
| `ReadSome` | the one `read_some`: it waits until bytes have arrived and takes all of them |
| `Received` | the string built from them: `recv_buff[amnt_read + 1] = '\0'` leaves `recv_buff[amnt_read]` unwritten, so a stray byte may end it |
| `Deliver` | TCP hands a segment to the receive buffer; with `Splits` a reply comes whole or in two segments split between any two tokens (`Segmentations`) |
| `Disconnect` | `disconnect` and `~boost_client`: the socket closes, and what was in flight or unread is gone |

## 2c''. Module `SourceControl`

The source block's control calls (`pico_src_impl.cc`), composed with
`MnemonicLink`. Variables: `connected` (`m_connected`), `phase` (not
started, started, stopped), `cm` (`m_complex_manager`: none, running,
stopped), `tuners` (the tuner list the manager was last given), `active`
(`m_active_channels[0]`), `spc` (the setter in progress) and `calls`.
`start()` and `stop()` run on the scheduler's thread, the setters on GNU
Radio's callback thread, so a setter that reads a reply is two actions (its
writes, then its read) and `start()`/`stop()` can come in between.

| Action | Code |
|---|---|
| `Init` (`TryConnect`) | constructor: `m_active_channels[0] = -1`, `try_connect` (success or failure), `setup_pico`'s `SIP` and `END` commands, which change nothing the model reads |
| `Start` | `start()`: when connected, a new `complex_manager`, `update_tuners(m_active_channels)`, `OPM1` |
| `Stop` | `stop()`: `OPM0` (nothing when not connected), `complex_manager::stop()` |
| `SetSampleRate`, `SrQuery`, `SrRead` | `set_sample_rate`: in range `OPM0; SPR sr; OPM1`; above `MAX_SR_MHZ` or below `MIN_SR_MHZ`, `OPM0; SPR <limit>; SPR?` with timeout 1, one read (printed only), `OPM1`; not connected, a message |
| `SetAttenuation`, `SetFrequency` | `ATT`/`FRQ` when connected and in range (the argument is abstracted to in range or not) |
| `SetChannel`, `ChRead` | `set_channel`: for `0 < channel <= NUM_OUTPUT_STREAMS` when connected, `RCH channel`, `VID?` with timeout 1, one read, `to_hex >> resp` (`HexValues`), `m_active_channels[0] = resp + 1`; otherwise `-1`; then `update_tuners` if there is a manager (`UpdateTuners`; on a stopped manager it never returns, `spc = "Hung"`) |

`HexValues` models the parse: skip a line end, read hex digits; a number
followed by the unwritten byte may gain a digit, and no digits leave
`resp` at 0 (C++11) or indeterminate (C++98, `int resp` is uninitialized),
both abstracted to `0 .. 15`. Values below 10 have the same decimal and
hex text (an `ASSUME`). `work()` and what `update_tuners` does in the
manager are `ComplexManager`'s.

## 2d. Module `SampleFifo` and the refinement

`SampleFifo` states what `complex_manager` promises its consumer, without
buffers: one FIFO of samples per channel. `Put(c)` appends an admitted
packet's samples, `Take(c)` hands out the oldest ones (recorded in `got`),
and `Reset` (a reconfiguration) empties every queue.

`ComplexManager` instantiates it as `Fifo` with this refinement mapping:

- `q[c]` is `Queue(c)`: the unread part of the readable buffer, from its read
  index (`get_read_buffer`), then the filled part of the active buffer
  (`get_active_buffer`).
- A slot reserved for a running task counts as the sample that task will
  write there (`Content`). A conversion is therefore a stutter step.
- `got` is `delivered`, the ids `fill_buffers` copied out.

`FifoRefinement == Fifo!Spec` is checked as a property of the datapath and
shutdown runs.
Each step must then be one of three things: a stutter of every queue (a
flip, a conversion, a scan), an append at one channel's tail, or a copy of
exactly the head samples. The only alternative is a reset of all queues
together with `delivered`. A flip that dropped unread samples, a copy from
the wrong index or buffer, and an update that kept samples all break it.

## 3. Runs

| Run | cfg | Result | What it shows |
|---|---|---|---|
| datapath | `MC_ComplexManager.cfg` | pass, 104,472 states, about 1.5 min | See the list below. |
| shutdown | `MC_Shutdown.cfg` | pass, 410,536 states, about 1.5 min | Two tasks and buffers that hold two one-sample packets, so the second packet is dispatched to the second task while the first may still be converting; `stop()` at any time and the out-of-range id `NUM_STREAMS` on the wire. Through overlapping conversions, flips, updates and shutdown, the buffers still implement the FIFO (`FifoRefinement`) and the consumer gets only admitted samples, in order (`DeliveredSamplesAreAdmitted`). |
| update_race | `MC_UpdateRace.cfg` | violation | `handle_update` between the scan and the copy leaves `out_count` at `-min`. |
| stop_hang | `MC_StopHang.cfg` | violation | `stop()` while a packet is deferred never returns. |
| stop_skips_drain | `MC_StopSkipsDrain.cfg` | violation | `stop()` while the demux holds a packet for dispatch and the task still converts the previous one: the dispatch loop returns (complex_manager.cpp:407) without the final wait for the tasks, and `stop()` returns with a task running (`StoppedOnlyWhenTasksIdle`, the DRAINING state of spec.md). |
| vita49 | `MC_Vita49.cfg` | pass, 5,904 states | `FieldOffsetsMatchLayout`: `get_field_offset` and `get_payload_size` put every present field, the payload and the trailer where the layout does, for the six known types, both flags, all timestamp codes and sizes 0-8. `FrameDecodesToItsPackets`: a frame of one or two packets behind 0-2 garbage words and before 1-2 padding words is found, with its size, counter, skip count, packet positions and trailer word. `GettersReadTheirFields`: each value getter throws exactly when its field is absent and otherwise returns that field's words. |
| reassembly | `MC_Reassembly.cfg` | pass, 242 states | Two streams: three frames then idle padding, and three frames then a last five-word frame. For every cut into reads of 2, 3, 5 or 6 words: the dispatched packets are a prefix of those sent (`DeliveredInOrder`), the saved tail fits the staging region (`NoStagingOverflow`), and every packet is eventually dispatched (`AllSentDelivered`). |
| padding_split | `MC_Reassembly_Padding.cfg` | violation | One padding word before a frame, and a read ending four words after its alignment word: the scan throws `runtime_error` and the frame is lost. |
| sink_pacing | `MC_PacingSink.cfg` | pass, 378,376 states, about 10 s | With the setters serialized with `work()` and every reply arriving as one line, through `set_sample_rate` (with its `SPR 0` re-query and help query), `set_bandwidth` and `set_power`: the count never exceeds what the radio has used at the reported rate by more than one batch plus the truncated microsecond (`PacedToRate`), a sleep never outlasts the samples sent (`NoUnderrunSleep`), and once a setter has finished, a rate `set_sample_rate` accepts is the rate the radio runs at, also after a `BWT` changed it (`RateIsRadioRate`). |
| sink_rate_desync | `MC_SinkDesync.cfg` | violation | The same sink with TCP free to split a reply line in two: `RateIsRadioRate` fails. One `read_some` returns `"SPR "`, which parses as 0 or as the digit in the unwritten byte after it, and the rest of the line is then read as the reply to the next query. |
| source_control | `MC_SourceControl.cfg` | pass, 528 states, about 1 s | `SourceControl` with two radio channels on stream ids 0 and 1, sample rates 0-3 against limits 1-2 (so both out-of-range paths query `SPR?`), channels 0-2 against `NUM_OUTPUT_STREAMS = 1`, five setter calls and any `start()`/`stop()` sequence, replies arriving whole: once no setter is half-way, a positive `m_active_channels[0]` and the tuner the manager was given are the radio's selected channel's stream id plus one (`ActiveIsSelectedStream`), and a running manager's tuner list is `m_active_channels`, also when `start()` replaced the manager while `set_channel` waited for its reply (`ManagerFollowsActive`). |
| long_packet | `MC_Reassembly_LongPacket.cfg` | violation | A packet larger than its frame: the tail saved on `index_error` grows with each read until it overruns `m_overflow_buffer`. |

The datapath run checks, with two tasks, a consumer calling `work()` forever
for one or two samples and `set_channel` re-applied between `work()` calls:

- `FifoRefinement`: the channel's double buffers implement the FIFO of
  `SampleFifo` (section 2d). A flip and a conversion leave the queue as it
  is, an admitted packet goes to its tail, a copy takes from its head, and
  `handle_update` empties it.

- `DeliveredSamplesAreAdmitted`: each admitted sample is delivered once and in
  order, and never a stale, repeated or unwritten slot. Samples of a
  configuration that `update_tuners` discarded are never delivered.
- `BufferCountsInBounds`: counts and cursors stay within the buffer.
- `LossReportedIffLost`: an `L` or `F` marker is printed exactly when packets or
  frames were lost, across counter wraps.
- `AdmittedSamplesEventuallyDelivered`: every admitted sample is eventually
  delivered.

Every property of a passing run has a mutant in `PROJECT.json`. The mutant is a
plausible bug in the code it models, and TLC finds the property violated under
the run's cfg:

- `handle_flip` not resetting the read index;
- the scan comparing the wrong way;
- `handle_update` not resetting `out_count`;
- the expected packet counter wrapping one early;
- the dispatch loop taking the first task even while it is running;
- `fill_buffers` never raising `m_request_flip`;
- the class identifier counted as one word in `get_field_offset`;
- the packet loop test off by one word;
- `get_fractional_timestamp` testing the integer timestamp type;
- `byte_index` reset to the start on a hard error;
- the whole window, rather than the tail from `byte_index`, saved on `index_error`;
- packets of every type dispatched;
- `VRLFrame::parse` requiring more than five words;
- `m_samples_per_us` set from the rate in Hz;
- `set_sample_rate` not resetting `m_total_samples`;
- the sleep rounded up instead of truncated;
- `set_bandwidth` without its trailing `set_sample_rate(m_sample_rate)`;
- the source's out-of-range `set_sample_rate` sending `SPR?` with the
  default timeout -1, so its reply is never read and the next
  `set_channel` parses it as the stream id;
- the source's `start()` creating the manager without `update_tuners`.

### Bounds and why they suffice

- **Channels.** `NumStreams = 1`, as in the build (`NUM_STREAMS`). The
  shutdown run sends the id `1`, which is `NUM_STREAMS`, one past the
  channel array; the bound check lets it through.
- **Tasks and buffers.** The capacity check is strict
  (`out_count + samples >= NUM_COMPLEX` defers), so a buffer of `Capacity`
  slots takes packets of `n` samples while the count stays below
  `Capacity - n`. In the datapath run `Capacity` is 3 and packets carry 2
  samples: one packet per buffer, and the second is deferred, possibly
  while the readable buffer still holds data. The datapath run has two
  tasks, but with one packet per buffer the first task is always idle
  again before the next dispatch can find it busy, so conversions do not
  overlap there. The shutdown run has two tasks, `Capacity = 3` and
  packets of 1 sample: two packets per buffer, so the second is dispatched
  (to the second task) while the first may still be converting, and a
  flip, an update or `stop()` can find a task busy. The stop_skips_drain
  run has the same buffers and the build's single task, so the dispatch
  loop can wait for it; update_race and stop_hang use `Capacity = 2` and
  packets of 1 sample.
- **Counters.** `MaxPacketCount` and `MaxFrameCount` are 2, so the counters
  are mod 3. A single loss (`MaxDrop = 1`) and a wrap both occur within three
  packets.
- **Samples.** `MaxSamples` (4 in the datapath run, 3 in the shutdown run, 2 in the others) bounds what the radio sends per stream.
  This keeps the space finite. It is still enough to fill a buffer, flip, and
  read across a flip.
- **Requests.** The consumer asks for 1 or 2 samples in the datapath run, and
  for 1 in the others. A request of 1 takes part of a buffer and leaves the
  read index mid-buffer; a request of 2 takes a whole buffer or its rest.
- **Loss and the shutdown run.** The shutdown run, whose overlapping
  conversions and `stop()` are the expensive part, keeps counters of width
  1 and no loss. Loss detection is checked by the datapath run.
- **Packets and frames.** The `Vita49` fields run covers every combination of
  type (the six known codes and one unknown one), presence flags and timestamp
  codes, so each branch of `get_field_offset` is taken with and without each
  earlier field. The frames run covers garbage of 0-2 words, which puts the
  alignment word at every offset the scan may stop at before the 5-word limit.
- **Streams.** A frame is 5 or 7 words, and reads are 2, 3, 5 or 6 words.
  Every position in a frame is a possible cut, and a window can hold a whole
  frame plus the start of the next. `StageCap = 6` is one word less than the
  longest frame, so the bound is tight: a window saving one word more
  overflows.
- **Sink.** The radio runs at 1 or 3 samples per microsecond with
  `MaxSr = 2`, so a rate of 3 is answered with `SPR 0` and a re-query, and
  a `BWT` can move the radio between a rate `set_sample_rate` accepts and
  one it does not. Other queries answer 2. Batches of 1 and 2 samples: at
  rate 1 a batch of 2 puts the sink ahead and it sleeps. At rate 3 an
  excess of 2 truncates to no sleep, and an excess of 4 sleeps 1 with a
  remainder, which is where rounding the other way would oversleep. Six
  microseconds, counts up to 8 and three setter calls allow a rate change
  before `start()` and two after it, or a `set_bandwidth` between two
  `set_sample_rate` calls. The pacing run delivers replies whole
  (`Splits = FALSE`): with splits the link alone has 5.5 million states
  at two calls. The desync run splits replies and holds time at 0, which
  the question does not need.
- **Source control.** Two radio channels with different stream ids, so a
  wrong reply can name the wrong stream; rates 1 and 3, which differ from
  every stream id plus one, so a leftover rate reply is caught. Five
  setter calls allow an out-of-range `set_sample_rate`, a `set_channel`,
  and a `start()`/`stop()` between and during them. With `Splits = TRUE`
  the same cfg violates `ActiveIsSelectedStream` in three steps (a `VID`
  fragment without digits); the run keeps lines whole to ask whether the
  block's own sequencing pairs every query with its reply.

Further disagreements met while modelling are recorded as hazards and
not kept as runs:

- **Uncopied return.** `fill_buffers` returns the requested count without
  copying when no output maps to a valid channel, e.g. for
  `m_active_channels[0] = -1`, the value after the constructor and after an
  invalid `set_channel` (complex_manager.cpp:193); the header says it
  returns the items copied. An earlier run showed
  `DeliveredSamplesAreAdmitted` violated by it; one `fill_buffers` call
  shows it in a unit test, and the run gave its place to `source_control`.
- **Streaming restarted by set_sample_rate.** Every path of the source's
  `set_sample_rate` ends with `OPM1`, also after `stop()` or before
  `start()` (pico_src_impl.cc:149), so the radio streams while no manager
  listens.

- **set_channel after stop().** `update_tuners` called after `stop()`
  spins forever on `m_update_valid_streams`, as no demux thread is left
  to clear it (complex_manager.cpp:121); `SourceControl` takes this path
  (`spc = "Hung"`). One call in a unit test shows it.
- **Off-by-one stream-id bound.** The check `stream_id > NUM_STREAMS` lets
  id `NUM_STREAMS` index one past `m_mang` (complex_manager.cpp:349); spec
  4.2 says out-of-range ids are dropped. The shutdown run sends that id and
  `DemuxPacket` records it in `oob`; one packet reaches it in a unit test.
- **Loss markers.** One `L` is printed per counter gap. The comment at
  complex_manager.h:120 and the spec promise one per lost packet.
- **frame_size 0.** A frame whose info word declares size 0 leaves
  `byte_index` unchanged. The window loop then re-dispatches the same packet
  forever. No run feeds such a frame.
- **Sink throttle race.** `set_sample_rate` writes `m_start`,
  `m_total_samples` and the two per-time rates one by one, with no lock
  against `work()` (pico_sink_impl.cc:273). With `Serialized = FALSE`, TLC
  violates both `PacedToRate` and `NoUnderrunSleep` with the sink's cfg. A
  `work()` call between the assignments reads `m_samples_per_us = 0` and
  skips the sleep. After the setter returns, the sink is more than a batch
  ahead of the reported rate. The comment at pico_sink_impl.cc:197 says
  `work()` throttles to that rate.

### Fairness

These actions are weakly fair:

- The demux thread and the tasks: they are dedicated threads that always
  get scheduled.
- `FillCall`, `FillWaitFlip` and `FillCopy`: the GNU Radio scheduler keeps
  calling `work()` while the flowgraph runs.
- `StartUpdate`, `CtrlUpdate`, `CtrlWait` and `Join`: continuations of a call
  already in progress.

`SetChannel` and `Stop` are decisions of the user and get no fairness.
`PacingSink` is checked for safety only and assumes no fairness, not even
for `Deliver` (a lost segment would leave a setter blocked in `read_some`,
which is a hazard, not a property). Its time
bound `MaxTime` ends every behaviour, and `work()` may also end the block
with `WORK_DONE`. That is why its cfg does not check deadlock.
`SourceControl` is checked for safety only; its cfg checks deadlock,
and none occurs: `start()` and `stop()` stay enabled after the setter
calls run out or a `set_channel` hangs.
In `Reassembly` the window loop is weakly fair, being the same dedicated
thread. `GetBuffer` is weakly fair too: the listener eventually hands out
what the radio has sent.
Liveness is checked in the datapath run (`AdmittedSamplesEventuallyDelivered`),
the reassembly run (`AllSentDelivered`) and the violation run `stop_hang`.
The shutdown run's `FifoRefinement` is a safety property of `Fifo!Spec`,
which has no fairness.

## 4. Findings

Recorded in `PROJECT.json`:

1. **Reply parsed from one read.** `send_message` returns what one
   `read_some` returned (boost_client.cpp:94), and the sink parses it with
   `substr` and `atof` (pico_sink_impl.cc:264); spec.md calls the client
   line-oriented. A reply line split across TCP segments gives the sink a
   rate the radio does not run at, and the rest of the line answers the
   next query.
2. **Update race.** `set_channel` is not serialized with `work()`, and
   `fill_buffers` checks `m_update_valid_streams` only on entry. An update
   applied between the scan and the copy drives `out_count` negative, and the
   next copy has a negative length (complex_manager.cpp:131).
3. **stop() hangs.** `stop()` never returns if the demux is deferring a packet
   for a full buffer, because the packet loop does not test `m_run`
   (complex_manager.cpp:364).
4. **stop() does not always drain.** The dispatch loop is
   `while (m_run && setup_thread < 0)`, followed by `if (setup_thread < 0)
   return;` (complex_manager.cpp:407). When `stop()` clears `m_run` while
   the demux waits there for a busy task, the thread returns without the
   final `while (threads_active()) usleep` (460-463), the join completes,
   and `complex_manager::stop` stops the tasks with one still converting
   into the buffers. spec.md's DRAINING state says shutdown waits for all
   workers to go idle before the thread terminates.
5. **Split frame after padding lost.** When the alignment scan steps over
   padding until fewer than 5 words remain, the code throws `runtime_error`,
   not `index_error` as the spec's `InsufficientData`. The caller drops the
   tail, so a frame split across two reads is lost (vita49.cpp:537).
6. **Unbounded staging copy.** A packet larger than its frame raises
   `index_error` even when the frame is complete. The tail is saved again on
   every read until the `memcpy` overruns `m_overflow_buffer`. The spec says
   the copy is capped (complex_manager.cpp:439).

## 5. Not modelled, and the plan

**Not modelled now:**

- In `Vita49`: `get_timestamp_mode` (the model's header has no `tsm`
  field), the `to_string` dumps, and the CRC, which the code never computes.
- In `Reassembly`, the stream-id, tuner and space checks of the packet loop,
  which are `ComplexManager`'s. `ComplexManager` in turn abstracts a window
  to its frames.
- In the sink block: `set_frequency` and `setup_pico`, which only send
  commands the model's radio ignores, and the help-text parsing
  `get_values`, whose result is only printed.
- In the control client: how long `try_connect` takes (its deadline is
  never armed), the `setsockopt` failure path, a reply that never comes or
  is lost (`read_some` would block or throw).
- In the source block: the radio's streaming state (`OPM`), attenuation and
  frequency, which no property reads; the commands are sent, their
  arguments abstracted to in range or not. The destructor is empty.
- Memory ordering: the volatile flags are treated as atomic and sequentially
  consistent.

**Open, needing a run of its own:**

1. The wrapped `get_payload_size` of a malformed packet carried into the
   space check of `ComplexManager`, where it defers the packet forever.
