----------------------------- MODULE PacingSink -----------------------------
(***************************************************************************)
(* The transmit block pico_sink (src/lib/pico_sink_impl.cc): the throttle  *)
(* in work() that paces the samples handed to the radio to the sample rate *)
(* the radio reports, and the callbacks that (re)arm it or talk to the     *)
(* radio over the mnemonic link (module MnemonicLink): the constructor,    *)
(* start(), set_sample_rate, set_bandwidth, set_power and the destructor.  *)
(*                                                                         *)
(* Time is boost::get_system_time() in microseconds, which is also the     *)
(* tick of boost::posix_time in the build, so m_samples_per_tick and       *)
(* m_samples_per_us hold the same number: samples per microsecond.  Rates  *)
(* are whole samples per microsecond, i.e. Msps, the unit of the radio's   *)
(* replies, so m_sample_rate in Hz is the same number too.                 *)
(*                                                                         *)
(* work() runs in the scheduler's thread, the setters in the caller's      *)
(* (GUI) thread.  With Serialized, a setter and a work() call never        *)
(* overlap, as if both took the block's d_setlock; the code takes no lock. *)
(* send_data on the data socket and the console output change no state    *)
(* the model reads and are left out.                                       *)
(***************************************************************************)
EXTENDS Integers, Sequences

CONSTANTS
  RadioRates,  \* rates (samples/us) the radio may run at
  Values,      \* values the radio may put in replies to other queries
  Splits,      \* a reply may reach the sink in two TCP segments
  MaxSr,       \* MAX_SR_MHZ, in the same unit
  Batches,     \* noutput_items the scheduler may pass to work()
  MaxTime,     \* bound: last microsecond explored
  MaxTotal,    \* bound: largest m_total_samples explored
  MaxCalls,    \* bound: setter calls per behaviour
  Serialized   \* setters and work() exclude each other

VARIABLES
  now,        \* boost::get_system_time()
  connected,  \* [mne |-> m_mne_connected, data |-> m_data_connected]
  phase,      \* "Ctor" (the constructor awaits a reply), "Built",
              \* "Running" (start() ran), "Done" (work() returned
              \* WORK_DONE), "Destroyed"
  rate,       \* m_sample_rate; 0 disables the throttle
  start,      \* m_start
  total,      \* m_total_samples
  perTick,    \* m_samples_per_tick
  perUs,      \* m_samples_per_us
  wpc,        \* work(): "Idle", "Sleep" (in this_thread::sleep), "Add"
  wake,       \* end of work()'s sleep
  batch,      \* noutput_items of the current work() call
  seen,       \* m_total_samples as read by "+=", before its write
  spc,        \* the setter in progress: "Idle" or its next step
  req,        \* the sr argument of the set_sample_rate in progress
  calls,      \* setter calls made
  sock, wire, rx, radio   \* m_mne_client and the radio (MnemonicLink)

\* The sink never selects a receive channel (it sends no RCH): the radio's
\* channel is fixed and no query of the sink's asks for a stream id.
Link == INSTANCE MnemonicLink WITH Channels <- {1}, StreamOf <- [c \in {1} |-> 0],
                                  rch <- 1

throttle == <<start, total, perTick, perUs>>
workVars == <<wpc, wake, batch, seen>>
link     == <<sock, wire, rx, radio>>
vars == <<now, connected, phase, rate, throttle, workVars, spc, req, calls,
          link>>

Rates == RadioRates \cup Values \cup {0}
MaxBatch == CHOOSE b \in Batches : \A x \in Batches : x <= b

TypeOK ==
  /\ now \in 0 .. MaxTime
  /\ connected \in [mne: BOOLEAN, data: BOOLEAN]
  /\ phase \in {"Ctor", "Built", "Running", "Done", "Destroyed"}
  /\ rate \in Rates /\ perTick \in Rates /\ perUs \in Rates
  /\ start \in 0 .. now
  /\ total \in 0 .. MaxTotal /\ seen \in 0 .. MaxTotal
  /\ wpc \in {"Idle", "Sleep", "Add"}
  /\ wake \in Nat /\ batch \in Batches \cup {0}
  /\ spc \in {"Idle", "Read1", "Read2", "Start", "Total", "Tick", "Us",
              "Help", "BwRead", "BwHelp", "PwRead"}
  /\ req \in 0 .. MaxSr
  /\ calls \in 0 .. MaxCalls
  /\ sock \in BOOLEAN /\ radio \in RadioRates
  /\ rx \in Seq(Link!Tokens) /\ wire \in Seq(Seq(Link!Tokens))

-----------------------------------------------------------------------------
(* The throttle *)

\* expected_samps = uint64_t(m_samples_per_tick * ticks).
Expected == perTick * (now - start)

\* Mutant: the sleep rounded up to whole microseconds.
SleepForRoundsUp ==
  IF total > Expected /\ perUs > 0
  THEN (total - Expected + perUs - 1) \div perUs ELSE 0

\* The sleep, in microseconds: long((m_total_samples - expected_samps) /
\* m_samples_per_us) when ahead, none otherwise.  With m_samples_per_us = 0
\* the quotient is +inf and long(+inf) is undefined; x86-64 yields LONG_MIN,
\* a negative duration, so the thread does not sleep.
SleepFor ==
  IF total > Expected /\ perUs > 0 THEN (total - Expected) \div perUs ELSE 0

-----------------------------------------------------------------------------
(* Replies *)

\* std::atof(response.substr(response.find_first_of(" ") + 1, 13)): skip a
\* line end (white space), then read the number there, or 0.  A number
\* that the stray byte follows, or the stray byte alone, may read as any
\* value (the byte may be a digit).  The parse of set_sample_rate,
\* set_bandwidth and set_power.
ReplyValues(s) ==
  LET a == Link!AfterSpace(s)
      t == IF a # <<>> /\ a[1] = Link!Eol THEN Tail(a) ELSE a
  IN IF t = <<>> \/ t[1].k \notin {"NUM", "STRAY"} THEN {0}
     ELSE IF t[1] = Link!Stray \/ (Len(t) > 1 /\ t[2] = Link!Stray)
          THEN Rates
     ELSE {t[1].v}

-----------------------------------------------------------------------------

\* try_connect_mne, then try_connect_data only if the mnemonic link came
\* up: each connect may succeed or fail.
ConnectOutcomes ==
  {[mne |-> m, data |-> m /\ d] : m, d \in BOOLEAN}

\* disconnect_data and disconnect_mne: both flags cleared.
Disconnected == [mne |-> FALSE, data |-> FALSE]

\* The constructor: connect (setup_pico's commands leave the rate alone);
\* when the data connection failed, send_message(HELP_QRY, 2) awaits the
\* reply.  The rate and the throttle start at 0.
Init ==
  /\ now = 0
  /\ connected \in ConnectOutcomes
  /\ sock = connected.mne /\ radio \in RadioRates /\ rx = <<>>
  /\ IF connected.mne /\ ~connected.data
     THEN phase = "Ctor" /\ wire \in Link!Answers("HLP?", radio, 1)
     ELSE phase = "Built" /\ wire = <<>>
  /\ rate = 0 /\ start = 0 /\ total = 0 /\ perTick = 0 /\ perUs = 0
  /\ wpc = "Idle" /\ wake = 0 /\ batch = 0 /\ seen = 0
  /\ spc = "Idle" /\ req = 0 /\ calls = 0

\* try_connect_data reads the help reply (it only prints what it finds).
CtorRead ==
  /\ phase = "Ctor"
  /\ Link!ReadSome
  /\ phase' = "Built"
  /\ UNCHANGED <<now, connected, rate, throttle, workVars, spc, req, calls,
                 sock, wire, radio>>

\* start(): restart the throttle from the current rate.
Start ==
  /\ phase = "Built"
  /\ Serialized => spc = "Idle"
  /\ phase' = "Running"
  /\ start' = now
  /\ total' = 0
  /\ perTick' = rate
  /\ perUs' = rate
  /\ UNCHANGED <<now, connected, rate, workVars, spc, req, calls, link>>

\* work() without both connections returns WORK_DONE: the block finishes.
WorkDone ==
  /\ phase = "Running" /\ wpc = "Idle"
  /\ ~(connected.mne /\ connected.data)
  /\ phase' = "Done"
  /\ UNCHANGED <<now, connected, rate, throttle, workVars, spc, req, calls,
                 link>>

\* work() with m_sample_rate > 0: compare the samples sent with those the
\* radio has used since m_start and sleep off the excess.  (With
\* m_sample_rate = 0 work() only sends: no state of the throttle changes.)
WorkCall ==
  /\ phase = "Running" /\ wpc = "Idle"
  /\ connected.mne /\ connected.data
  /\ rate > 0
  /\ Serialized => spc = "Idle"
  /\ \E n \in Batches :
       /\ total + n <= MaxTotal
       /\ batch' = n
  /\ wake' = now + SleepFor
  /\ wpc' = "Sleep"
  /\ UNCHANGED <<now, connected, phase, rate, throttle, seen, spc, req,
                 calls, link>>

\* The sleep ends; "m_total_samples += noutput_items" reads the counter.
WorkWake ==
  /\ wpc = "Sleep" /\ now >= wake
  /\ seen' = total
  /\ wpc' = "Add"
  /\ UNCHANGED <<now, connected, phase, rate, throttle, wake, batch, spc,
                 req, calls, link>>

\* ... and writes it back; the batch is sent and work() returns.
WorkAdd ==
  /\ wpc = "Add"
  /\ total' = seen + batch
  /\ wpc' = "Idle"
  /\ UNCHANGED <<now, connected, phase, rate, start, perTick, perUs, wake,
                 batch, seen, spc, req, calls, link>>

-----------------------------------------------------------------------------
(* The setters.  Each runs in the caller's thread as a sequence of steps,  *)
(* spc naming the next one; the model starts one only while none is       *)
(* running and the mnemonic link is up (without it each only prints).     *)

Callable == phase \in {"Built", "Running", "Done"}

SetterGuard ==
  /\ Callable /\ connected.mne
  /\ spc = "Idle" /\ calls < MaxCalls
  /\ Serialized => wpc = "Idle"

\* set_sample_rate(sr), up to its first read: in range, SPR <sr> then the
\* query SPR?; out of range it only prints.  rx is the caller's.
SrCall(sr) ==
  IF sr <= MaxSr
  THEN /\ req' = sr
       /\ Link!Write({"SPR"}, "SPR?")
       /\ spc' = "Read1"
       /\ UNCHANGED sock
  ELSE /\ spc' = "Idle"
       /\ UNCHANGED <<req, sock, wire, radio>>

\* The GUI calls set_sample_rate (or update_sample_rate) with a rate of
\* 1 .. MaxSr + 1 Msps.
SetSampleRate ==
  /\ SetterGuard
  /\ calls' = calls + 1
  /\ \E sr \in 1 .. MaxSr + 1 : SrCall(sr)
  /\ UNCHANGED <<now, connected, phase, rate, throttle, workVars, rx>>

\* The reply to SPR? is read and parsed into m_sample_rate; above
\* MAX_SR_MHZ the radio is sent SPR 0 and asked again.
SrRead1 ==
  /\ spc = "Read1"
  /\ Link!ReadSome
  /\ \E s \in Link!Received : \E r \in ReplyValues(s) :
       /\ rate' = r
       /\ IF r > MaxSr
          THEN Link!Write({"SPR"}, "SPR?") /\ spc' = "Read2"
          ELSE spc' = "Start" /\ UNCHANGED <<wire, radio>>
  /\ UNCHANGED <<now, connected, phase, throttle, workVars, req, calls, sock>>

SrRead2 ==
  /\ spc = "Read2"
  /\ Link!ReadSome
  /\ \E s \in Link!Received : \E r \in ReplyValues(s) : rate' = r
  /\ spc' = "Start"
  /\ UNCHANGED <<now, connected, phase, throttle, workVars, req, calls, sock,
                 wire, radio>>

\* m_start = boost::get_system_time().
SetStart ==
  /\ spc = "Start"
  /\ start' = now
  /\ spc' = "Total"
  /\ UNCHANGED <<now, connected, phase, rate, total, perTick, perUs,
                 workVars, req, calls, link>>

\* Mutant: the sample counter not reset with m_start.
SetTotalKeeps ==
  /\ spc = "Total"
  /\ total' = total
  /\ spc' = "Tick"
  /\ UNCHANGED <<now, connected, phase, rate, start, perTick, perUs,
                 workVars, req, calls, link>>

SetTotal ==
  /\ spc = "Total"
  /\ total' = 0
  /\ spc' = "Tick"
  /\ UNCHANGED <<now, connected, phase, rate, start, perTick, perUs,
                 workVars, req, calls, link>>

SetPerTick ==
  /\ spc = "Tick"
  /\ perTick' = rate
  /\ spc' = "Us"
  /\ UNCHANGED <<now, connected, phase, rate, start, total, perUs,
                 workVars, req, calls, link>>

\* Mutant: m_samples_per_us taken from the rate in Hz, without the 1e6.
SetPerUsInHz ==
  /\ spc = "Us"
  /\ perUs' = rate * 1000000
  /\ IF rate # req THEN Link!Write({}, "?SPR") /\ spc' = "Help"
                   ELSE spc' = "Idle" /\ UNCHANGED <<wire, radio>>
  /\ UNCHANGED <<now, connected, phase, rate, start, total, perTick,
                 workVars, req, calls, sock, rx>>

\* The last assignment; when the rate differs from the one requested, the
\* help text (SAMPLE_RATE_HLP) is asked for, to print the rates offered.
SetPerUs ==
  /\ spc = "Us"
  /\ perUs' = rate
  /\ IF rate # req THEN Link!Write({}, "?SPR") /\ spc' = "Help"
                   ELSE spc' = "Idle" /\ UNCHANGED <<wire, radio>>
  /\ UNCHANGED <<now, connected, phase, rate, start, total, perTick,
                 workVars, req, calls, sock, rx>>

\* The help text is read; get_values only feeds the printout.
SrHelp ==
  /\ spc = "Help"
  /\ Link!ReadSome
  /\ spc' = "Idle"
  /\ UNCHANGED <<now, connected, phase, rate, throttle, workVars, req, calls,
                 sock, wire, radio>>

\* set_bandwidth: BWT <bw> (the radio may change its sample rate), then
\* the query BWT?.
SetBandwidth ==
  /\ SetterGuard
  /\ calls' = calls + 1
  /\ Link!Write({"BWT"}, "BWT?")
  /\ spc' = "BwRead"
  /\ UNCHANGED <<now, connected, phase, rate, throttle, workVars, req, sock,
                 rx>>

\* Mutant: set_bandwidth without its trailing set_sample_rate.
BwTailSkipsRate ==
  spc' = "Idle" /\ UNCHANGED <<req, sock, wire, radio>>

\* The tail of set_bandwidth: with a rate set, set_sample_rate(m_sample_rate).
BwTail ==
  IF rate > 0 THEN SrCall(rate)
  ELSE spc' = "Idle" /\ UNCHANGED <<req, sock, wire, radio>>

\* The BWT? reply is read; actual_bw is not modelled, so it may differ
\* from bw (the help text BANDWIDTH_HLP is asked for) or not.
BwRead ==
  /\ spc = "BwRead"
  /\ Link!ReadSome
  /\ \/ Link!Write({}, "?BWT") /\ spc' = "BwHelp" /\ UNCHANGED <<req, sock>>
     \/ BwTail
  /\ UNCHANGED <<now, connected, phase, rate, throttle, workVars, calls>>

BwHelp ==
  /\ spc = "BwHelp"
  /\ Link!ReadSome
  /\ BwTail
  /\ UNCHANGED <<now, connected, phase, rate, throttle, workVars, calls>>

\* set_power (in range): TXP <pwr>, then the query TXP?, whose value is
\* only printed.
SetPower ==
  /\ SetterGuard
  /\ calls' = calls + 1
  /\ Link!Write({"TXP"}, "TXP?")
  /\ spc' = "PwRead"
  /\ UNCHANGED <<now, connected, phase, rate, throttle, workVars, req, sock,
                 rx>>

PwRead ==
  /\ spc = "PwRead"
  /\ Link!ReadSome
  /\ spc' = "Idle"
  /\ UNCHANGED <<now, connected, phase, rate, throttle, workVars, req, calls,
                 sock, wire, radio>>

-----------------------------------------------------------------------------

\* The destructor, once no call of the block is in progress: disconnect
\* both sockets (ENABLE_TX_STREAM 0 is sent first).  No call follows.
Destroy ==
  /\ Callable
  /\ wpc = "Idle" /\ spc = "Idle"
  /\ phase' = "Destroyed"
  /\ connected' = Disconnected
  /\ Link!Disconnect
  /\ UNCHANGED <<now, rate, throttle, workVars, spc, req, calls>>

\* A segment of a reply reaches the sink's socket.
Deliver ==
  /\ Link!Deliver
  /\ UNCHANGED <<now, connected, phase, rate, throttle, workVars, spc, req,
                 calls>>

\* One microsecond passes.
Tick ==
  /\ now < MaxTime
  /\ now' = now + 1
  /\ UNCHANGED <<connected, phase, rate, throttle, workVars, spc, req, calls,
                 link>>

Next ==
  \/ CtorRead \/ Start \/ WorkDone \/ WorkCall \/ WorkWake \/ WorkAdd
  \/ SetSampleRate \/ SrRead1 \/ SrRead2
  \/ SetStart \/ SetTotal \/ SetPerTick \/ SetPerUs \/ SrHelp
  \/ SetBandwidth \/ BwRead \/ BwHelp \/ SetPower \/ PwRead
  \/ Destroy \/ Deliver \/ Tick

Spec == Init /\ [][Next]_vars

-----------------------------------------------------------------------------

\* The throttle in work() keeps the sink from running ahead of the radio:
\* whenever no set_sample_rate is half-way, the samples counted since
\* m_start exceed what the radio has used at the reported rate by at most
\* one batch plus the fraction of a microsecond the sleep truncates.
PacedToRate ==
  spc = "Idle" /\ rate > 0 =>
    total <= rate * (now - start) + rate - 1 + MaxBatch

\* work() never sleeps past the moment the radio has used every sample
\* sent since m_start: a sleep that would leave the radio without
\* samples (an underrun) is never started.
NoUnderrunSleep ==
  [][wpc = "Idle" /\ wpc' = "Sleep" /\ wake' > now =>
       rate * (wake' - start) <= total]_vars

\* The rate the throttle paces to is the rate the radio runs at: once a
\* setter has finished, an m_sample_rate that set_sample_rate accepts (1
\* to MAX_SR_MHZ) is the radio's sample rate, across set_bandwidth (whose
\* BWT may change the radio's rate) and set_power.  It relies on
\* send_message pairing every query with its own reply line.  (A rate
\* above MAX_SR_MHZ, left when the radio reports one twice, is not
\* re-sent by set_bandwidth: set_sample_rate rejects it.)
RateIsRadioRate ==
  spc = "Idle" /\ rate \in 1 .. MaxSr => rate = radio

=============================================================================
