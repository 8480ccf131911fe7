--------------------------- MODULE SourceControl ---------------------------
(***************************************************************************)
(* The control side of the GNU Radio source block (src/lib/pico_src_impl.cc*)
(* ): the constructor, start() and stop(), which the scheduler's thread    *)
(* calls, and the setters, which GNU Radio's callbacks call from another   *)
(* thread: set_sample_rate, set_attenuation, set_frequency and             *)
(* set_channel.  The block talks to the radio over its mnemonic client     *)
(* (module MnemonicLink) and hands the stream it selected to its           *)
(* complex_manager with update_tuners.                                     *)
(*                                                                         *)
(* set_channel selects the radio's channel (RCH), asks which VITA-49       *)
(* stream id the radio sends it on (VID?), parses the hex id out of the    *)
(* reply and keeps id + 1 in m_active_channels[0]: complex_manager marks   *)
(* stream i valid when i + 1 is a tuner.  A setter that reads a reply is   *)
(* two steps, the write and the read, so start() and stop() can come       *)
(* between them.  update_tuners is its effect once the demultiplexer has   *)
(* applied it (module ComplexManager models the hand-over): the manager's  *)
(* tuner list is the one given; on a stopped manager it never returns.     *)
(* Sample rates are whole units of MIN_SR_MHZ; the command arguments       *)
(* (attenuation, frequency) are abstracted to whether they are in range.   *)
(***************************************************************************)
EXTENDS Integers, Sequences

CONSTANTS
  RadioRates,       \* rates the radio may run at after an SPR
  Values,           \* values the radio may put in replies to other queries
  Splits,           \* a reply may reach the block in two TCP segments
  Channels,         \* the radio's receive channels
  StreamOf,         \* the stream id of each channel, as VID? reports it
  NumOutputStreams, \* NUM_OUTPUT_STREAMS
  MaxSr,            \* MAX_SR_MHZ, in the same unit as the rates
  MaxCalls          \* bound: setter calls per behaviour

\* The replies' values are below 10: their decimal text is their hex text,
\* so the VID? parse (std::hex) reads what the radio meant.
ASSUME \A v \in RadioRates \cup Values \cup {StreamOf[c] : c \in Channels} :
         v \in 0 .. 9

VARIABLES
  connected,  \* m_connected
  phase,      \* "Built", "Running" (start() ran), "Stopped" (stop() ran)
  cm,         \* m_complex_manager: "None", "Running", "Stopped"
  tuners,     \* the tuner list m_complex_manager was last given
  active,     \* m_active_channels[0]
  spc,        \* the setter in progress: "Idle", "SrRead", "ChRead", "Hung"
  calls,      \* setter calls made
  sock, wire, rx, radio, rch   \* m_mne_client and the radio (MnemonicLink)

Link == INSTANCE MnemonicLink

link == <<sock, wire, rx, radio, rch>>
vars == <<connected, phase, cm, tuners, active, spc, calls, link>>

\* The values operator>> can leave in an int: a hex digit the stray byte
\* happens to hold, 0 for a failed parse (C++11), or the indeterminate
\* value of the uninitialized resp (C++98); 0 .. 15 stands for all.
HexDigit == 0 .. 15

\* The tuner value of the stream the radio sends its selected channel on
\* (complex_manager marks stream i valid when i + 1 is a tuner).
Selected == StreamOf[rch] + 1

-----------------------------------------------------------------------------

\* to_hex << std::hex << response.substr(find_first_of(" ") + 1, 10);
\* to_hex >> resp: skip white space (a line end), then read hex digits.
\* A number the stray byte follows may take it as one more digit; no
\* digits at all leave resp as HexDigit says.
HexValues(s) ==
  LET a == Link!AfterSpace(s)
      t == IF a # <<>> /\ a[1] = Link!Eol THEN Tail(a) ELSE a
  IN IF t = <<>> \/ t[1].k # "NUM" THEN HexDigit
     ELSE IF Len(t) > 1 /\ t[2] = Link!Stray
          THEN {t[1].v} \cup {16 * t[1].v + d : d \in HexDigit}
     ELSE {t[1].v}

\* try_connect: a new client whose connect succeeds or fails.
TryConnect ==
  /\ connected \in BOOLEAN
  /\ sock = connected /\ wire = <<>> /\ rx = <<>>

\* The constructor: m_active_channels[0] = -1, try_connect, and, when
\* connected, setup_pico's SIP and END commands (the radio answers neither
\* and they leave its rate and channel alone).
Init ==
  /\ TryConnect
  /\ radio \in RadioRates /\ rch \in Channels
  /\ phase = "Built" /\ cm = "None" /\ tuners = -1
  /\ active = -1 /\ spc = "Idle" /\ calls = 0

\* update_tuners(m_active_channels, 1) on m_complex_manager, if there is
\* one: a stopped manager's demultiplexer never acknowledges it.
UpdateTuners(a) ==
  CASE cm = "Running" -> tuners' = a /\ spc' = "Idle"
  []   cm = "Stopped" -> spc' = "Hung" /\ UNCHANGED tuners
  []   OTHER          -> spc' = "Idle" /\ UNCHANGED tuners

\* (Mutant) start() creating the manager without update_tuners.
StartNoUpdate ==
  /\ phase # "Running"
  /\ phase' = "Running"
  /\ IF connected
     THEN cm' = "Running" /\ Link!Write({"OPM"}, "") /\ UNCHANGED tuners
     ELSE UNCHANGED <<cm, tuners, wire, radio, rch>>
  /\ UNCHANGED <<connected, active, spc, calls, sock, rx>>

\* start(): when connected, a new complex_manager given m_active_channels,
\* then OPM1 to start the radio's stream.
Start ==
  /\ phase # "Running"
  /\ phase' = "Running"
  /\ IF connected
     THEN cm' = "Running" /\ tuners' = active /\ Link!Write({"OPM"}, "")
     ELSE UNCHANGED <<cm, tuners, wire, radio, rch>>
  /\ UNCHANGED <<connected, active, spc, calls, sock, rx>>

\* stop(): OPM0 (send_message sends nothing when not connected), then
\* m_complex_manager->stop() if there is a manager.
Stop ==
  /\ phase = "Running"
  /\ phase' = "Stopped"
  /\ IF connected THEN Link!Write({"OPM"}, "")
                  ELSE UNCHANGED <<wire, radio, rch>>
  /\ cm' = IF cm = "None" THEN "None" ELSE "Stopped"
  /\ UNCHANGED <<connected, tuners, active, spc, calls, sock, rx>>

\* A setter call starts.
Call ==
  /\ spc = "Idle" /\ calls < MaxCalls
  /\ calls' = calls + 1

\* (Mutant) SrQuery sending SAMPLE_RATE_QRY with send_message's default
\* timeout -1, as SEND_STR does: the query goes out and nothing reads it.
SrQueryUnread ==
  /\ Link!Write({"OPM", "SPR", "OPM"}, "SPR?")
  /\ spc' = "Idle"

\* set_sample_rate's path for a rate above MAX_SR_MHZ or below
\* MIN_SR_MHZ: OPM0, SPR at the limit, then SPR? with timeout 1.
SrQuery ==
  /\ Link!Write({"OPM", "SPR"}, "SPR?")
  /\ spc' = "SrRead"

\* set_sample_rate(sr): in range, OPM0, SPR sr, OPM1; out of range,
\* SrQuery; not connected, a message only.
SetSampleRate ==
  /\ Call
  /\ \E sr \in 0 .. MaxSr + 1 :
       IF ~connected
       THEN UNCHANGED <<spc, wire, rx, radio, rch>>
       ELSE IF sr \in 1 .. MaxSr
       THEN Link!Write({"OPM", "SPR", "OPM"}, "") /\ UNCHANGED <<spc, rx>>
       ELSE SrQuery /\ UNCHANGED rx
  /\ UNCHANGED <<connected, phase, cm, tuners, active, sock>>

\* ... the reply is read (and only printed), then OPM1.
SrRead ==
  /\ spc = "SrRead"
  /\ Link!ReadSome
  /\ Link!Write({"OPM"}, "")
  /\ spc' = "Idle"
  /\ UNCHANGED <<connected, phase, cm, tuners, active, calls, sock>>

\* set_attenuation and set_frequency: when connected and the value is in
\* range (MIN_ATTEN .. MAX_ATTEN after the int cast, MIN_FREQ_MHZ ..
\* MAX_FREQ_MHZ exclusive), ATT or FRQ; the radio answers neither.
SetAttenuation ==
  /\ Call
  /\ \E inRange \in BOOLEAN :
       IF connected /\ inRange THEN Link!Write({"ATT"}, "")
                               ELSE UNCHANGED <<wire, radio, rch>>
  /\ UNCHANGED <<connected, phase, cm, tuners, active, spc, sock, rx>>

SetFrequency ==
  /\ Call
  /\ \E inRange \in BOOLEAN :
       IF connected /\ inRange THEN Link!Write({"FRQ"}, "")
                               ELSE UNCHANGED <<wire, radio, rch>>
  /\ UNCHANGED <<connected, phase, cm, tuners, active, spc, sock, rx>>

\* set_channel(channel): for 0 < channel <= NUM_OUTPUT_STREAMS when
\* connected, RCH channel and VID? with timeout 1; otherwise
\* m_active_channels[0] = -1 and update_tuners.
SetChannel ==
  /\ Call
  /\ \E ch \in 0 .. NumOutputStreams + 1 :
       IF connected /\ ch \in 1 .. NumOutputStreams
       THEN /\ Link!Send({"RCH"}, ch, "VID?")
            /\ spc' = "ChRead"
            /\ UNCHANGED <<active, tuners, rx>>
       ELSE /\ active' = -1
            /\ UNCHANGED <<wire, rx, radio, rch>>
            /\ UpdateTuners(-1)
  /\ UNCHANGED <<connected, phase, cm, sock>>

\* ... the reply is read and parsed: m_active_channels[0] = resp + 1, and
\* update_tuners.
ChRead ==
  /\ spc = "ChRead"
  /\ Link!ReadSome
  /\ \E s \in Link!Received : \E resp \in HexValues(s) :
       /\ active' = resp + 1
       /\ UpdateTuners(resp + 1)
  /\ UNCHANGED <<connected, phase, cm, calls, sock, wire, radio, rch>>

Deliver ==
  /\ Link!Deliver
  /\ UNCHANGED <<connected, phase, cm, tuners, active, spc, calls>>

Next ==
  \/ Start \/ Stop
  \/ SetSampleRate \/ SrRead \/ SetAttenuation \/ SetFrequency
  \/ SetChannel \/ ChRead
  \/ Deliver

Spec == Init /\ [][Next]_vars

-----------------------------------------------------------------------------

\* The stream the block asks for is the stream the radio sends its
\* selected channel on: once no setter is half-way, a positive
\* m_active_channels[0], and the tuner the complex_manager was given,
\* are the id VID? reports for the radio's channel, plus one.  It relies
\* on set_channel's single read_some returning the VID? reply and nothing
\* else, i.e. on every other query's reply having been read.
ActiveIsSelectedStream ==
  spc = "Idle" =>
    /\ active > 0 => active = Selected
    /\ cm # "None" /\ tuners > 0 => tuners = Selected


\* The running complex_manager demultiplexes the stream the block asks for:
\* once no setter is half-way, its tuner list is m_active_channels, also
\* when start() replaced the manager while a set_channel was waiting for
\* its reply, and when set_channel chose no stream (-1).
ManagerFollowsActive ==
  spc = "Idle" /\ cm = "Running" => tuners = active

=============================================================================
