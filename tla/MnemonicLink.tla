---------------------------- MODULE MnemonicLink ----------------------------
(***************************************************************************)
(* boost_client (src/lib/boost_client.cpp) on the mnemonic TCP connection  *)
(* to the radio, and the radio at the far end as far as the client sees    *)
(* it.  The blocks (pico_sink_impl, pico_src_impl) own one such client and *)
(* conjoin the actions of this module to their own.                        *)
(*                                                                         *)
(* A reply line "<MNE> <value>\r\n" is four tokens: the mnemonic, the      *)
(* space, the value and the line end.  TCP keeps the bytes in order but    *)
(* not the line boundaries: with Splits, a reply reaches the client in one *)
(* segment or in two, split between any two of its tokens.  The radio      *)
(* executes a request as it is written (its effect and its reply are fixed *)
(* then); the reply's segments travel on the wire and arrive in the        *)
(* socket's receive buffer one at a time.  The radio answers queries; it   *)
(* does not answer commands.  Of the radio's state the model keeps the     *)
(* sample rate and the selected receive channel with the VITA-49 stream id *)
(* it streams on (VID?).                                                   *)
(***************************************************************************)
EXTENDS Integers, Sequences

CONSTANTS
  RadioRates,  \* sample rates the radio may run at after an SPR or BWT
  Values,      \* values the radio may put in a reply to another query
  Splits,      \* a reply may reach the client in two TCP segments
  Channels,    \* the radio's receive channels (RCH)
  StreamOf     \* the stream id of each channel's data, as VID? reports it

VARIABLES
  sock,   \* m_socket.is_open()
  wire,   \* reply segments the radio sent that have not arrived yet
  rx,     \* bytes in the socket's receive buffer, not read yet
  radio,  \* the sample rate the radio runs at
  rch     \* the radio's selected channel

Mne   == [k |-> "MNE"]
Sp    == [k |-> "SP"]
Eol   == [k |-> "EOL"]
Stray == [k |-> "STRAY"]     \* a byte of recv_buff the code never wrote
Num(v) == [k |-> "NUM", v |-> v]

StreamIds == {StreamOf[c] : c \in Channels}

Tokens == {Mne, Sp, Eol, Stray} \cup
          {Num(v) : v \in RadioRates \cup Values \cup StreamIds}

ReplyLine(v) == <<Mne, Sp, Num(v), Eol>>

\* How a line can reach the client: whole, or split in two segments.
Segmentations(line) ==
  {<<line>>} \cup
  (IF Splits
   THEN {<<SubSeq(line, 1, k), SubSeq(line, k + 1, Len(line))>> :
           k \in 1 .. Len(line) - 1}
   ELSE {})

\* The segments that answer the query q while the radio runs at rate r on
\* channel c: SPR? reports the rate, VID? the channel's stream id, any
\* other query some value.
Answers(q, r, c) ==
  UNION {Segmentations(ReplyLine(v)) :
           v \in CASE q = "SPR?" -> {r}
                  []   q = "VID?" -> {StreamOf[c]}
                  []   OTHER      -> Values}

\* SAMPLE_RATE_CMD and BANDWIDTH_CMD may change the rate the radio runs at.
RateCommands == {"SPR", "BWT"}

\* What the blocks parse of a reply, response.substr(response.find_first_of(
\* " ") + 1, n): the token sequence s from its first space on, or from its
\* start when it has none (find_first_of gives npos and npos + 1 = 0).
AfterSpace(s) ==
  LET sp == {i \in DOMAIN s : s[i] = Sp}
      first == CHOOSE i \in sp : \A j \in sp : i <= j
  IN IF sp = {} THEN s ELSE SubSeq(s, first + 1, Len(s))

-----------------------------------------------------------------------------
(* The client's operations, as action fragments; the caller says what     *)
(* happens to the variables a fragment leaves out.                         *)

\* send_message's boost::asio::write, once for each command in cmds and
\* then for the query q ("" for none: SEND_STR, timeout -1, reads nothing),
\* where c is the channel the commands leave selected (an RCH c among
\* them, or rch).  The radio executes them in order and answers the query.
Send(cmds, c, q) ==
  /\ sock
  /\ rch' = c
  /\ IF cmds \cap RateCommands # {} THEN radio' \in RadioRates
                                    ELSE radio' = radio
  /\ IF q = "" THEN wire' = wire
     ELSE \E a \in Answers(q, radio', c) : wire' = wire \o a

\* A request that does not select a channel.
Write(cmds, q) == Send(cmds, rch, q)

\* m_socket.read_some: blocks until bytes have arrived and returns all of
\* them (a reply is far shorter than MAX_RECV_SIZE).
ReadSome ==
  /\ rx # <<>>
  /\ rx' = <<>>

\* The string send_message builds from what read_some returned: it writes
\* the terminator at recv_buff[amnt_read + 1], so the unwritten byte at
\* recv_buff[amnt_read] ends the string only if it happens to be zero.
Received == {rx, rx \o <<Stray>>}

\* One segment arrives in the receive buffer.
Deliver ==
  /\ wire # <<>>
  /\ rx' = rx \o Head(wire)
  /\ wire' = Tail(wire)
  /\ UNCHANGED <<sock, radio, rch>>

\* disconnect (and ~boost_client): the socket is closed; what was in
\* flight or unread is gone.
Disconnect ==
  /\ sock' = FALSE
  /\ wire' = <<>>
  /\ rx' = <<>>
  /\ UNCHANGED <<radio, rch>>

=============================================================================
