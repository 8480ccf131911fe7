------------------------- MODULE MC_ComplexManager --------------------------
(***************************************************************************)
(* Model-checking instance of ComplexManager: the code's single channel    *)
(* (NUM_STREAMS = 1), one or two tasks, and counters, buffers and sample   *)
(* budgets shrunk so that every wrap, full buffer, deferral and flip       *)
(* happens within a few packets.  Conversions overlap only where a buffer  *)
(* holds two packets (MC_Shutdown.cfg, MC_StopSkipsDrain.cfg).            *)
(***************************************************************************)
EXTENDS ComplexManager

\* Stream ids on the wire: channel 0 and NUM_STREAMS (one past the array,
\* which the bound check "stream_id > NUM_STREAMS" lets through).
MCStreamIds == {0, NumStreams}

\* m_active_channels[0] values: the channel whose stream id the radio
\* reports as 0 (resp+1 = 1), and the -1 that set_channel stores for an
\* invalid channel and that start() passes when set_channel never ran.
MCTunerValues == {1, -1}
=============================================================================
