------------------------- MODULE MC_SourceControl -------------------------
(* The source block's control side with the radio's two receive channels *)
(* (SIGINT_CHANNEL 1 and one more) streaming on ids 0 and 1.             *)
EXTENDS SourceControl

MCChannels == {1, 2}
MCStreamOf == [c \in MCChannels |-> c - 1]
=============================================================================
