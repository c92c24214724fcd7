-------------------------------- MODULE MCRtc --------------------------------
(* Rtc on small instances: the frequencies are scaled down, with their ratio. *)
EXTENDS Rtc
=============================================================================
