------------------------------- MODULE MCRtc -------------------------------
(* Inputs for Rtc: every frequency rtc_write accepts, and rejected ones   *)
(* below and above MAX_FREQ.                                              *)
EXTENDS Rtc

MCBufs == {0, 3, 2048} \cup {2^k : k \in 1 .. 10}

(* Divider 010 (the 32.768 kHz time base the PC BIOS selects) and any     *)
(* rate; the usual BIOS value is 0x26 (1024 Hz).                          *)
MCRegABoot == {32 + r : r \in 0 .. 15}
(* 24-hour mode, no interrupt enabled.                                    *)
MCRegBBoot == 2
=============================================================================
