---------------------------- MODULE MCBootSlots ----------------------------
(* Small instance of BootSlots for TLC.                                    *)
EXTENDS BootSlots

TwoSlots == {"A", "B"}
AThenB == <<"A", "B">>
=============================================================================
