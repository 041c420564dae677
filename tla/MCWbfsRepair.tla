---------------------------- MODULE MCWbfsRepair ----------------------------
(* Bounds for WbfsRepair: two discs of two block references each on two     *)
(* data blocks, so that blocks are shared between discs and within one.     *)
EXTENDS WbfsRepair

MCModes == {{"FBT"}, RmAll, Flags}
=============================================================================
