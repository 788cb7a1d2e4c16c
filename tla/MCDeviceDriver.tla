--------------------------- MODULE MCDeviceDriver ---------------------------
(***************************************************************************)
(* The driver and its children for TLC.                                    *)
(***************************************************************************)
EXTENDS DeviceDriverProps
=============================================================================
