------------------------------- MODULE MCUsb -------------------------------
(* Instance of UsbDriver for TLC. Three identities are enough: at any time at *)
(* most one is on the bus, one in a handler or a task's local, and one left   *)
(* behind in the SPI task or leaked.                                          *)
EXTENDS UsbDriver

MCIds == 1..3
=============================================================================
