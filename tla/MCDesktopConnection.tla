------------------------ MODULE MCDesktopConnection ------------------------
(* Two devices, one on the cable and one in the air. *)
EXTENDS DesktopConnection

CONSTANTS usb, wifi
=============================================================================
