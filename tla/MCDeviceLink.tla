---------------------------- MODULE MCDeviceLink ----------------------------
(* The instance of DeviceLink that TLC checks. *)
EXTENDS DeviceLink

CONSTANTS c1, c2, h1, h2, h3

=============================================================================
