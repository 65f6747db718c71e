---------------------------- MODULE MCDeviceLogin ----------------------------
(* Up to two grants, two polls and two tabs, as model values.               *)
EXTENDS DeviceLogin

CONSTANTS g1, g2, p1, p2, t1, t2
=============================================================================
