----------------------------- MODULE MCVetoLane -----------------------------
(* The veto lane for TLC: one window of two ticks, extended by three, with  *)
(* a floor and deliveries of two, and two devices.                          *)
EXTENDS VetoLane, TLC

CONSTANTS w1, d1, d2

MCWindows == {w1}
MCDevices == {d1, d2}
=============================================================================
