------------------------------ MODULE MCLiveView ------------------------------
(* Small instances of LiveView for TLC. *)
EXTENDS LiveView

CONSTANTS b1, b2, o1, o2

TwoBrowsers == {b1, b2}
OneObject   == {o1}
TwoObjects  == {o1, o2}
===============================================================================
