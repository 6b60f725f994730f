----------------------------- MODULE MCBleModule -----------------------------
(* Instances of BleModule for TLC. *)
EXTENDS BleModule

\* One instruction of each kind of handling.
Plain == <<<<"write_at_init">>, <<"write_at_exit">>, <<"read_periodic">>>>

\* "sequential": calibration on, read calibration, sensor on (modules/Readme.md)
Calibration == <<<<"write_at_init", "read_once", "write_at_init">>, <<"read_periodic">>>>
=============================================================================
