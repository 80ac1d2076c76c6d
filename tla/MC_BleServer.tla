------------------------------ MODULE MC_BleServer ------------------------------
(* Small instances of the BLE peripheral for TLC.                          *)
EXTENDS BleServer
===============================================================================
