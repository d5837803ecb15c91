---------------------------- MODULE MCWifiApData ----------------------------
(* WifiApData for TLC.  One client changes parameters while two start.       *)
EXTENDS WifiApData
=============================================================================
