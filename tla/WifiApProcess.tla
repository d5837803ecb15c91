--------------------------- MODULE WifiApProcess ---------------------------
(***************************************************************************)
(* The binder process that loads the binding: its worker threads, the      *)
(* system calls that may fail under it, and whether it runs.               *)
(***************************************************************************)
CONSTANTS
  Caller,     \* binder threads that execute verbs (noconcurrency = 0)
  None,       \* NULL, pthread_t 0, no file, no daemon
  Fallible    \* what may fail: see the uses of Fails

VARIABLE
  alive       \* the process runs

FallibleCalls ==
  {"clean", "kill_hostapd", "wlan_up", "fopen", "dnsmasq", "conf", "hw_start",
   "hostapd", "hw_stop", "pthread_create", "signal", "popen", "iw_event"}

ASSUME ProcessAssumption == Fallible \subseteq FallibleCalls /\ None \notin Caller

Fails(call) == call \in Fallible

\* abort(), a NULL dereference, exit(): nothing else of the process moves.
Die == alive' = FALSE
=============================================================================
