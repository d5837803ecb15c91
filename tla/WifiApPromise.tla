---------------------------- MODULE WifiApPromise ----------------------------
(***************************************************************************)
(* The access point as the client that operates it sees it: the mapping of  *)
(* WifiAp to the abstract specification AccessPoint.                        *)
(***************************************************************************)
EXTENDS WifiAp

Client == CHOOSE c \in Operator : TRUE

Told == [initializing |-> "off", stopped |-> "off", started |-> "on", failure |-> "failed"]

Service ==
  IF hostapd # None /\ dnsmasq # None THEN "up"
  ELSE IF hostapd = None /\ dnsmasq = None THEN "down" ELSE "half"

Promise == INSTANCE AccessPoint WITH
  state <- Told[status], service <- Service, request <- verb[Client]

\* With one client that operates it, whenever the process dies and whoever sets parameters,
\* the binding is an access point as AccessPoint describes it: daemons come and go only
\* while a request is served, a start of a started access point touches nothing, a stop
\* launches nothing, a request that ends leaves the state the daemons are in or a failure,
\* and a new process finds the daemons as the former left them.  Any command may fail but
\* the kill of hostapd ("kill_hostapd"), and no shell is killed by a signal.
PromiseKept == Promise!Spec
=============================================================================
