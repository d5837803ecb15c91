--------------------------- MODULE WifiApPlatform ---------------------------
(***************************************************************************)
(* What the binding does to the system: the files it writes to /tmp        *)
(* (src/src/lib/wifi-ap-config.c), the daemons hostapd and dnsmasq, and    *)
(* the commands of src/scripts/wifi_setup.sh it runs with system().        *)
(*                                                                         *)
(* An operator of this module is the effect of one command or of one file  *)
(* operation together with its result: "ok" (exit status 0), "error"       *)
(* (another exit status, or system() = -1), "signal" (the shell was        *)
(* killed).  WEXITSTATUS of a killed shell is 0, only WIFEXITED tells it   *)
(* from a success.  Everything here survives the end of the process.       *)
(***************************************************************************)
EXTENDS WifiApProcess

CONSTANTS
  Cfg,       \* values of the parameters (wifiApT) that clients may set
  Partial    \* the content of a dnsmasq.wlan.conf the script created itself

VARIABLES
  hosts,         \* /tmp/add_hosts exists
  dnsmasqConf,   \* the parameters in /tmp/dnsmasq.wlan.conf, None if absent
  hostapdConf,   \* the parameters in /tmp/hostapd.conf, None if absent
  hostapd,       \* the parameters hostapd runs with, None if it does not run
  dnsmasq        \* the same for dnsmasq

sysVars == <<hosts, dnsmasqConf, hostapdConf, hostapd, dnsmasq>>

ASSUME PlatformAssumption == None \notin Cfg /\ Partial \notin Cfg \cup {None}

PlatformTypeOK ==
  /\ hosts \in BOOLEAN
  /\ dnsmasqConf \in Cfg \cup {None, Partial}
  /\ hostapdConf \in Cfg \cup {None}
  /\ hostapd \in Cfg \cup {None}
  /\ dnsmasq \in Cfg \cup {None, Partial}

PlatformInit ==
  /\ hosts = FALSE
  /\ dnsmasqConf = None
  /\ hostapdConf = None
  /\ hostapd = None
  /\ dnsmasq = None

WEXITSTATUS_is_0(result) == result \in {"ok", "signal"}

\* checkFileExists of dnsmasq.wlan.conf or add_hosts.
MarkersExist == hosts \/ dnsmasqConf # None

-----------------------------------------------------------------------------
(* wifi_setup.sh *)

\* The results of a command that fails when call does.
Outcome(result, call) ==
  \/ result = "ok"
  \/ result = "error" /\ Fails(call)
  \/ result = "signal" /\ Fails("signal")

\* A shell that was killed did the work or left it undone.
Done(result) == result \in {"ok", "signal"}
Undone(result) == result \in {"error", "signal"}

\* hostapd may outlive killall and "kill -9": the script does not notice, since the
\* "|| exit" of that kill is in parentheses and only ends a subshell.
KillHostapd == hostapd' = None \/ (Fails("kill_hostapd") /\ UNCHANGED hostapd)

\* WIFIAP_HOSTAPD_STOP up to its sleep 1: the marker files go, then hostapd.  No
\* command of it exits; system() = -1 is a signal that came before the first one.
HOSTAPD_STOP_begin(result) ==
  /\ result # "error" /\ Outcome(result, "clean")
  /\ \/ Done(result) /\ dnsmasqConf' = None /\ hosts' = FALSE /\ KillHostapd
     \/ Undone(result) /\ dnsmasqConf' = None /\ hosts' \in {hosts, FALSE} /\ UNCHANGED hostapd
     \/ Undone(result) /\ UNCHANGED <<dnsmasqConf, hosts, hostapd>>
  /\ UNCHANGED <<hostapdConf, dnsmasq>>

\* Mutant: dnsmasq is not killed.
HOSTAPD_STOP_end_hostapd_only(result) ==
  /\ result = "ok"
  /\ hostapdConf' = None /\ hostapd' = None
  /\ UNCHANGED <<hosts, dnsmasqConf, dnsmasq>>

\* WIFIAP_HOSTAPD_STOP after its sleep 1: hostapd.conf goes, then what is left of
\* hostapd; the "kill -9 || exit" of dnsmasq is last, and its failure is an error.
HOSTAPD_STOP_end(result) ==
  /\ Outcome(result, "clean")
  /\ result = "error" => dnsmasq # None
  /\ \/ Done(result) /\ hostapdConf' = None /\ KillHostapd /\ dnsmasq' = None
     \/ Undone(result) /\ hostapdConf' = None /\ KillHostapd /\ UNCHANGED dnsmasq
     \/ /\ result = "signal" /\ hostapdConf' \in {hostapdConf, None}
        /\ UNCHANGED <<hostapd, dnsmasq>>
  /\ UNCHANGED <<hosts, dnsmasqConf>>

WLAN_UP(result) == Outcome(result, "wlan_up") /\ UNCHANGED sysVars

\* "echo interface= >>" creates the file if it is gone, unless an ip command failed
\* before.  A dnsmasq that still runs holds the DHCP port and the new one exits.
DNSMASQ_RESTART(result) ==
  LET conf == IF dnsmasqConf = None THEN Partial ELSE dnsmasqConf IN
  /\ \/ Done(result) /\ dnsmasq = None /\ dnsmasq' = conf /\ dnsmasqConf' = conf
     \/ /\ result = "error" /\ UNCHANGED dnsmasq
        /\ dnsmasqConf' = conf \/ (Fails("dnsmasq") /\ UNCHANGED dnsmasqConf)
     \/ result = "signal" /\ UNCHANGED <<dnsmasqConf, dnsmasq>>
  /\ Outcome(result, "dnsmasq") \/ (result = "error" /\ dnsmasq # None)
  /\ UNCHANGED <<hosts, hostapdConf, hostapd>>

\* WIFI_START: 50 without the card, 127 without the driver.
HW_START(result) == Outcome(result, "hw_start") /\ UNCHANGED sysVars

\* WIFI_STOP exits 0 whatever happened; only system() itself can fail.
HW_STOP(result) == Outcome(result, "hw_stop") /\ UNCHANGED sysVars

HOSTAPD_START(result) ==
  LET CanRun == hostapd = None /\ hostapdConf # None IN
  /\ \/ Done(result) /\ CanRun /\ hostapd' = hostapdConf
     \/ Undone(result) /\ UNCHANGED hostapd
  /\ Outcome(result, "hostapd") \/ (result = "error" /\ ~CanRun)
  /\ UNCHANGED <<hosts, dnsmasqConf, hostapdConf, dnsmasq>>

-----------------------------------------------------------------------------
(* wifi-ap-config.c *)

\* When fopen fails, fclose(NULL) ends the process before the error is returned.
createHostsConfigFile ==
  \/ /\ hosts' = TRUE
     /\ UNCHANGED <<dnsmasqConf, hostapdConf, hostapd, dnsmasq, alive>>
  \/ /\ Fails("fopen")
     /\ Die
     /\ UNCHANGED sysVars

createDnsmasqConfigFile(params) ==
  \/ /\ dnsmasqConf' = params
     /\ UNCHANGED <<hosts, hostapdConf, hostapd, dnsmasq, alive>>
  \/ /\ Fails("fopen")
     /\ Die
     /\ UNCHANGED sysVars

\* On an error the file is removed, unless it could not be opened at all.
GenerateHostApConfFile(params, result) ==
  /\ \/ result = "ok" /\ hostapdConf' = params
     \/ result = "error" /\ Fails("conf") /\ hostapdConf' \in {hostapdConf, None}
  /\ UNCHANGED <<hosts, dnsmasqConf, hostapd, dnsmasq>>

\* remove(WIFI_HOSTAPD_FILE)
RemoveHostapdConf ==
  /\ hostapdConf' = None
  /\ UNCHANGED <<hosts, dnsmasqConf, hostapd, dnsmasq>>
=============================================================================
