--------------------------- MODULE WifiApAddress ---------------------------
(***************************************************************************)
(* The addresses of the access point: setIpRange, and what startAp tests    *)
(* and uses of them (setDnsmasqService, the files and the interface).       *)
(*                                                                          *)
(* No lock protects the four strings of wifiApT: setIpRange copies them one *)
(* after the other while a start reads each of them several times.  A text  *)
(* is what the code tells apart of it: its length, whether it is UTF-8, and *)
(* the four bytes of the address if it is one.                              *)
(*                                                                          *)
(* One client calls setIpRange and one starts the access point; two starts  *)
(* at once are in WifiAp.                                                   *)
(***************************************************************************)
EXTENDS Integers, Sequences, WifiApProcess

FieldOrder == <<"ip_ap", "ip_start", "ip_stop", "ip_netmask">>
Field == {"ip_ap", "ip_start", "ip_stop", "ip_netmask"}

CONSTANTS
  Request,    \* the arguments of setIpRange, and the addresses of the configuration
  Torn,       \* what a read may find of a text that is being replaced
  Leftover,   \* what toCidr may give for a text that is no address
  MaxCall     \* bound: calls of setIpRange that are accepted

IsText(t) ==
  /\ DOMAIN t = {"length", "utf8", "quad"}
  /\ t.length \in Nat /\ t.utf8 \in BOOLEAN
  /\ t.quad \in Seq(0..255) /\ Len(t.quad) \in {0, 4}

ASSUME AddressAssumption ==
  /\ MaxCall \in Nat /\ Leftover \subseteq 0..32 /\ Leftover # {}
  /\ Torn # {} /\ \A t \in Torn : IsText(t)
  /\ \A r \in Request :
       r = [f \in Field |-> r[f]] /\ \A f \in Field : IsText(r[f])

VARIABLES
  ip,             \* the fields ip_ap, ip_start, ip_stop and ip_netmask of wifiApData
  call,           \* the call of setIpRange that runs
  start,          \* the start that runs, or its result
  hosts,          \* the address in /tmp/add_hosts
  dnsmasqConf,    \* the addresses in /tmp/dnsmasq.wlan.conf
  interface,      \* address and prefix length of the interface
  accepted,       \* history: the request setIpRange accepted last
  calls,          \* how many calls of setIpRange were accepted
  changed         \* history: setIpRange ran since the last start began

sysVars == <<hosts, dnsmasqConf, interface>>
vars == <<ip, call, start, sysVars, accepted, calls, changed, alive>>

-----------------------------------------------------------------------------
(* toCidr *)

\* 0x80, 0xC0, ..., 0xFF: byte n has n leading ones, then zeros.
MaskByte == <<128, 192, 224, 240, 248, 252, 254, 255>>

Listed(byte) == \E n \in 1..8 : byte = MaskByte[n]
Ones(byte) == CHOOSE n \in 1..8 : byte = MaskByte[n]

\* Mutant: 0xFE is not in the table.
toCidrNoFE(quad) ==
  LET Counts(i) == \A j \in 1..i : Listed(quad[j]) /\ quad[j] # 254
      count(i) == IF Counts(i) THEN Ones(quad[i]) ELSE 0
  IN  count(1) + count(2) + count(3) + count(4)

\* The bytes count up to the first that is not in the table.
toCidr(quad) ==
  LET Counts(i) == \A j \in 1..i : Listed(quad[j])
      count(i) == IF Counts(i) THEN Ones(quad[i]) ELSE 0
  IN  count(1) + count(2) + count(3) + count(4)

\* The mask of a network whose prefix has n bits.
Mask(n) ==
  LET bits(i) == IF n >= 8 * i THEN 8 ELSE IF n <= 8 * (i - 1) THEN 0 ELSE n - 8 * (i - 1)
      byte(i) == IF bits(i) = 0 THEN 0 ELSE MaskByte[bits(i)]
  IN  <<byte(1), byte(2), byte(3), byte(4)>>

-----------------------------------------------------------------------------
(* Texts *)

Empty == [length |-> 0, utf8 |-> TRUE, quad |-> <<>>]

Text == {r[f] : r \in Request, f \in Field} \cup Torn \cup {Empty}

\* strlen is between MIN_IP_ADDRESS_LENGTH and MAX_IP_ADDRESS_LENGTH.
LengthOk(text) == text.length \in 1..15

inet_pton(text) == text.quad # <<>>

\* What utf8_Copy leaves of a text that fits: nothing if a byte starts no character.
Stored(text) == IF text.utf8 THEN text ELSE Empty

\* Mutant: netmask_cidr is not set to 0 first.
PrefixLengthUnset(text) ==
  IF inet_pton(text) THEN {toCidr(text.quad) + n : n \in Leftover} ELSE Leftover

\* toCidr of a text that is not an address adds what sscanf left in its array.
PrefixLength(text) == IF inet_pton(text) THEN {toCidr(text.quad)} ELSE Leftover

\* The order of the addresses as 32-bit numbers.
Below(a, b) ==
  \E i \in 1..4 : a[i] < b[i] /\ \A j \in 1..4 : j < i => a[j] = b[j]

Within(a, lo, hi) == ~Below(a, lo) /\ ~Below(hi, a)

-----------------------------------------------------------------------------
(* setIpRange *)

NoCall == [pc |-> "idle", request |-> None]

\* Mutant: the mask is measured after the other fields are stored.
setIpRangeLateTest ==
  /\ alive /\ call.pc = "idle" /\ calls < MaxCall
  /\ \E r \in Request :
       \/ /\ \A f \in Field : LengthOk(r[f])
          /\ call' = [pc |-> "ip_ap", request |-> r]
          /\ accepted' = r
          /\ UNCHANGED ip
       \/ /\ \A f \in Field \ {"ip_netmask"} : LengthOk(r[f])
          /\ ~LengthOk(r["ip_netmask"])
          /\ ip' = [f \in Field |-> IF f = "ip_netmask" THEN ip[f] ELSE Stored(r[f])]
          /\ UNCHANGED <<call, accepted>>
  /\ changed' = TRUE /\ calls' = calls + 1
  /\ UNCHANGED <<start, sysVars, alive>>

\* setIpRangeParameters measures its four arguments before it stores the first.  A call
\* that is refused changes nothing.
setIpRange ==
  /\ alive /\ call.pc = "idle" /\ calls < MaxCall
  /\ \E r \in Request :
       /\ \A f \in Field : LengthOk(r[f])
       /\ call' = [pc |-> "ip_ap", request |-> r]
       /\ accepted' = r
  /\ changed' = TRUE /\ calls' = calls + 1
  /\ UNCHANGED <<ip, start, sysVars, alive>>

\* Each utf8_Copy is under way from the state before it to its end.
CopyField ==
  \E i \in 1..4 :
    /\ alive /\ call.pc = FieldOrder[i]
    /\ ip' = [ip EXCEPT ![FieldOrder[i]] = Stored(call.request[FieldOrder[i]])]
    /\ call' = IF i = 4 THEN NoCall ELSE [call EXCEPT !.pc = FieldOrder[i + 1]]
    /\ UNCHANGED <<start, sysVars, accepted, calls, changed, alive>>

\* A read of a field that is being copied finds the head of one text before the tail of
\* another.
Reads(field) == IF call.pc = field THEN Torn \cup {ip[field]} ELSE {ip[field]}

-----------------------------------------------------------------------------
(* setDnsmasqService *)

\* parsed: the addresses read so far; prefix, address: ip_ap_cidr.
NoStart == [pc |-> "idle", i |-> 1, parsed |-> [f \in Field |-> Empty],
            parameterPtr |-> "none", prefix |-> 0, address |-> Empty, result |-> "none"]

At(pc) == alive /\ start.pc = pc

Jump(pc) == start' = [start EXCEPT !.pc = pc, !.i = 1]

Finish(result) == start' = [NoStart EXCEPT !.result = result]

KeepAddress == UNCHANGED <<ip, call, accepted, calls>>

\* startAp: WIFIAP_HOSTAPD_STOP removes the files of a former start.
StartBegin ==
  /\ At("idle")
  /\ start' = [NoStart EXCEPT !.pc = "given"]
  /\ changed' = (call.pc # "idle")
  /\ hosts' = None /\ dnsmasqConf' = None
  /\ UNCHANGED <<interface, alive>> /\ KeepAddress

\* No field may be the empty string, ...
CheckGiven ==
  /\ At("given")
  /\ \E text \in Reads(FieldOrder[start.i]) :
       \/ text = Empty /\ Finish("refused")
       \/ /\ text # Empty
          /\ \/ start.i < 4 /\ start' = [start EXCEPT !.i = @ + 1]
             \/ start.i = 4 /\ Jump("parse")
  /\ UNCHANGED <<sysVars, changed, alive>> /\ KeepAddress

\* ... each must be an address; the first that is none ends the tests ...
Parse ==
  LET field == FieldOrder[start.i] IN
  /\ At("parse")
  /\ \E text \in Reads(field) :
       \/ /\ ~inet_pton(text)
          /\ start' = [start EXCEPT !.pc = "cidr_mask", !.parameterPtr = field]
       \/ /\ inet_pton(text)
          /\ start' = [start EXCEPT !.parsed[field] = text,
                                    !.i = IF @ < 4 THEN @ + 1 ELSE 1,
                                    !.pc = IF start.i < 4 THEN "parse" ELSE "cidr_mask"]
  /\ UNCHANGED <<sysVars, changed, alive>> /\ KeepAddress

\* ... ip_ap_cidr is written from the fields, read again ...
CidrMask ==
  /\ At("cidr_mask")
  /\ \E text \in Reads("ip_netmask") : \E n \in PrefixLength(text) :
       start' = [start EXCEPT !.pc = "cidr_ap", !.prefix = n]
  /\ UNCHANGED <<sysVars, changed, alive>> /\ KeepAddress

CidrAp ==
  /\ At("cidr_ap")
  /\ \E text \in Reads("ip_ap") : start' = [start EXCEPT !.pc = "test", !.address = text]
  /\ UNCHANGED <<sysVars, changed, alive>> /\ KeepAddress

\* Mutant: start and stop are not swapped.
TestRangeUnordered ==
  LET p == [f \in Field |-> start.parsed[f].quad] IN
  /\ At("test")
  /\ IF start.parameterPtr # "none" \/ Within(p["ip_ap"], p["ip_start"], p["ip_stop"])
     THEN Finish("refused") ELSE Jump("wlan_up")
  /\ UNCHANGED <<sysVars, changed, alive>> /\ KeepAddress

\* ... and the address of the access point must not be in the range, whose ends are
\* put in order for the test only.
TestRange ==
  LET p == [f \in Field |-> start.parsed[f].quad] IN
  /\ At("test")
  /\ IF \/ start.parameterPtr # "none"
        \/ Within(p["ip_ap"], p["ip_start"], p["ip_stop"])
        \/ Within(p["ip_ap"], p["ip_stop"], p["ip_start"])
     THEN Finish("refused") ELSE Jump("wlan_up")
  /\ UNCHANGED <<sysVars, changed, alive>> /\ KeepAddress

\* WIFIAP_WLAN_UP: "ip addr flush", then "ip addr add" without a prefix length.
WlanUp ==
  /\ At("wlan_up")
  /\ \E text \in Reads("ip_ap") :
       \/ /\ inet_pton(text)
          /\ interface' = [address |-> text, prefix |-> 32]
          /\ Jump("hosts")
       \/ /\ ~inet_pton(text) \/ Fails("wlan_up")
          /\ interface' \in {interface, None}
          /\ Finish("failed")
  /\ UNCHANGED <<hosts, dnsmasqConf, changed, alive>> /\ KeepAddress

\* When fopen fails, fclose(NULL) ends the process.
FopenFails == Fails("fopen") /\ Die /\ UNCHANGED <<start, hosts, dnsmasqConf>>

WriteHosts ==
  /\ At("hosts")
  /\ \/ /\ hosts' \in Reads("ip_ap")
        /\ Jump("dnsmasq_conf")
        /\ UNCHANGED <<dnsmasqConf, alive>>
     \/ FopenFails
  /\ UNCHANGED <<interface, changed>> /\ KeepAddress

\* dhcp-range gets the ends as they were given; dnsmasq puts them in order.
WriteDnsmasqConf ==
  /\ At("dnsmasq_conf")
  /\ \/ /\ \E listen \in Reads("ip_ap"), from \in Reads("ip_start"), to \in Reads("ip_stop") :
             dnsmasqConf' = [listen |-> listen, from |-> from, to |-> to]
        /\ Jump("dnsmasq")
        /\ UNCHANGED <<hosts, alive>>
     \/ FopenFails
  /\ UNCHANGED <<interface, changed>> /\ KeepAddress

\* DNSMASQ_RESTART gives the interface ip_ap_cidr; dnsmasq refuses what is no address.
DnsmasqRestart ==
  LET up == [address |-> start.address, prefix |-> start.prefix]
      usable == \A t \in {dnsmasqConf.listen, dnsmasqConf.from, dnsmasqConf.to} : inet_pton(t)
  IN
  /\ At("dnsmasq")
  /\ \/ inet_pton(start.address) /\ usable /\ interface' = up /\ Finish("ok")
     \/ /\ ~inet_pton(start.address) \/ ~usable \/ Fails("dnsmasq")
        /\ interface' \in {interface, None} \cup (IF inet_pton(start.address) THEN {up} ELSE {})
        /\ Finish("failed")
  /\ UNCHANGED <<hosts, dnsmasqConf, changed, alive>> /\ KeepAddress

setDnsmasqService ==
  \/ StartBegin \/ CheckGiven \/ Parse \/ CidrMask \/ CidrAp \/ TestRange
  \/ WlanUp \/ WriteHosts \/ WriteDnsmasqConf \/ DnsmasqRestart

-----------------------------------------------------------------------------
\* The configuration file: set_buffer measures each text and copies its bytes.
Init ==
  /\ \E r \in Request : /\ \A f \in Field : LengthOk(r[f])
                        /\ ip = r /\ accepted = r
  /\ call = NoCall /\ start = NoStart
  /\ hosts = None /\ dnsmasqConf = None /\ interface = None
  /\ calls = 0 /\ changed = FALSE /\ alive = TRUE

Next == setIpRange \/ CopyField \/ setDnsmasqService

Spec == Init /\ [][Next]_vars

-----------------------------------------------------------------------------
(* Properties *)

StartRecord ==
  [pc: {"idle", "given", "parse", "cidr_mask", "cidr_ap", "test", "wlan_up", "hosts",
        "dnsmasq_conf", "dnsmasq"},
   i: 1..4, parsed: [Field -> Text], parameterPtr: Field \cup {"none"},
   prefix: 0..32, address: Text,
   result: {"none", "ok", "refused", "failed"}]

AddressTypeOK ==
  /\ ip \in [Field -> Text]
  /\ call \in {NoCall} \cup [pc: Field, request: Request]
  /\ start \in StartRecord
  /\ hosts \in Text \cup {None}
  /\ dnsmasqConf \in [listen: Text, from: Text, to: Text] \cup {None}
  /\ interface \in [address: Text, prefix: 0..32] \cup {None}
  /\ accepted \in Request /\ calls \in Nat
  /\ changed \in BOOLEAN /\ alive \in BOOLEAN

\* Between calls the four fields come from the same call of setIpRange, or all from the
\* configuration: a call that is refused leaves no part of itself behind.
RangeOfOneCall ==
  call = NoCall => \A f \in Field : ip[f] \in {accepted[f], Stored(accepted[f])}

\* What a range has to be: four addresses, that of the access point outside of the
\* range in whichever order its ends are given.
GoodRange(range) ==
  /\ \A f \in Field : range[f].quad # <<>>
  /\ LET ap == range["ip_ap"].quad
         a == range["ip_start"].quad
         b == range["ip_stop"].quad
     IN \/ Below(ap, a) /\ Below(ap, b)
        \/ Below(a, ap) /\ Below(b, ap)

\* A start refuses exactly the ranges that are not good; if it succeeds, the hosts file,
\* dnsmasq and the interface all have the range it tested.  That holds as long as no
\* setIpRange was accepted since the start began: one that comes in between may put an
\* untested range in some of them.
StartUsesTestedRange ==
  /\ ~changed /\ start.result = "refused" => ~GoodRange(ip)
  /\ ~changed /\ start.result = "ok" =>
       /\ GoodRange(ip)
       /\ hosts = ip["ip_ap"]
       /\ dnsmasqConf = [listen |-> ip["ip_ap"], from |-> ip["ip_start"],
                         to |-> ip["ip_stop"]]
       /\ interface.address = ip["ip_ap"]

\* The interface then has the prefix length of the mask, if it is the mask of a network.
\* (A mask like 255.0.255.0 is not refused and gets the length 8.)
PrefixFitsMask ==
  ~changed /\ start.result = "ok" =>
    \A n \in 0..32 : ip["ip_netmask"].quad = Mask(n) => interface.prefix = n
=============================================================================
