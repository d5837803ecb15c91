----------------------------- MODULE WifiApData -----------------------------
(***************************************************************************)
(* The parameters that decide whether and how the radio starts:            *)
(* src/src/lib/wifi-ap-data.c, createWifiApData, the tests of startAp and   *)
(* GenerateHostApConfFile.                                                 *)
(*                                                                         *)
(* No lock protects wifiApT.  A step is one store to a field that another  *)
(* caller reads, or one read of it.  A string is its length; a bit mask is *)
(* the set of its bits; keys that no later test looks at are one key.      *)
(***************************************************************************)
EXTENDS Integers, Sequences, WifiApProcess

CONSTANTS
  Setter,     \* the callers whose clients change parameters
  Channel,    \* arguments of setChannel, unsigned 32 bits
  Std,        \* arguments of setIeeeStandard
  Length      \* lengths of the strings given

HardwareMode == {"A", "B", "G", "AD"}
Bit == HardwareMode \cup {"D", "H", "N", "AC", "AX", "W"}

ASSUME DataAssumption ==
  /\ Setter \subseteq Caller
  /\ Channel \subseteq Nat
  /\ Std \subseteq SUBSET Bit
  /\ Length \subseteq Nat

VARIABLES
  wifiApData,    \* the fields of wifiApT
  idx,           \* the next entry of descs that createWifiApData reads
  err,           \* a key was missing or refused
  job,           \* what each caller does
  hostapdConf,   \* the content of /tmp/hostapd.conf
  given,         \* history: what the configuration file said
  agreed         \* history: the channel was accepted, and nothing of it changed

vars == <<wifiApData, idx, err, job, hostapdConf, given, agreed, alive>>

-----------------------------------------------------------------------------
(* wifiApT and its setters *)

MIN_CHANNEL == [A |-> 7, B |-> 1, G |-> 1, AD |-> 1]
MAX_CHANNEL == [A |-> 196, B |-> 14, G |-> 14, AD |-> 6]

Uint16 == {n \in Nat : n < 65536}

wifiApT ==
  [ssid: Nat, passphrase: Nat, presharedKey: Nat,
   securityProtocol: {"NONE", "WPA2"}, IeeeStdMask: SUBSET Bit,
   channelNumber: Uint16,
   MIN_CHANNEL_VALUE: {0, 1, 7}, MAX_CHANNEL_VALUE: {0, 6, 14, 196}]

Calloc ==
  [ssid |-> 0, passphrase |-> 0, presharedKey |-> 0, securityProtocol |-> "NONE",
   IeeeStdMask |-> {}, channelNumber |-> 0,
   MIN_CHANNEL_VALUE |-> 0, MAX_CHANNEL_VALUE |-> 0]

\* set_buffer: the lengths it accepts.
Accepted == [ssid |-> 1..32, passphrase |-> 8..63]

\* setIeeeStandardParameter accepts the mask.
Legal(mask) ==
  /\ \E mode \in HardwareMode : mask \cap HardwareMode = {mode}
  /\ "AC" \in mask => "A" \in mask
  /\ "H" \in mask => "D" \in mask

\* The bounds setChannelParameter stores for the hardware bits hw of the mask: with
\* no bit or with several, those that were there.
MinFor(hw, old) ==
  IF \E mode \in HardwareMode : hw = {mode}
  THEN MIN_CHANNEL[CHOOSE mode \in HardwareMode : hw = {mode}] ELSE old
MaxFor(hw, old) ==
  IF \E mode \in HardwareMode : hw = {mode}
  THEN MAX_CHANNEL[CHOOSE mode \in HardwareMode : hw = {mode}] ELSE old

Hardware(mask) == mask \cap HardwareMode

uint16_t(n) == n % 65536

-----------------------------------------------------------------------------
(* createWifiApData: the keys are read in the order of descs *)

\* Mutant: the channel is read before the mask.
descsByName ==
  <<"other", "ssid", "passphrase", "preSharedKey", "securityProtocol",
    "channelNumber", "IeeeStdMask">>

descs == <<"other", "ssid", "passphrase", "preSharedKey", "securityProtocol",
           "IeeeStdMask", "channelNumber">>

Reading(key) == alive /\ idx <= Len(descs) /\ descs[idx] = key

NextKey == idx' = idx + 1 /\ UNCHANGED <<job, hostapdConf, alive>>

\* A mandatory key is missing, has another type, or a value its setter refuses.
Refused ==
  /\ err' = TRUE
  /\ UNCHANGED wifiApData

ReadOther ==
  /\ Reading("other")
  /\ err' \in BOOLEAN
  /\ given' = [given EXCEPT !.others = ~err']
  /\ NextKey
  /\ UNCHANGED <<wifiApData, agreed>>

\* Mutant: the passphrase is optional, as the pre-shared key is.
ReadOptionalString(field) ==
  /\ Reading(field)
  /\ \/ /\ field \in DOMAIN Accepted
        /\ \E length \in Length \cap Accepted[field] :
             wifiApData' = [wifiApData EXCEPT ![field] = length]
     \/ /\ field = "securityProtocol"
        /\ \E protocol \in {"NONE", "WPA2"} :
             wifiApData' = [wifiApData EXCEPT !.securityProtocol = protocol]
     \/ field = "passphrase" /\ UNCHANGED wifiApData
  /\ NextKey
  /\ UNCHANGED <<err, given, agreed>>

\* ssid, passphrase, securityProtocol
ReadString(field) ==
  /\ Reading(field)
  /\ \/ /\ Refused
        /\ given' = [given EXCEPT !.others = FALSE]
     \/ /\ field \in DOMAIN Accepted
        /\ \E length \in Length \cap Accepted[field] :
             wifiApData' = [wifiApData EXCEPT ![field] = length]
        /\ UNCHANGED <<err, given>>
     \/ /\ field = "securityProtocol"
        /\ \E protocol \in {"NONE", "WPA2"} :
             wifiApData' = [wifiApData EXCEPT !.securityProtocol = protocol]
        /\ UNCHANGED <<err, given>>
  /\ NextKey
  /\ UNCHANGED agreed

\* The optional key preSharedKey is stored by setPassPhraseParameter.
ReadPreSharedKey ==
  /\ Reading("preSharedKey")
  /\ \/ /\ UNCHANGED <<wifiApData, err, given>>
     \/ /\ Refused
        /\ given' = [given EXCEPT !.others = FALSE]
     \/ /\ \E length \in Length \cap Accepted["passphrase"] :
             wifiApData' = [wifiApData EXCEPT !.passphrase = length]
              /\ UNCHANGED <<err, given>>
  /\ NextKey
  /\ UNCHANGED agreed

ReadIeeeStdMask ==
  /\ Reading("IeeeStdMask")
  /\ \/ Refused /\ given' = [given EXCEPT !.others = FALSE]
     \/ \E mask \in Std :
          /\ given' = [given EXCEPT !.mask = mask]
          /\ IF Legal(mask)
             THEN wifiApData' = [wifiApData EXCEPT !.IeeeStdMask = mask] /\ UNCHANGED err
             ELSE Refused
  /\ NextKey
  /\ UNCHANGED agreed

ReadChannelNumber ==
  LET hw == Hardware(wifiApData.IeeeStdMask)
      lo == MinFor(hw, wifiApData.MIN_CHANNEL_VALUE)
      hi == MaxFor(hw, wifiApData.MAX_CHANNEL_VALUE)
      bounded == [wifiApData EXCEPT !.MIN_CHANNEL_VALUE = lo, !.MAX_CHANNEL_VALUE = hi]
  IN
  /\ Reading("channelNumber")
  /\ \/ Refused /\ given' = [given EXCEPT !.others = FALSE] /\ UNCHANGED agreed
     \/ \E n \in Channel :
          /\ given' = [given EXCEPT !.channel = n]
          /\ agreed' = (lo <= n /\ n <= hi)
          /\ wifiApData' = IF agreed' THEN [bounded EXCEPT !.channelNumber = uint16_t(n)]
                           ELSE bounded
          /\ err' = (err \/ ~agreed')
  /\ NextKey

\* Without a configuration that was accepted the binding does not start.
GiveUp ==
  /\ alive /\ idx > Len(descs) /\ err
  /\ Die
  /\ UNCHANGED <<wifiApData, idx, err, job, hostapdConf, given, agreed>>

createWifiApData ==
  \/ ReadOther
  \/ \E field \in {"ssid", "passphrase", "securityProtocol"} : ReadString(field)
  \/ ReadPreSharedKey \/ ReadIeeeStdMask \/ ReadChannelNumber
  \/ GiveUp

-----------------------------------------------------------------------------
(* The setter verbs.  A call that a setter refuses is a step only if it changes *)
(* something: that of setChannel does.                                      *)

Serving == alive /\ idx > Len(descs) /\ ~err

NoJob == [pc |-> "idle", n |-> 0, hw |-> {}, channel |-> 0, key |-> "none",
          result |-> "none"]

Idle(c) == Serving /\ job[c].pc = "idle"

At(c, pc) == alive /\ job[c].pc = pc

Jump(c, pc) == job' = [job EXCEPT ![c].pc = pc]

Finish(c, result) == job' = [job EXCEPT ![c] = [NoJob EXCEPT !.result = result]]

setString(c, field) ==
  /\ Idle(c) /\ c \in Setter
  /\ \E length \in Length \cap Accepted[field] :
       wifiApData' = [wifiApData EXCEPT ![field] = length]
  /\ UNCHANGED <<idx, err, job, hostapdConf, given, agreed, alive>>

setPreSharedKey(c) ==
  /\ Idle(c) /\ c \in Setter
  /\ \E length \in Length \cap 0..64 :
       wifiApData' = [wifiApData EXCEPT !.presharedKey = length]
  /\ UNCHANGED <<idx, err, job, hostapdConf, given, agreed, alive>>

setSecurityProtocol(c) ==
  /\ Idle(c) /\ c \in Setter
  /\ \E protocol \in {"NONE", "WPA2"} :
       wifiApData' = [wifiApData EXCEPT !.securityProtocol = protocol]
  /\ UNCHANGED <<idx, err, job, hostapdConf, given, agreed, alive>>

setIeeeStandard(c) ==
  /\ Idle(c) /\ c \in Setter
  /\ \E mask \in Std :
       /\ Legal(mask)
       /\ wifiApData' = [wifiApData EXCEPT !.IeeeStdMask = mask]
  /\ agreed' = FALSE
  /\ UNCHANGED <<idx, err, job, hostapdConf, given, alive>>

\* setChannelParameter: the mask is read, ...
setChannel(c) ==
  /\ Idle(c) /\ c \in Setter
  /\ \E n \in Channel :
       job' = [job EXCEPT ![c] = [NoJob EXCEPT !.pc = "min", !.n = n,
                                    !.hw = Hardware(wifiApData.IeeeStdMask)]]
  /\ agreed' = FALSE
  /\ UNCHANGED <<wifiApData, idx, err, hostapdConf, given, alive>>

\* Mutant: the upper bound is stored as the lower one.
setChannelMinSwapped(c) ==
  /\ At(c, "min")
  /\ wifiApData' = [wifiApData EXCEPT !.MIN_CHANNEL_VALUE = MaxFor(job[c].hw, @)]
  /\ Jump(c, "max")
  /\ UNCHANGED <<idx, err, hostapdConf, given, agreed, alive>>

\* ... the two bounds are stored, ...
setChannelMin(c) ==
  /\ At(c, "min")
  /\ wifiApData' = [wifiApData EXCEPT !.MIN_CHANNEL_VALUE = MinFor(job[c].hw, @)]
  /\ Jump(c, "max")
  /\ UNCHANGED <<idx, err, hostapdConf, given, agreed, alive>>

setChannelMax(c) ==
  /\ At(c, "max")
  /\ wifiApData' = [wifiApData EXCEPT !.MAX_CHANNEL_VALUE = MaxFor(job[c].hw, @)]
  /\ Jump(c, "test")
  /\ UNCHANGED <<idx, err, hostapdConf, given, agreed, alive>>

\* Mutant: the upper bound is not tested.
setChannelNoMaxTest(c) ==
  /\ At(c, "test")
  /\ IF job[c].n >= wifiApData.MIN_CHANNEL_VALUE
     THEN wifiApData' = [wifiApData EXCEPT !.channelNumber = uint16_t(job[c].n)]
     ELSE UNCHANGED wifiApData
  /\ agreed' = (job[c].n >= wifiApData.MIN_CHANNEL_VALUE)
  /\ Finish(c, "none")
  /\ UNCHANGED <<idx, err, hostapdConf, given, alive>>

\* ... and the channel is tested and stored.  The build may test what the fields
\* hold by now or the constants it has just stored there.
setChannelTest(c) ==
  LET w == wifiApData
      LoSeen == {w.MIN_CHANNEL_VALUE, MinFor(job[c].hw, w.MIN_CHANNEL_VALUE)}
      HiSeen == {w.MAX_CHANNEL_VALUE, MaxFor(job[c].hw, w.MAX_CHANNEL_VALUE)}
  IN
  /\ At(c, "test")
  /\ \E lo \in LoSeen, hi \in HiSeen :
       \/ /\ lo <= job[c].n /\ job[c].n <= hi
          /\ wifiApData' = [w EXCEPT !.channelNumber = uint16_t(job[c].n)]
          /\ agreed' = TRUE
       \/ /\ ~(lo <= job[c].n /\ job[c].n <= hi)
          /\ UNCHANGED <<wifiApData, agreed>>
  /\ Finish(c, "none")
  /\ UNCHANGED <<idx, err, hostapdConf, given, alive>>

SetterStep(c) ==
  \/ \E field \in DOMAIN Accepted : setString(c, field)
  \/ setPreSharedKey(c) \/ setSecurityProtocol(c) \/ setIeeeStandard(c)
  \/ setChannel(c) \/ setChannelMin(c) \/ setChannelMax(c) \/ setChannelTest(c)

-----------------------------------------------------------------------------
(* The tests of startAp, and GenerateHostApConfFile *)

NoConf == [channel |-> 0, key |-> "none", hw_mode |-> "none"]

KeepData == UNCHANGED <<wifiApData, idx, err, given, agreed, alive>>

StartSsid(c) ==
  /\ Idle(c)
  /\ IF wifiApData.ssid = 0 THEN Finish(c, "ssid") ELSE Jump(c, "start_min")
  /\ KeepData /\ UNCHANGED hostapdConf

StartMin(c) ==
  /\ At(c, "start_min")
  /\ IF wifiApData.channelNumber < wifiApData.MIN_CHANNEL_VALUE
     THEN Finish(c, "channel") ELSE Jump(c, "start_max")
  /\ KeepData /\ UNCHANGED hostapdConf

StartMax(c) ==
  /\ At(c, "start_max")
  /\ IF wifiApData.channelNumber > wifiApData.MAX_CHANNEL_VALUE
     THEN Finish(c, "channel") ELSE Jump(c, "common")
  /\ KeepData /\ UNCHANGED hostapdConf

\* fopen(w) empties the file; what is written stays in the buffer of the stream.
ConfCommon(c) ==
  /\ At(c, "common")
  /\ \/ /\ job' = [job EXCEPT ![c].pc = "security",
                              ![c].channel = wifiApData.channelNumber]
        /\ hostapdConf' = NoConf
     \/ /\ Fails("conf")
        /\ Finish(c, "file")
        /\ hostapdConf' \in {hostapdConf, NoConf}
  /\ KeepData

ChosenKey ==
  IF wifiApData.securityProtocol = "NONE" THEN "none"
  ELSE IF wifiApData.passphrase # 0 THEN "passphrase"
  ELSE IF wifiApData.presharedKey # 0 THEN "psk" ELSE "missing"

ConfSecurity(c) ==
  LET key == ChosenKey IN
  /\ At(c, "security")
  /\ \/ IF key = "missing"
        THEN Finish(c, "security") /\ hostapdConf' = NoConf
        ELSE /\ job' = [job EXCEPT ![c].pc = "ieee", ![c].key = key]
             /\ UNCHANGED hostapdConf
     \/ /\ Fails("conf")
        /\ Finish(c, "file") /\ hostapdConf' = NoConf
  /\ KeepData

\* hw_mode, and fclose.  Without a hardware mode, or with several, it is g.
ConfIeee(c) ==
  LET hw == Hardware(wifiApData.IeeeStdMask)
      hw_mode == IF \E mode \in HardwareMode : hw = {mode}
                 THEN CHOOSE mode \in HardwareMode : hw = {mode} ELSE "G"
  IN
  /\ At(c, "ieee")
  /\ \/ /\ hostapdConf' = [channel |-> job[c].channel, key |-> job[c].key,
                           hw_mode |-> hw_mode]
        /\ Finish(c, "ok")
     \/ /\ Fails("conf")
        /\ Finish(c, "file") /\ hostapdConf' = NoConf
  /\ KeepData

StartStep(c) ==
  \/ StartSsid(c) \/ StartMin(c) \/ StartMax(c)
  \/ ConfCommon(c) \/ ConfSecurity(c) \/ ConfIeee(c)

-----------------------------------------------------------------------------
Init ==
  /\ wifiApData = Calloc
  /\ idx = 1 /\ err = FALSE /\ alive = TRUE
  /\ job = [c \in Caller |-> NoJob]
  /\ hostapdConf = NoConf
  /\ given = [others |-> TRUE, mask |-> {}, channel |-> 0]
  /\ agreed = FALSE

Next ==
  \/ createWifiApData
  \/ \E c \in Caller : SetterStep(c) \/ StartStep(c)

Spec == Init /\ [][Next]_vars

-----------------------------------------------------------------------------
(* Properties *)

PC == {"idle", "min", "max", "test", "start_min", "start_max", "common", "security",
       "ieee"}

Job == [pc: PC, n: Nat, hw: SUBSET HardwareMode, channel: Uint16,
        key: {"none", "passphrase", "psk"},
        result: {"none", "ok", "ssid", "channel", "security", "file"}]

DataTypeOK ==
  /\ wifiApData \in wifiApT
  /\ idx \in 1..8
  /\ err \in BOOLEAN /\ agreed \in BOOLEAN /\ alive \in BOOLEAN
  /\ job \in [Caller -> Job]
  /\ hostapdConf \in [channel: Uint16, key: {"none", "passphrase", "psk"},
                      hw_mode: HardwareMode \cup {"none"}]
  /\ given \in [others: BOOLEAN, mask: SUBSET Bit, channel: Nat]

InRange(n, mask) ==
  \E mode \in HardwareMode :
    Hardware(mask) = {mode} /\ n \in MIN_CHANNEL[mode]..MAX_CHANNEL[mode]

\* createWifiApData refuses a configuration only for one of its values: with a legal
\* mask and a channel of its hardware mode, it is the other keys.  That depends on the
\* order in which the keys are read, not on the one in which the file has them.
GoodConfigAccepted ==
  idx > Len(descs) /\ given.others /\ Legal(given.mask) /\ InRange(given.channel, given.mask)
    => ~err

\* No start is refused for want of an SSID or of a key: what createWifiApData asked
\* for, no setter takes away.
StartHasSsidAndKey == \A c \in Caller : job[c].result \notin {"ssid", "security"}

\* What wifi-ap-data.c:234 ("Store PSK to be used later during startup procedure") and
\* docs/3_Usage.md:32 say of preSharedKey never happens: the branch of
\* GenerateHostApConfFile that writes it is dead.  A passphrase comes first, and no call
\* takes it away: createWifiApData asks for one, and stores the key preSharedKey of the
\* configuration as one.
PskBranchDead == hostapdConf.key # "psk"

\* A channel that was accepted belongs to the hardware mode in use and start accepts it
\* too, unless setChannel or setIeeeStandard was called since.
AgreedChannelStarts ==
  [][\A c \in Caller :
       agreed /\ job[c].pc \in {"start_min", "start_max"} /\ job'[c] # job[c]
         => /\ InRange(wifiApData.channelNumber, wifiApData.IeeeStdMask)
            /\ job'[c].pc \in {"start_max", "common"}]_vars

\* docs/3_Usage.md: "The channel number must be between 7 and 196 for IEEE 802.11a",
\* and likewise for the other modes.
ChannelMatchesMode ==
  hostapdConf.hw_mode # "none" =>
    hostapdConf.channel \in
      MIN_CHANNEL[hostapdConf.hw_mode]..MAX_CHANNEL[hostapdConf.hw_mode]
=============================================================================
