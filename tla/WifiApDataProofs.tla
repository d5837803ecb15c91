--------------------------- MODULE WifiApDataProofs ---------------------------
(***************************************************************************)
(* Theorems about the parameters, WifiApData, for any callers, arguments   *)
(* and configuration files.                                                *)
(***************************************************************************)
EXTENDS WifiApData, TLAPS

\* The keys are read in the order of descs.
LEMMA DescsLength == Len(descs) = 7
  BY DEF descs

LEMMA DescsOrder ==
  /\ descs[1] = "other" /\ descs[2] = "ssid" /\ descs[3] = "passphrase"
  /\ descs[4] = "preSharedKey" /\ descs[5] = "securityProtocol"
  /\ descs[6] = "IeeeStdMask" /\ descs[7] = "channelNumber"
  BY DEF descs

LEMMA ReadingLemma ==
  ASSUME idx \in 1..8, NEW key, Reading(key)
  PROVE  /\ alive
         /\ \/ idx = 1 /\ key = "other"
            \/ idx = 2 /\ key = "ssid"
            \/ idx = 3 /\ key = "passphrase"
            \/ idx = 4 /\ key = "preSharedKey"
            \/ idx = 5 /\ key = "securityProtocol"
            \/ idx = 6 /\ key = "IeeeStdMask"
            \/ idx = 7 /\ key = "channelNumber"
  <1>1. idx <= 7 /\ descs[idx] = key /\ alive
    BY DescsLength DEF Reading
  <1>2. idx = 1 \/ idx = 2 \/ idx = 3 \/ idx = 4 \/ idx = 5 \/ idx = 6 \/ idx = 7
    BY <1>1
  <1>3. key = descs[idx]
    BY <1>1
  <1>4. CASE idx = 1 \/ idx = 2
    BY <1>1, <1>3, <1>4, DescsOrder, Zenon
  <1>5. CASE idx = 3 \/ idx = 4
    BY <1>1, <1>3, <1>5, DescsOrder, Zenon
  <1>6. CASE idx = 5 \/ idx = 6 \/ idx = 7
    BY <1>1, <1>3, <1>6, DescsOrder, Zenon
  <1> QED BY <1>2, <1>4, <1>5, <1>6

\* The bounds of a hardware mode, whichever it is.
LEMMA BoundsLemma ==
  ASSUME NEW mask, \E mode \in HardwareMode : Hardware(mask) = {mode},
         NEW old
  PROVE  /\ MinFor(Hardware(mask), old) \in {1, 7}
         /\ MaxFor(Hardware(mask), old) \in {6, 14, 196}
         /\ \A n \in Nat :
              MinFor(Hardware(mask), old) <= n /\ n <= MaxFor(Hardware(mask), old)
                => InRange(n, mask)
  <1>1. PICK mode \in HardwareMode : Hardware(mask) = {mode}
    OBVIOUS
  <1>2. (CHOOSE m \in HardwareMode : Hardware(mask) = {m}) = mode
    BY <1>1
  <1>3. /\ MinFor(Hardware(mask), old) = MIN_CHANNEL[mode]
        /\ MaxFor(Hardware(mask), old) = MAX_CHANNEL[mode]
    BY <1>1, <1>2 DEF MinFor, MaxFor
  <1>4. MIN_CHANNEL[mode] \in {1, 7} /\ MAX_CHANNEL[mode] \in {6, 14, 196}
    BY DEF HardwareMode, MIN_CHANNEL, MAX_CHANNEL
  <1>5. ASSUME NEW n \in Nat, MIN_CHANNEL[mode] <= n, n <= MAX_CHANNEL[mode]
        PROVE  InRange(n, mask)
    BY <1>1, <1>4, <1>5 DEF InRange
  <1> QED BY <1>3, <1>4, <1>5

\* Whatever the mask, the bounds stay what the type says.
LEMMA BoundsTypeLemma ==
  ASSUME NEW hw
  PROVE  /\ \A old \in {0, 1, 7} : MinFor(hw, old) \in {0, 1, 7}
         /\ \A old \in {0, 6, 14, 196} : MaxFor(hw, old) \in {0, 6, 14, 196}
  <1>1. CASE \E mode \in HardwareMode : hw = {mode}
    <2>1. PICK mode \in HardwareMode : hw = {mode}
      BY <1>1
    <2>2. (CHOOSE m \in HardwareMode : hw = {m}) = mode
      BY <2>1
    <2>3. MIN_CHANNEL[mode] \in {1, 7} /\ MAX_CHANNEL[mode] \in {6, 14, 196}
      BY DEF HardwareMode, MIN_CHANNEL, MAX_CHANNEL
    <2> QED BY <1>1, <2>2, <2>3 DEF MinFor, MaxFor
  <1>2. CASE ~ \E mode \in HardwareMode : hw = {mode}
    BY <1>2 DEF MinFor, MaxFor
  <1> QED BY <1>1, <1>2

LEMMA UintLemma == \A n \in Nat : uint16_t(n) \in Uint16 /\ (n <= 196 => uint16_t(n) = n)
  BY DEF uint16_t, Uint16

-----------------------------------------------------------------------------
(* The invariant *)

\* Before all keys are read, and if they are not accepted, nothing else happens.
Quiescent == idx <= 7 \/ err => \A c \in Caller : job[c] = NoJob

\* What is known of the fields once their keys were accepted.
Configured ==
  /\ idx > 2 /\ ~err => wifiApData.ssid # 0
  /\ idx > 3 /\ ~err => wifiApData.passphrase # 0
  /\ idx > 6 /\ ~err => \E mode \in HardwareMode : Hardware(wifiApData.IeeeStdMask) = {mode}

\* Why a configuration was refused.
Refusal ==
  /\ idx <= 6 /\ err => ~given.others
  /\ idx = 7 /\ given.others /\ Legal(given.mask)
       => ~err /\ wifiApData.IeeeStdMask = given.mask
  /\ GoodConfigAccepted

DataInv == DataTypeOK /\ Quiescent /\ Configured /\ Refusal /\ StartHasSsidAndKey

\* A store to one field keeps the type of the record.
LEMMA StoreLength ==
  ASSUME wifiApData \in wifiApT, NEW v \in Nat
  PROVE  /\ [wifiApData EXCEPT !.ssid = v] \in wifiApT
         /\ [wifiApData EXCEPT !.passphrase = v] \in wifiApT
         /\ [wifiApData EXCEPT !.presharedKey = v] \in wifiApT
  BY DEF wifiApT

LEMMA StoreProtocol ==
  ASSUME wifiApData \in wifiApT, NEW p \in {"NONE", "WPA2"}
  PROVE  [wifiApData EXCEPT !.securityProtocol = p] \in wifiApT
  BY DEF wifiApT

LEMMA StoreMask ==
  ASSUME wifiApData \in wifiApT, NEW mask \in SUBSET Bit
  PROVE  [wifiApData EXCEPT !.IeeeStdMask = mask] \in wifiApT
  BY DEF wifiApT

LEMMA StoreChannel ==
  ASSUME NEW w \in wifiApT, NEW n \in Uint16
  PROVE  [w EXCEPT !.channelNumber = n] \in wifiApT
  BY DEF wifiApT

LEMMA StoreMin ==
  ASSUME NEW w \in wifiApT, NEW lo \in {0, 1, 7}
  PROVE  [w EXCEPT !.MIN_CHANNEL_VALUE = lo] \in wifiApT
  BY DEF wifiApT

LEMMA StoreMax ==
  ASSUME NEW w \in wifiApT, NEW hi \in {0, 6, 14, 196}
  PROVE  [w EXCEPT !.MAX_CHANNEL_VALUE = hi] \in wifiApT
  BY DEF wifiApT

LEMMA JobTypes ==
  ASSUME job \in [Caller -> Job], NEW c \in Caller
  PROVE  /\ \A pc \in PC : Jump(c, pc) => job' \in [Caller -> Job]
         /\ \A result \in {"none", "ok", "ssid", "channel", "security", "file"} :
              Finish(c, result) => job' \in [Caller -> Job]
  <1>1. job[c] \in Job
    OBVIOUS
  <1>2. \A pc \in PC : [job[c] EXCEPT !.pc = pc] \in Job
    BY <1>1 DEF Job
  <1>3. \A result \in {"none", "ok", "ssid", "channel", "security", "file"} :
          [NoJob EXCEPT !.result = result] \in Job
    BY DEF Job, NoJob, PC, Uint16
  <1> QED BY <1>2, <1>3 DEF Jump, Finish

-----------------------------------------------------------------------------
(* createWifiApData *)

\* A key is read.
LEMMA ReadStep ==
  ASSUME DataInv, idx \in 1..7, NextKey,
         wifiApData' \in wifiApT, err' \in BOOLEAN, agreed' \in BOOLEAN,
         given' \in [others: BOOLEAN, mask: SUBSET Bit, channel: Nat],
         Configured', Refusal'
  PROVE  DataInv'
  <1>1. idx' \in 1..8 /\ UNCHANGED <<job, hostapdConf, alive>>
    BY DEF NextKey
  <1>2. \A c \in Caller : job[c] = NoJob
    BY DEF DataInv, Quiescent
  <1>3. DataTypeOK'
    BY <1>1 DEF DataInv, DataTypeOK
  <1>4. Quiescent'
    BY <1>1, <1>2 DEF Quiescent
  <1>5. StartHasSsidAndKey'
    BY <1>1 DEF DataInv, StartHasSsidAndKey
  <1> QED BY <1>3, <1>4, <1>5 DEF DataInv

GivenTypeOK ==
  err \in BOOLEAN /\ given \in [others: BOOLEAN, mask: SUBSET Bit, channel: Nat]

LEMMA RefusalLemma ==
  ASSUME DataInv PROVE GivenTypeOK /\ (idx <= 6 /\ err => ~given.others)
  BY DEF DataInv, DataTypeOK, Refusal, GivenTypeOK

LEMMA AcceptedLemma ==
  /\ DOMAIN Accepted = {"ssid", "passphrase"}
  /\ \A length \in Accepted["ssid"] : length \in Nat /\ length # 0
  /\ \A length \in Accepted["passphrase"] : length \in Nat /\ length # 0
  BY DEF Accepted

LEMMA ReadOtherInv ==
  ASSUME DataInv, ReadOther PROVE DataInv'
  <1>1. idx = 1 /\ idx' = 2 /\ NextKey
    BY ReadingLemma DEF ReadOther, NextKey, DataInv, DataTypeOK
  <1>2. /\ given' \in [others: BOOLEAN, mask: SUBSET Bit, channel: Nat]
        /\ given'.others = ~err' /\ err' \in BOOLEAN
        /\ UNCHANGED <<wifiApData, agreed>>
    BY DEF ReadOther, DataInv, DataTypeOK
  <1>3. Configured' /\ Refusal'
    BY <1>1, <1>2, DescsLength DEF Configured, Refusal, GoodConfigAccepted, descs
  <1> QED BY <1>1, <1>2, <1>3, ReadStep DEF DataInv, DataTypeOK

LEMMA ReadStringInv ==
  ASSUME DataInv, NEW field \in {"ssid", "passphrase", "securityProtocol"}, ReadString(field)
  PROVE  DataInv'
  <1>1. /\ \/ idx = 2 /\ field = "ssid"
           \/ idx = 3 /\ field = "passphrase"
           \/ idx = 5 /\ field = "securityProtocol"
        /\ idx' = idx + 1 /\ NextKey /\ UNCHANGED agreed
    BY ReadingLemma DEF ReadString, NextKey, DataInv, DataTypeOK
  <1>2. /\ given' \in [others: BOOLEAN, mask: SUBSET Bit, channel: Nat]
        /\ err' \in BOOLEAN
        /\ err' => ~given'.others
    <2>1. GivenTypeOK /\ (err => ~given.others)
      BY <1>1, RefusalLemma
    <2>2. CASE Refused /\ given' = [given EXCEPT !.others = FALSE]
      BY <2>1, <2>2 DEF Refused, GivenTypeOK
    <2>3. CASE UNCHANGED <<err, given>>
      BY <2>1, <2>3 DEF GivenTypeOK
    <2> QED BY <2>2, <2>3, Zenon DEF ReadString
  <1>3. /\ wifiApData' \in wifiApT
        /\ ~err' => /\ ~err
                    /\ IF idx = 2 THEN wifiApData'.ssid # 0
                       ELSE wifiApData'.ssid = wifiApData.ssid
                    /\ IF idx = 3 THEN wifiApData'.passphrase # 0
                       ELSE wifiApData'.passphrase = wifiApData.passphrase
    <2>1. CASE Refused
      BY <2>1 DEF Refused, DataInv, DataTypeOK
    <2>2. CASE /\ field \in DOMAIN Accepted /\ UNCHANGED <<err, given>>
               /\ \E length \in Length \cap Accepted[field] :
                    wifiApData' = [wifiApData EXCEPT ![field] = length]
      <3>1. PICK length \in Length \cap Accepted[field] :
              wifiApData' = [wifiApData EXCEPT ![field] = length]
        BY <2>2
      <3>2. CASE field = "ssid"
        <4>1. length \in Nat /\ length # 0
          BY <3>1, <3>2, AcceptedLemma
        <4>2. wifiApData' = [wifiApData EXCEPT !.ssid = length]
          BY <3>1, <3>2, Zenon
        <4>3. wifiApData' \in wifiApT
          BY <4>1, <4>2, StoreLength DEF DataInv, DataTypeOK
        <4> QED BY <1>1, <2>2, <3>2, <4>1, <4>2, <4>3 DEF DataInv, DataTypeOK, wifiApT
      <3>3. CASE field = "passphrase"
        <4>1. length \in Nat /\ length # 0
          BY <3>1, <3>3, AcceptedLemma
        <4>2. wifiApData' = [wifiApData EXCEPT !.passphrase = length]
          BY <3>1, <3>3, Zenon
        <4>3. wifiApData' \in wifiApT
          BY <4>1, <4>2, StoreLength DEF DataInv, DataTypeOK
        <4> QED BY <1>1, <2>2, <3>3, <4>1, <4>2, <4>3 DEF DataInv, DataTypeOK, wifiApT
      <3> QED BY <2>2, <3>2, <3>3, AcceptedLemma
    <2>3. CASE /\ field = "securityProtocol" /\ UNCHANGED <<err, given>>
               /\ \E protocol \in {"NONE", "WPA2"} :
                    wifiApData' = [wifiApData EXCEPT !.securityProtocol = protocol]
      <3>1. wifiApData' \in wifiApT
        BY <2>3, StoreProtocol DEF DataInv, DataTypeOK
      <3> QED BY <1>1, <2>3, <3>1 DEF DataInv, DataTypeOK, wifiApT
    <2> QED BY <2>1, <2>2, <2>3, Zenon DEF ReadString
  <1>4. Configured'
    BY <1>1, <1>3 DEF DataInv, Configured
  <1>5. Refusal'
    BY <1>1, <1>2, DescsLength DEF Refusal, GoodConfigAccepted
  <1> QED BY <1>1, <1>2, <1>3, <1>4, <1>5, ReadStep DEF DataInv, DataTypeOK

LEMMA ReadPreSharedKeyInv ==
  ASSUME DataInv, ReadPreSharedKey PROVE DataInv'
  <1>1. idx = 4 /\ idx' = 5 /\ NextKey /\ UNCHANGED agreed
    BY ReadingLemma DEF ReadPreSharedKey, NextKey, DataInv, DataTypeOK
  <1>3. /\ given' \in [others: BOOLEAN, mask: SUBSET Bit, channel: Nat]
        /\ err' \in BOOLEAN
        /\ err' => ~given'.others
    <2>1. GivenTypeOK /\ (err => ~given.others)
      BY <1>1, RefusalLemma
    <2>2. CASE Refused /\ given' = [given EXCEPT !.others = FALSE]
      BY <2>1, <2>2 DEF Refused, GivenTypeOK
    <2>3. CASE UNCHANGED <<err, given>>
      BY <2>1, <2>3 DEF GivenTypeOK
    <2> QED BY <2>2, <2>3, Zenon DEF ReadPreSharedKey
  <1>4. /\ wifiApData' \in wifiApT
        /\ ~err' => ~err /\ wifiApData'.ssid = wifiApData.ssid
        /\ ~err' => wifiApData'.passphrase = wifiApData.passphrase \/ wifiApData'.passphrase # 0
    <2>1. CASE UNCHANGED <<wifiApData, err>> \/ Refused
      BY <2>1 DEF Refused, DataInv, DataTypeOK
    <2>2. CASE /\ UNCHANGED err
               /\ \E length \in Length \cap Accepted["passphrase"] :
                    wifiApData' = [wifiApData EXCEPT !.passphrase = length]
      <3>1. PICK length \in Length \cap Accepted["passphrase"] :
              wifiApData' = [wifiApData EXCEPT !.passphrase = length]
        BY <2>2
      <3>2. length \in Nat /\ length # 0
        BY <3>1 DEF Accepted
      <3> QED BY ZenonT(60), <2>2, <3>1, <3>2, StoreLength DEF DataInv, DataTypeOK, wifiApT
    <2> QED BY <2>1, <2>2 DEF ReadPreSharedKey
  <1>5. Configured'
    BY <1>1, <1>4 DEF DataInv, Configured
  <1>6. Refusal'
    BY <1>1, <1>3, DescsLength DEF Refusal, GoodConfigAccepted
  <1> QED BY <1>1, <1>3, <1>4, <1>5, <1>6, ReadStep DEF DataInv, DataTypeOK

LEMMA ReadIeeeStdMaskInv ==
  ASSUME DataInv, ReadIeeeStdMask PROVE DataInv'
  <1>1. idx = 6 /\ idx' = 7 /\ NextKey /\ UNCHANGED agreed
    BY ReadingLemma DEF ReadIeeeStdMask, NextKey, DataInv, DataTypeOK
  <1>2. CASE Refused /\ given' = [given EXCEPT !.others = FALSE]
    <2>1. /\ given' \in [others: BOOLEAN, mask: SUBSET Bit, channel: Nat]
          /\ err' = TRUE /\ ~given'.others /\ wifiApData' = wifiApData
      BY <1>2 DEF Refused, DataInv, DataTypeOK
    <2>2. Configured' /\ Refusal'
      BY <1>1, <2>1, DescsLength DEF Configured, Refusal, GoodConfigAccepted
    <2> QED BY <1>1, <2>1, <2>2, ReadStep DEF DataInv, DataTypeOK
  <1>3. ASSUME NEW mask \in Std, given' = [given EXCEPT !.mask = mask],
               IF Legal(mask)
               THEN wifiApData' = [wifiApData EXCEPT !.IeeeStdMask = mask] /\ UNCHANGED err
               ELSE Refused
        PROVE  DataInv'
    <2>1. /\ given' \in [others: BOOLEAN, mask: SUBSET Bit, channel: Nat]
          /\ given'.mask = mask /\ given'.others = given.others /\ err' \in BOOLEAN
      BY <1>3, DataAssumption DEF Refused, DataInv, DataTypeOK
    <2>2. CASE Legal(mask)
      <3>1. wifiApData' \in wifiApT
        BY <1>3, <2>2, StoreMask, DataAssumption DEF DataInv, DataTypeOK
      <3>2. /\ wifiApData'.ssid = wifiApData.ssid
            /\ wifiApData'.passphrase = wifiApData.passphrase
            /\ wifiApData'.IeeeStdMask = mask /\ err' = err
        BY <1>3, <2>2 DEF DataInv, DataTypeOK, wifiApT
      <3>3. Configured'
        BY <1>1, <2>2, <3>2 DEF DataInv, Configured, Legal, Hardware
      <3>4. Refusal'
        BY <1>1, <2>1, <3>2, DescsLength DEF DataInv, Refusal, GoodConfigAccepted
      <3> QED BY <1>1, <2>1, <3>1, <3>3, <3>4, ReadStep DEF DataInv, DataTypeOK
    <2>3. CASE ~Legal(mask)
      <3>1. err' = TRUE /\ wifiApData' = wifiApData
        BY <1>3, <2>3 DEF Refused
      <3>2. Configured' /\ Refusal'
        BY <1>1, <2>1, <2>3, <3>1, DescsLength DEF Configured, Refusal, GoodConfigAccepted
      <3> QED BY <1>1, <2>1, <3>1, <3>2, ReadStep DEF DataInv, DataTypeOK
    <2> QED BY <2>2, <2>3
  <1> QED BY <1>2, <1>3 DEF ReadIeeeStdMask

LEMMA ReadChannelNumberInv ==
  ASSUME DataInv, ReadChannelNumber PROVE DataInv'
  <1> DEFINE hw == Hardware(wifiApData.IeeeStdMask)
             lo == MinFor(hw, wifiApData.MIN_CHANNEL_VALUE)
             hi == MaxFor(hw, wifiApData.MAX_CHANNEL_VALUE)
             bounded == [wifiApData EXCEPT !.MIN_CHANNEL_VALUE = lo, !.MAX_CHANNEL_VALUE = hi]
  <1>1. idx = 7 /\ idx' = 8 /\ NextKey
    <2>1. Reading("channelNumber") /\ NextKey
      BY Zenon DEF ReadChannelNumber
    <2> QED BY <2>1, ReadingLemma DEF NextKey, DataInv, DataTypeOK
  <1>2. wifiApData \in wifiApT /\ GivenTypeOK /\ agreed \in BOOLEAN
    BY DEF DataInv, DataTypeOK, GivenTypeOK
  <1>3. CASE Refused /\ given' = [given EXCEPT !.others = FALSE] /\ UNCHANGED agreed
    <2>1. /\ given' \in [others: BOOLEAN, mask: SUBSET Bit, channel: Nat]
          /\ err' = TRUE /\ ~given'.others /\ wifiApData' = wifiApData
      BY <1>2, <1>3 DEF Refused, GivenTypeOK
    <2>2. Configured' /\ Refusal'
      BY <1>1, <2>1, DescsLength DEF Configured, Refusal, GoodConfigAccepted
    <2> QED BY <1>1, <1>2, <1>3, <2>1, <2>2, ReadStep
  <1>4. ASSUME NEW n \in Channel,
               given' = [given EXCEPT !.channel = n],
               agreed' = (lo <= n /\ n <= hi),
               wifiApData' = IF agreed' THEN [bounded EXCEPT !.channelNumber = uint16_t(n)]
                             ELSE bounded,
               err' = (err \/ ~agreed')
        PROVE  DataInv'
    <2>1. /\ given' \in [others: BOOLEAN, mask: SUBSET Bit, channel: Nat]
          /\ given'.mask = given.mask /\ given'.channel = n /\ given'.others = given.others
      BY <1>2, <1>4, DataAssumption DEF GivenTypeOK
    <2>2. /\ bounded \in wifiApT /\ bounded.ssid = wifiApData.ssid
          /\ bounded.passphrase = wifiApData.passphrase
          /\ bounded.IeeeStdMask = wifiApData.IeeeStdMask
      <3>1. lo \in {0, 1, 7} /\ hi \in {0, 6, 14, 196}
        BY <1>2, BoundsTypeLemma DEF wifiApT
      <3> HIDE DEF lo, hi
      <3> QED BY <1>2, <3>1 DEF wifiApT
    <2>3. uint16_t(n) \in Uint16
      BY UintLemma, DataAssumption
    <2>4. /\ wifiApData' \in wifiApT /\ wifiApData'.ssid = wifiApData.ssid
          /\ wifiApData'.passphrase = wifiApData.passphrase
          /\ wifiApData'.IeeeStdMask = wifiApData.IeeeStdMask
      <3> HIDE DEF bounded
      <3>1. CASE agreed'
        BY <1>4, <2>2, <2>3, <3>1, StoreChannel DEF wifiApT
      <3>2. CASE ~agreed'
        BY <1>4, <2>2, <3>2
      <3> QED BY <3>1, <3>2
    <2>5. agreed' \in BOOLEAN /\ err' \in BOOLEAN /\ (~err' => ~err)
      BY <1>2, <1>4 DEF GivenTypeOK
    <2>6. Configured'
      BY <1>1, <2>4, <2>5 DEF DataInv, Configured
    <2>7. ASSUME given'.others, Legal(given'.mask), InRange(given'.channel, given'.mask)
          PROVE  ~err'
      <3>1. ~err /\ wifiApData.IeeeStdMask = given.mask
        BY <1>1, <2>1, <2>7 DEF DataInv, Refusal
      <3>2. lo <= n /\ n <= hi
        <4>1. PICK mode \in HardwareMode :
                hw = {mode} /\ n \in MIN_CHANNEL[mode]..MAX_CHANNEL[mode]
          BY <2>1, <2>7, <3>1 DEF InRange
        <4>2. (CHOOSE m \in HardwareMode : hw = {m}) = mode
          BY <4>1
        <4>3. lo = MIN_CHANNEL[mode] /\ hi = MAX_CHANNEL[mode]
          BY <4>1, <4>2 DEF MinFor, MaxFor
        <4>4. MIN_CHANNEL[mode] \in {1, 7} /\ MAX_CHANNEL[mode] \in {6, 14, 196}
          BY DEF HardwareMode, MIN_CHANNEL, MAX_CHANNEL
        <4> HIDE DEF lo, hi
        <4> QED BY <4>1, <4>3, <4>4, DataAssumption
      <3> HIDE DEF lo, hi
      <3> QED BY <1>4, <3>1, <3>2
    <2>8. Refusal'
      BY <1>1, <2>7, DescsLength DEF Refusal, GoodConfigAccepted
    <2> QED BY <1>1, <1>2, <2>1, <2>4, <2>5, <2>6, <2>8, ReadStep
  <1> HIDE DEF lo, hi, bounded
  <1> QED BY <1>3, <1>4 DEF ReadChannelNumber, lo, hi, bounded, hw

LEMMA createWifiApDataInv ==
  ASSUME DataInv, createWifiApData PROVE DataInv'
  <1>1. CASE GiveUp
    BY <1>1 DEF GiveUp, Die, DataInv, DataTypeOK, Quiescent, Configured, Refusal,
       GoodConfigAccepted, StartHasSsidAndKey
  <1> QED BY <1>1, ReadOtherInv, ReadStringInv, ReadPreSharedKeyInv, ReadIeeeStdMaskInv,
             ReadChannelNumberInv DEF createWifiApData

-----------------------------------------------------------------------------
(* The verbs *)

\* A caller that is inside a verb, or may begin one.
LEMMA ActiveLemma ==
  ASSUME DataInv, NEW c \in Caller, Idle(c) \/ (job[c].pc # "idle")
  PROVE  /\ idx = 8 /\ ~err
         /\ wifiApData.ssid # 0 /\ wifiApData.passphrase # 0
         /\ \E mode \in HardwareMode : Hardware(wifiApData.IeeeStdMask) = {mode}
  <1>1. idx \in 1..8 /\ err \in BOOLEAN
    BY DEF DataInv, DataTypeOK
  <1>2. ~(idx <= 7 \/ err)
    BY <1>1, DescsLength DEF DataInv, Quiescent, NoJob, Idle, Serving
  <1> QED BY <1>1, <1>2 DEF DataInv, Configured

\* A step of a verb.
LEMMA VerbStepInv ==
  ASSUME DataInv, idx = 8, ~err, UNCHANGED <<idx, err, given, alive>>,
         wifiApData' \in wifiApT, wifiApData'.ssid # 0, wifiApData'.passphrase # 0,
         \E mode \in HardwareMode : Hardware(wifiApData'.IeeeStdMask) = {mode},
         job' \in [Caller -> Job], StartHasSsidAndKey',
         hostapdConf' \in [channel: Uint16, key: {"none", "passphrase", "psk"},
                           hw_mode: HardwareMode \cup {"none"}],
         agreed' \in BOOLEAN
  PROVE  DataInv'
  <1>1. DataTypeOK'
    BY DEF DataInv, DataTypeOK
  <1>2. Quiescent' /\ Configured' /\ Refusal'
    BY DescsLength DEF DataInv, Quiescent, Configured, Refusal, GoodConfigAccepted
  <1> QED BY <1>1, <1>2 DEF DataInv

LEMMA FinishLemma ==
  ASSUME DataInv, NEW c \in Caller
  PROVE  /\ \A result \in {"none", "ok", "channel", "file"} :
              Finish(c, result) => StartHasSsidAndKey'
         /\ \A pc : Jump(c, pc) => StartHasSsidAndKey'
         /\ UNCHANGED job => StartHasSsidAndKey'
  <1>1. job \in [Caller -> Job]
    BY DEF DataInv, DataTypeOK
  <1>2. ASSUME NEW result \in {"none", "ok", "channel", "file"}, Finish(c, result)
        PROVE  StartHasSsidAndKey'
    BY <1>1, <1>2 DEF DataInv, StartHasSsidAndKey, Finish, NoJob
  <1>3. ASSUME NEW pc, Jump(c, pc) PROVE StartHasSsidAndKey'
    BY <1>1, <1>3 DEF DataInv, StartHasSsidAndKey, Jump, Job
  <1>4. UNCHANGED job => StartHasSsidAndKey'
    BY DEF DataInv, StartHasSsidAndKey
  <1> QED BY <1>2, <1>3, <1>4

\* The setters that store one field in one step.
LEMMA SimpleSetterInv ==
  ASSUME DataInv, NEW c \in Caller,
         \/ \E field \in DOMAIN Accepted : setString(c, field)
         \/ setPreSharedKey(c) \/ setSecurityProtocol(c) \/ setIeeeStandard(c)
  PROVE  DataInv'
  <1>1. wifiApData \in wifiApT /\ job \in [Caller -> Job]
        /\ agreed \in BOOLEAN
        /\ hostapdConf \in [channel: Uint16, key: {"none", "passphrase", "psk"},
                             hw_mode: HardwareMode \cup {"none"}]
    BY DEF DataInv, DataTypeOK
  <1>2. CASE setString(c, "ssid")
    <2>1. PICK length \in Length \cap Accepted["ssid"] :
            wifiApData' = [wifiApData EXCEPT !.ssid = length]
      BY <1>2, Zenon DEF setString
    <2>2. length \in Nat /\ length # 0
      BY <2>1, AcceptedLemma
    <2>3. Idle(c) /\ UNCHANGED <<idx, err, job, hostapdConf, given, agreed, alive>>
      BY <1>2 DEF setString
    <2>4. /\ wifiApData' \in wifiApT /\ wifiApData'.ssid = length
          /\ wifiApData'.passphrase = wifiApData.passphrase
          /\ wifiApData'.IeeeStdMask = wifiApData.IeeeStdMask
      BY ZenonT(60), <1>1, <2>1, <2>2, StoreLength DEF wifiApT
    <2> QED BY <1>1, <2>2, <2>3, <2>4, ActiveLemma, FinishLemma, VerbStepInv
  <1>3. CASE setString(c, "passphrase")
    <2>1. PICK length \in Length \cap Accepted["passphrase"] :
            wifiApData' = [wifiApData EXCEPT !.passphrase = length]
      BY <1>3, Zenon DEF setString
    <2>2. length \in Nat /\ length # 0
      BY <2>1, AcceptedLemma
    <2>3. Idle(c) /\ UNCHANGED <<idx, err, job, hostapdConf, given, agreed, alive>>
      BY <1>3 DEF setString
    <2>4. /\ wifiApData' \in wifiApT /\ wifiApData'.passphrase = length
          /\ wifiApData'.ssid = wifiApData.ssid
          /\ wifiApData'.IeeeStdMask = wifiApData.IeeeStdMask
      BY ZenonT(60), <1>1, <2>1, <2>2, StoreLength DEF wifiApT
    <2> QED BY <1>1, <2>2, <2>3, <2>4, ActiveLemma, FinishLemma, VerbStepInv
  <1>4. CASE setPreSharedKey(c)
    <2>1. PICK length \in Length \cap 0..64 :
            wifiApData' = [wifiApData EXCEPT !.presharedKey = length]
      BY <1>4 DEF setPreSharedKey
    <2>2. length \in Nat
      BY <2>1
    <2>3. Idle(c) /\ UNCHANGED <<idx, err, job, hostapdConf, given, agreed, alive>>
      BY <1>4 DEF setPreSharedKey
    <2>4. /\ wifiApData' \in wifiApT /\ wifiApData'.passphrase = wifiApData.passphrase
          /\ wifiApData'.ssid = wifiApData.ssid
          /\ wifiApData'.IeeeStdMask = wifiApData.IeeeStdMask
      BY ZenonT(60), <1>1, <2>1, <2>2, StoreLength DEF wifiApT
    <2> QED BY <1>1, <2>3, <2>4, ActiveLemma, FinishLemma, VerbStepInv
  <1>5. CASE setSecurityProtocol(c)
    <2>1. PICK protocol \in {"NONE", "WPA2"} :
            wifiApData' = [wifiApData EXCEPT !.securityProtocol = protocol]
      BY <1>5 DEF setSecurityProtocol
    <2>2. Idle(c) /\ UNCHANGED <<idx, err, job, hostapdConf, given, agreed, alive>>
      BY <1>5 DEF setSecurityProtocol
    <2>3. /\ wifiApData' \in wifiApT /\ wifiApData'.passphrase = wifiApData.passphrase
          /\ wifiApData'.ssid = wifiApData.ssid
          /\ wifiApData'.IeeeStdMask = wifiApData.IeeeStdMask
      BY <1>1, <2>1, StoreProtocol DEF wifiApT
    <2> QED BY <1>1, <2>2, <2>3, ActiveLemma, FinishLemma, VerbStepInv
  <1>6. CASE setIeeeStandard(c)
    <2>1. PICK mask \in Std :
            Legal(mask) /\ wifiApData' = [wifiApData EXCEPT !.IeeeStdMask = mask]
      BY <1>6 DEF setIeeeStandard
    <2>2. Idle(c) /\ UNCHANGED <<idx, err, job, hostapdConf, given, alive>>
          /\ agreed' = FALSE
      BY <1>6 DEF setIeeeStandard
    <2>3. /\ wifiApData' \in wifiApT /\ wifiApData'.passphrase = wifiApData.passphrase
          /\ wifiApData'.ssid = wifiApData.ssid /\ wifiApData'.IeeeStdMask = mask
      BY <1>1, <2>1, StoreMask, DataAssumption DEF wifiApT
    <2>4. \E mode \in HardwareMode : Hardware(mask) = {mode}
      BY <2>1 DEF Legal, Hardware
    <2> QED BY <1>1, <2>2, <2>3, <2>4, ActiveLemma, FinishLemma, VerbStepInv
  <1> QED BY <1>2, <1>3, <1>4, <1>5, <1>6, AcceptedLemma

\* The store of one bound.
LEMMA BoundStoreLemma ==
  ASSUME DataInv, NEW hw
  PROVE  /\ LET w == [wifiApData EXCEPT !.MIN_CHANNEL_VALUE = MinFor(hw, @)] IN
              /\ w \in wifiApT /\ w.ssid = wifiApData.ssid
              /\ w.passphrase = wifiApData.passphrase
              /\ w.IeeeStdMask = wifiApData.IeeeStdMask
              /\ w.MIN_CHANNEL_VALUE = MinFor(hw, wifiApData.MIN_CHANNEL_VALUE)
         /\ LET w == [wifiApData EXCEPT !.MAX_CHANNEL_VALUE = MaxFor(hw, @)] IN
              /\ w \in wifiApT /\ w.ssid = wifiApData.ssid
              /\ w.passphrase = wifiApData.passphrase
              /\ w.IeeeStdMask = wifiApData.IeeeStdMask
              /\ w.MIN_CHANNEL_VALUE = wifiApData.MIN_CHANNEL_VALUE
              /\ w.MAX_CHANNEL_VALUE = MaxFor(hw, wifiApData.MAX_CHANNEL_VALUE)
  <1> DEFINE lo == MinFor(hw, wifiApData.MIN_CHANNEL_VALUE)
             hi == MaxFor(hw, wifiApData.MAX_CHANNEL_VALUE)
  <1>1. wifiApData \in wifiApT
    BY DEF DataInv, DataTypeOK
  <1>2. lo \in {0, 1, 7} /\ hi \in {0, 6, 14, 196}
    BY <1>1, BoundsTypeLemma DEF wifiApT
  <1> HIDE DEF lo, hi
  <1>3. LET w == [wifiApData EXCEPT !.MIN_CHANNEL_VALUE = lo] IN
          /\ w \in wifiApT /\ w.ssid = wifiApData.ssid
          /\ w.passphrase = wifiApData.passphrase
          /\ w.IeeeStdMask = wifiApData.IeeeStdMask
          /\ w.MIN_CHANNEL_VALUE = lo
    BY <1>1, <1>2 DEF wifiApT
  <1>4. LET w == [wifiApData EXCEPT !.MAX_CHANNEL_VALUE = hi] IN
          /\ w \in wifiApT /\ w.ssid = wifiApData.ssid
          /\ w.passphrase = wifiApData.passphrase
          /\ w.IeeeStdMask = wifiApData.IeeeStdMask
          /\ w.MIN_CHANNEL_VALUE = wifiApData.MIN_CHANNEL_VALUE
          /\ w.MAX_CHANNEL_VALUE = hi
    BY <1>1, <1>2 DEF wifiApT
  <1> QED BY <1>3, <1>4 DEF lo, hi

LEMMA setChannelInv ==
  ASSUME DataInv, NEW c \in Caller,
         setChannel(c) \/ setChannelMin(c) \/ setChannelMax(c) \/ setChannelTest(c)
  PROVE  DataInv'
  <1>1. wifiApData \in wifiApT /\ job \in [Caller -> Job] /\ job[c] \in Job
        /\ agreed \in BOOLEAN
        /\ hostapdConf \in [channel: Uint16, key: {"none", "passphrase", "psk"},
                             hw_mode: HardwareMode \cup {"none"}]
    BY DEF DataInv, DataTypeOK
  <1>2. CASE setChannel(c)
    <2>1. PICK n \in Channel :
            job' = [job EXCEPT ![c] = [NoJob EXCEPT !.pc = "min", !.n = n,
                                         !.hw = Hardware(wifiApData.IeeeStdMask)]]
      BY <1>2 DEF setChannel
    <2>2. Idle(c) /\ UNCHANGED <<wifiApData, idx, err, hostapdConf, given, alive>>
          /\ agreed' = FALSE
      BY <1>2 DEF setChannel
    <2> DEFINE new == [NoJob EXCEPT !.pc = "min", !.n = n,
                                    !.hw = Hardware(wifiApData.IeeeStdMask)]
    <2>3. new \in Job /\ new.result = "none"
      <3>1. n \in Nat
        BY <2>1, DataAssumption
      <3>2. Hardware(wifiApData.IeeeStdMask) \in SUBSET HardwareMode
        BY DEF Hardware
      <3>3. 0 \in Uint16 /\ "min" \in PC
        BY DEF Uint16, PC
      <3> QED BY <3>1, <3>2, <3>3 DEF NoJob, Job
    <2> HIDE DEF new
    <2>4. job' \in [Caller -> Job]
      BY <1>1, <2>1, <2>3 DEF new
    <2>5. StartHasSsidAndKey'
      BY <1>1, <2>1, <2>3 DEF new, DataInv, StartHasSsidAndKey
    <2> QED BY <1>1, <2>2, <2>4, <2>5, ActiveLemma, VerbStepInv
  <1>3. CASE setChannelMin(c)
    <2>1. /\ job[c].pc # "idle" /\ Jump(c, "max")
          /\ UNCHANGED <<idx, err, hostapdConf, given, agreed, alive>>
          /\ wifiApData' = [wifiApData EXCEPT !.MIN_CHANNEL_VALUE = MinFor(job[c].hw, @)]
      BY <1>3 DEF setChannelMin, At
    <2>2. job' \in [Caller -> Job]
      BY <1>1, <2>1, JobTypes DEF PC
    <2> QED BY <1>1, <2>1, <2>2, ActiveLemma, FinishLemma, BoundStoreLemma, VerbStepInv
  <1>4. CASE setChannelMax(c)
    <2>1. /\ job[c].pc # "idle" /\ Jump(c, "test")
          /\ UNCHANGED <<idx, err, hostapdConf, given, agreed, alive>>
          /\ wifiApData' = [wifiApData EXCEPT !.MAX_CHANNEL_VALUE = MaxFor(job[c].hw, @)]
      BY <1>4 DEF setChannelMax, At
    <2>2. job' \in [Caller -> Job]
      BY <1>1, <2>1, JobTypes DEF PC
    <2> QED BY <1>1, <2>1, <2>2, ActiveLemma, FinishLemma, BoundStoreLemma, VerbStepInv
  <1>5. CASE setChannelTest(c)
    <2>1. /\ job[c].pc # "idle" /\ Finish(c, "none")
          /\ UNCHANGED <<idx, err, hostapdConf, given, alive>>
          /\ \/ wifiApData' = [wifiApData EXCEPT !.channelNumber = uint16_t(job[c].n)]
                /\ agreed' = TRUE
             \/ UNCHANGED <<wifiApData, agreed>>
      BY <1>5 DEF setChannelTest, At
    <2>2. job' \in [Caller -> Job]
      BY <1>1, <2>1, JobTypes
    <2>3. uint16_t(job[c].n) \in Uint16
      BY <1>1, UintLemma DEF Job
    <2>4. /\ wifiApData' \in wifiApT /\ wifiApData'.passphrase = wifiApData.passphrase
          /\ wifiApData'.ssid = wifiApData.ssid
          /\ wifiApData'.IeeeStdMask = wifiApData.IeeeStdMask
      BY <1>1, <2>1, <2>3, StoreChannel DEF wifiApT
    <2>5. agreed' \in BOOLEAN
      BY <1>1, <2>1
    <2> QED BY <1>1, <2>1, <2>2, <2>4, <2>5, ActiveLemma, FinishLemma, VerbStepInv
  <1> QED BY <1>2, <1>3, <1>4, <1>5

\* start: the tests and the configuration file.
LEMMA StartStepInv ==
  ASSUME DataInv, NEW c \in Caller, StartStep(c) PROVE DataInv'
  <1> DEFINE HostapdConf == [channel: Uint16, key: {"none", "passphrase", "psk"},
                             hw_mode: HardwareMode \cup {"none"}]
  <1>1. wifiApData \in wifiApT /\ job \in [Caller -> Job] /\ job[c] \in Job
        /\ agreed \in BOOLEAN
        /\ hostapdConf \in HostapdConf
    BY DEF DataInv, DataTypeOK
  <1>2. NoConf \in HostapdConf
    BY DEF NoConf, Uint16
  <1>3. idx = 8 /\ ~err /\ wifiApData.ssid # 0 /\ wifiApData.passphrase # 0
        /\ \E mode \in HardwareMode : Hardware(wifiApData.IeeeStdMask) = {mode}
    BY ActiveLemma DEF StartStep, StartSsid, StartMin, StartMax, ConfCommon, ConfSecurity,
       ConfIeee, At
  <1>4. KeepData
    BY DEF StartStep, StartSsid, StartMin, StartMax, ConfCommon, ConfSecurity, ConfIeee
  <1>5. ASSUME hostapdConf' \in HostapdConf,
               \/ \E pc \in PC : Jump(c, pc)
               \/ \E result \in {"none", "ok", "channel", "file"} : Finish(c, result)
        PROVE  DataInv'
    <2>1. job' \in [Caller -> Job] /\ StartHasSsidAndKey'
      BY <1>1, <1>5, JobTypes, FinishLemma
    <2> QED BY <1>1, <1>3, <1>4, <1>5, <2>1, VerbStepInv DEF KeepData
  <1>6. CASE StartSsid(c) \/ StartMin(c) \/ StartMax(c)
    BY <1>1, <1>3, <1>5, <1>6 DEF StartSsid, StartMin, StartMax, PC
  <1>7. CASE ConfCommon(c)
    <2>1. CASE Finish(c, "file") /\ hostapdConf' \in {hostapdConf, NoConf}
      BY <1>1, <1>2, <1>5, <2>1
    <2>2. CASE /\ job' = [job EXCEPT ![c].pc = "security",
                                     ![c].channel = wifiApData.channelNumber]
               /\ hostapdConf' = NoConf
      <3> DEFINE new == [job[c] EXCEPT !.pc = "security",
                                       !.channel = wifiApData.channelNumber]
      <3>1. new \in Job /\ new.result = job[c].result
        BY <1>1 DEF Job, wifiApT, PC
      <3>2. job' = [job EXCEPT ![c] = new]
        BY <2>2
      <3> HIDE DEF new
      <3>3. job' \in [Caller -> Job] /\ StartHasSsidAndKey'
        BY <1>1, <3>1, <3>2 DEF DataInv, StartHasSsidAndKey
      <3> QED BY <1>1, <1>2, <1>3, <1>4, <2>2, <3>3, VerbStepInv DEF KeepData
    <2> QED BY <1>7, <2>1, <2>2 DEF ConfCommon
  <1>8. CASE ConfSecurity(c)
    <2>1. CASE Finish(c, "file") /\ hostapdConf' = NoConf
      BY <1>2, <1>5, <2>1
    <2>2. ASSUME NEW key \in {"none", "passphrase"},
                 job' = [job EXCEPT ![c].pc = "ieee", ![c].key = key], UNCHANGED hostapdConf
          PROVE  DataInv'
      <3> DEFINE new == [job[c] EXCEPT !.pc = "ieee", !.key = key]
      <3>1. new \in Job /\ new.result = job[c].result
        BY <1>1 DEF Job, PC
      <3>2. job' = [job EXCEPT ![c] = new]
        BY <2>2
      <3> HIDE DEF new
      <3>3. job' \in [Caller -> Job] /\ StartHasSsidAndKey'
        BY <1>1, <3>1, <3>2 DEF DataInv, StartHasSsidAndKey
      <3> QED BY <1>1, <1>3, <1>4, <2>2, <3>3, VerbStepInv DEF KeepData
    <2> QED BY <1>3, <1>8, <2>1, <2>2 DEF ConfSecurity, ChosenKey
  <1>9. CASE ConfIeee(c)
    <2>1. CASE Finish(c, "file") /\ hostapdConf' = NoConf
      BY <1>2, <1>5, <2>1
    <2>2. ASSUME NEW mode \in HardwareMode, Finish(c, "ok"),
                 hostapdConf' = [channel |-> job[c].channel, key |-> job[c].key,
                                 hw_mode |-> mode]
          PROVE  DataInv'
      <3>1. hostapdConf' \in HostapdConf
        BY <1>1, <2>2 DEF Job
      <3> QED BY <1>5, <2>2, <3>1
    <2>3. PICK mode \in HardwareMode : Hardware(wifiApData.IeeeStdMask) = {mode}
      BY <1>3
    <2>4. (CHOOSE m \in HardwareMode : Hardware(wifiApData.IeeeStdMask) = {m}) = mode
      BY <2>3
    <2> QED BY <1>9, <2>1, <2>2, <2>3, <2>4 DEF ConfIeee
  <1> QED BY <1>6, <1>7, <1>8, <1>9 DEF StartStep

THEOREM DataInvariance == Spec => []DataInv
  <1>1. Init => DataInv
    <2> SUFFICES ASSUME Init PROVE DataInv
      OBVIOUS
    <2>1. Calloc \in wifiApT
      BY DEF Calloc, wifiApT, Uint16
    <2>2. NoJob \in Job /\ NoJob.result = "none"
      BY DEF NoJob, Job, PC, Uint16
    <2>3. hostapdConf \in [channel: Uint16, key: {"none", "passphrase", "psk"},
                           hw_mode: HardwareMode \cup {"none"}]
      BY DEF Init, NoConf, Uint16
    <2>4. given \in [others: BOOLEAN, mask: SUBSET Bit, channel: Nat]
      BY DEF Init
    <2>5. /\ wifiApData = Calloc /\ job = [c \in Caller |-> NoJob]
          /\ idx = 1 /\ err = FALSE /\ agreed = FALSE /\ alive = TRUE
      BY DEF Init
    <2>6. DataTypeOK
      <3>1. wifiApData \in wifiApT /\ job \in [Caller -> Job]
        BY <2>1, <2>2, <2>5
      <3>2. idx \in 1..8
        BY <2>5
      <3>3. err \in BOOLEAN /\ agreed \in BOOLEAN /\ alive \in BOOLEAN
        BY <2>5
      <3> QED BY <2>3, <2>4, <3>1, <3>2, <3>3 DEF DataTypeOK
    <2>7. Quiescent /\ StartHasSsidAndKey
      BY <2>2, <2>5 DEF Quiescent, StartHasSsidAndKey
    <2>8. Configured /\ Refusal
      BY <2>5, DescsLength DEF Configured, Refusal, GoodConfigAccepted
    <2> QED BY <2>6, <2>7, <2>8 DEF DataInv
  <1>2. DataInv /\ [Next]_vars => DataInv'
    <2> SUFFICES ASSUME DataInv, [Next]_vars PROVE DataInv'
      OBVIOUS
    <2>1. CASE UNCHANGED vars
      BY <2>1 DEF vars, DataInv, DataTypeOK, Quiescent, Configured, Refusal,
         GoodConfigAccepted, StartHasSsidAndKey
    <2>2. CASE createWifiApData
      BY <2>2, createWifiApDataInv
    <2>3. ASSUME NEW c \in Caller, SetterStep(c) PROVE DataInv'
      BY <2>3, SimpleSetterInv, setChannelInv DEF SetterStep
    <2>4. ASSUME NEW c \in Caller, StartStep(c) PROVE DataInv'
      BY <2>4, StartStepInv
    <2> QED BY <2>1, <2>2, <2>3, <2>4 DEF Next
  <1> QED BY <1>1, <1>2, PTL DEF Spec

\* Type correctness.
THEOREM DataTypeCorrect == Spec => []DataTypeOK
  BY DataInvariance, PTL DEF DataInv

\* createWifiApData refuses no configuration whose channel is one of the hardware mode
\* of its mask.
THEOREM ConfigAccepted == Spec => []GoodConfigAccepted
  BY DataInvariance, PTL DEF DataInv, Refusal

\* startAp never finds the SSID or the key missing.
THEOREM StartFindsSsidAndKey == Spec => []StartHasSsidAndKey
  BY DataInvariance, PTL DEF DataInv

\* The key a start has chosen, and the one it wrote.
KeyInv == PskBranchDead /\ \A c \in Caller : job[c].key # "psk"

LEMMA KeyStep ==
  ASSUME DataInv, KeyInv, [Next]_vars PROVE KeyInv'
  <1>1. job \in [Caller -> Job] /\ NoJob.key # "psk" /\ NoConf.key # "psk"
    BY DEF DataInv, DataTypeOK, NoJob, NoConf
  <1>2. ASSUME NEW c \in Caller, NEW new, job' = [job EXCEPT ![c] = new],
               new.key # "psk" \/ new.key = job[c].key,
               hostapdConf' = hostapdConf \/ hostapdConf'.key # "psk"
        PROVE  KeyInv'
    BY <1>1, <1>2 DEF KeyInv, PskBranchDead
  <1>3. ASSUME NEW c \in Caller, NEW result, Finish(c, result),
               hostapdConf' = hostapdConf \/ hostapdConf'.key # "psk"
        PROVE  KeyInv'
    <2> DEFINE new == [NoJob EXCEPT !.result = result]
    <2>1. new.key # "psk" /\ job' = [job EXCEPT ![c] = new]
      BY <1>3 DEF NoJob, Finish
    <2> QED BY <1>2, <1>3, <2>1
  <1>4. ASSUME NEW c \in Caller, NEW pc, Jump(c, pc), UNCHANGED hostapdConf PROVE KeyInv'
    <2> DEFINE new == [job[c] EXCEPT !.pc = pc]
    <2>1. new.key = job[c].key /\ job' = [job EXCEPT ![c] = new]
      BY <1>1, <1>4 DEF Jump, Job
    <2> QED BY <1>2, <1>4, <2>1
  <1>5. CASE UNCHANGED <<job, hostapdConf>>
    BY <1>5 DEF KeyInv, PskBranchDead
  <1>6. CASE createWifiApData
    BY <1>5, <1>6 DEF createWifiApData, ReadOther, ReadString, ReadPreSharedKey,
       ReadIeeeStdMask, ReadChannelNumber, NextKey, GiveUp
  <1>7. ASSUME NEW c \in Caller, SetterStep(c) PROVE KeyInv'
    <2>1. CASE setChannel(c)
      <3>1. PICK n \in Channel :
              job' = [job EXCEPT ![c] = [NoJob EXCEPT !.pc = "min", !.n = n,
                                           !.hw = Hardware(wifiApData.IeeeStdMask)]]
        BY <2>1 DEF setChannel
      <3> DEFINE new == [NoJob EXCEPT !.pc = "min", !.n = n,
                                      !.hw = Hardware(wifiApData.IeeeStdMask)]
      <3>2. new.key # "psk" /\ job' = [job EXCEPT ![c] = new] /\ UNCHANGED hostapdConf
        BY <2>1, <3>1 DEF NoJob, setChannel
      <3> QED BY <1>2, <3>2
    <2>2. CASE setChannelMin(c) \/ setChannelMax(c) \/ setChannelTest(c)
      BY <1>3, <1>4, <2>2 DEF setChannelMin, setChannelMax, setChannelTest
    <2> QED BY <1>5, <1>7, <2>1, <2>2 DEF SetterStep, setString, setPreSharedKey,
           setSecurityProtocol, setIeeeStandard
  <1>8. ASSUME NEW c \in Caller, StartStep(c) PROVE KeyInv'
    <2>1. CASE StartSsid(c) \/ StartMin(c) \/ StartMax(c)
      BY <1>3, <1>4, <2>1 DEF StartSsid, StartMin, StartMax
    <2>2. CASE ConfCommon(c)
      <3>1. CASE /\ job' = [job EXCEPT ![c].pc = "security",
                                       ![c].channel = wifiApData.channelNumber]
                 /\ hostapdConf' = NoConf
        <4> DEFINE new == [job[c] EXCEPT !.pc = "security",
                                         !.channel = wifiApData.channelNumber]
        <4>1. new.key = job[c].key /\ job' = [job EXCEPT ![c] = new]
          BY <1>1, <3>1 DEF Job
        <4> QED BY <1>1, <1>2, <3>1, <4>1
      <3> QED BY <1>1, <1>3, <2>2, <3>1 DEF ConfCommon
    <2>3. CASE ConfSecurity(c)
      <3>1. wifiApData.passphrase # 0
        BY <2>3, ActiveLemma DEF ConfSecurity, At
      <3>2. ASSUME NEW key \in {"none", "passphrase"},
                   job' = [job EXCEPT ![c].pc = "ieee", ![c].key = key], UNCHANGED hostapdConf
            PROVE  KeyInv'
        <4> DEFINE new == [job[c] EXCEPT !.pc = "ieee", !.key = key]
        <4>1. new.key # "psk" /\ job' = [job EXCEPT ![c] = new]
          BY <1>1, <3>2 DEF Job
        <4> QED BY <1>2, <3>2, <4>1
      <3> QED BY <1>1, <1>3, <2>3, <3>1, <3>2 DEF ConfSecurity, ChosenKey
    <2>4. CASE ConfIeee(c)
      <3>1. CASE /\ hostapdConf'.key = job[c].key /\ Finish(c, "ok")
        BY <1>3, <3>1 DEF KeyInv
      <3> QED BY <1>1, <1>3, <2>4, <3>1 DEF ConfIeee
    <2> QED BY <1>8, <2>1, <2>2, <2>3, <2>4 DEF StartStep
  <1> QED BY <1>5, <1>6, <1>7, <1>8 DEF Next, vars

\* No start ever gives hostapd the pre-shared key: the passphrase that every accepted
\* configuration has comes first in GenerateHostApConfFile, and no setter takes it away.
THEOREM PreSharedKeyHasNoEffect == Spec => []PskBranchDead
  <1>1. Init => KeyInv
    BY DEF Init, KeyInv, PskBranchDead, NoConf, NoJob
  <1>2. KeyInv => PskBranchDead
    BY DEF KeyInv
  <1> QED BY <1>1, <1>2, KeyStep, DataInvariance, PTL DEF Spec

-----------------------------------------------------------------------------
(* A channel that was accepted can be started, when one client at most changes the   *)
(* parameters.                                                                       *)

OneSetter == \A c, d \in Setter : c = d

InSetChannel == {"min", "max", "test"}

\* What a call of setChannel has stored so far.  It is the only call that changes the
\* mask or the bounds.
SetChannelInv ==
  \A c \in Caller : job[c].pc \in InSetChannel =>
    /\ c \in Setter /\ ~agreed
    /\ job[c].hw = Hardware(wifiApData.IeeeStdMask)
    /\ job[c].pc \in {"max", "test"} =>
         wifiApData.MIN_CHANNEL_VALUE = MinFor(job[c].hw, wifiApData.MIN_CHANNEL_VALUE)
    /\ job[c].pc = "test" =>
         wifiApData.MAX_CHANNEL_VALUE = MaxFor(job[c].hw, wifiApData.MAX_CHANNEL_VALUE)

\* What the channel that was accepted satisfies.
AgreedInRange ==
  agreed /\ idx = 8 /\ ~err =>
    /\ InRange(wifiApData.channelNumber, wifiApData.IeeeStdMask)
    /\ wifiApData.MIN_CHANNEL_VALUE <= wifiApData.channelNumber
    /\ wifiApData.channelNumber <= wifiApData.MAX_CHANNEL_VALUE

\* The bounds of one hardware mode do not depend on those that were there.
LEMMA FixedBounds ==
  ASSUME NEW hw, \E mode \in HardwareMode : hw = {mode}, NEW old, NEW older
  PROVE  MinFor(hw, old) = MinFor(hw, older) /\ MaxFor(hw, old) = MaxFor(hw, older)
  BY DEF MinFor, MaxFor

\* While the setter is idle no call of setChannel is in progress.
LEMMA NoneInSetChannel ==
  ASSUME OneSetter, SetChannelInv, NEW c \in Setter, job[c].pc \notin InSetChannel
  PROVE  \A d \in Caller : job[d].pc \notin InSetChannel
  BY DEF OneSetter, SetChannelInv

\* A step that leaves the parameters alone and keeps its caller out of setChannel.
LEMMA OutsideSetChannel ==
  ASSUME job \in [Caller -> Job], SetChannelInv, NEW c \in Caller, NEW new,
         job' = [job EXCEPT ![c] = new], new.pc \notin InSetChannel,
         UNCHANGED <<wifiApData, agreed>>
  PROVE  SetChannelInv'
  <1>1. ASSUME NEW d \in Caller, job'[d].pc \in InSetChannel PROVE job'[d] = job[d]
    BY <1>1
  <1> QED BY <1>1 DEF SetChannelInv

LEMMA ReadChannelAgreed ==
  ASSUME DataInv, idx = 7, idx' = 8, ReadChannelNumber PROVE AgreedInRange'
  <1> DEFINE hw == Hardware(wifiApData.IeeeStdMask)
             lo == MinFor(hw, wifiApData.MIN_CHANNEL_VALUE)
             hi == MaxFor(hw, wifiApData.MAX_CHANNEL_VALUE)
             bounded == [wifiApData EXCEPT !.MIN_CHANNEL_VALUE = lo, !.MAX_CHANNEL_VALUE = hi]
  <1>1. wifiApData \in wifiApT /\ err \in BOOLEAN
    BY DEF DataInv, DataTypeOK
  <1>2. CASE Refused
    BY <1>2 DEF Refused, AgreedInRange
  <1>3. ASSUME NEW n \in Channel, agreed', ~err,
               wifiApData' = [bounded EXCEPT !.channelNumber = uint16_t(n)],
               lo <= n /\ n <= hi
        PROVE  AgreedInRange'
    <2>1. \E mode \in HardwareMode : hw = {mode}
      BY <1>3 DEF DataInv, Configured
    <2>2. lo \in {1, 7} /\ hi \in {6, 14, 196} /\ n \in Nat
          /\ InRange(n, wifiApData.IeeeStdMask)
      <3>1. n \in Nat
        BY <1>3, DataAssumption
      <3>2. /\ lo \in {1, 7} /\ hi \in {6, 14, 196}
        BY <2>1, BoundsLemma
      <3>3. ASSUME NEW old, NEW older
            PROVE  MinFor(hw, old) = MinFor(hw, older) /\ MaxFor(hw, old) = MaxFor(hw, older)
        BY <2>1, FixedBounds
      <3>4. \A k \in Nat : lo <= k /\ k <= hi => InRange(k, wifiApData.IeeeStdMask)
        <4>1. hi = MaxFor(hw, wifiApData.MIN_CHANNEL_VALUE)
          BY <3>3
        <4> QED BY <2>1, <4>1, BoundsLemma
      <3> QED BY <1>3, <3>1, <3>2, <3>4
    <2>3. uint16_t(n) = n
      BY <1>3, <2>2, UintLemma
    <2> HIDE DEF lo, hi
    <2>4. /\ wifiApData'.channelNumber = n /\ wifiApData'.MIN_CHANNEL_VALUE = lo
          /\ wifiApData'.MAX_CHANNEL_VALUE = hi
          /\ wifiApData'.IeeeStdMask = wifiApData.IeeeStdMask
      BY <1>1, <1>3, <2>3 DEF wifiApT
    <2> QED BY <1>3, <2>2, <2>4 DEF AgreedInRange
  <1>4. CASE \E n \in Channel :
               /\ agreed' = (lo <= n /\ n <= hi)
               /\ wifiApData' = IF agreed' THEN [bounded EXCEPT !.channelNumber = uint16_t(n)]
                                ELSE bounded
               /\ err' = (err \/ ~agreed')
    <2>1. PICK n \in Channel :
               /\ agreed' = (lo <= n /\ n <= hi)
               /\ wifiApData' = IF agreed' THEN [bounded EXCEPT !.channelNumber = uint16_t(n)]
                                ELSE bounded
               /\ err' = (err \/ ~agreed')
      BY <1>4
    <2> HIDE DEF lo, hi, bounded
    <2>2. CASE agreed' /\ ~err'
      BY <1>3, <2>1, <2>2
    <2>3. CASE ~(agreed' /\ ~err')
      BY <2>3 DEF AgreedInRange
    <2> QED BY <2>2, <2>3
  <1> HIDE DEF lo, hi, bounded
  <1> QED BY <1>2, <1>4 DEF ReadChannelNumber, lo, hi, bounded, hw

LEMMA ReadAgreed ==
  ASSUME DataInv, SetChannelInv, AgreedInRange, createWifiApData
  PROVE  SetChannelInv' /\ AgreedInRange'
  <1>1. idx \in 1..8 /\ err \in BOOLEAN /\ agreed \in BOOLEAN /\ wifiApData \in wifiApT
    BY DEF DataInv, DataTypeOK
  <1>2. CASE GiveUp
    <2>1. err /\ idx > 7 /\ UNCHANGED <<wifiApData, idx, err, job, agreed>>
      BY <1>2, DescsLength DEF GiveUp
    <2> QED BY <2>1 DEF SetChannelInv, AgreedInRange
  <1>3. CASE ~GiveUp
    <2>1. idx <= 7 /\ idx' = idx + 1 /\ UNCHANGED job
      BY <1>3, <1>1, DescsLength DEF createWifiApData, ReadOther, ReadString,
         ReadPreSharedKey, ReadIeeeStdMask, ReadChannelNumber, Reading, NextKey
    <2>2. SetChannelInv'
      BY <2>1 DEF DataInv, Quiescent, NoJob, SetChannelInv, InSetChannel
    <2>3. CASE idx # 7
      BY <1>1, <2>1, <2>2, <2>3 DEF AgreedInRange
    <2>4. CASE idx = 7
      <3>1. ReadChannelNumber
        <4>1. descs[idx] = "channelNumber"
          BY <2>4, DescsOrder
        <4> QED BY <1>3, <4>1 DEF createWifiApData, ReadOther, ReadString,
                   ReadPreSharedKey, ReadIeeeStdMask, Reading
      <3> QED BY <1>1, <2>1, <2>2, <2>4, <3>1, ReadChannelAgreed
    <2> QED BY <2>3, <2>4
  <1> QED BY <1>2, <1>3

LEMMA SetterAgreed ==
  ASSUME OneSetter, DataInv, SetChannelInv, AgreedInRange,
         NEW c \in Caller, SetterStep(c)
  PROVE  SetChannelInv' /\ AgreedInRange'
  <1>1. /\ wifiApData \in wifiApT /\ job \in [Caller -> Job] /\ job[c] \in Job
        /\ idx = 8 /\ ~err
        /\ \E mode \in HardwareMode : Hardware(wifiApData.IeeeStdMask) = {mode}
    <2>1. Idle(c) \/ job[c].pc # "idle"
      BY DEF SetterStep, setString, setPreSharedKey, setSecurityProtocol, setIeeeStandard,
         setChannel, setChannelMin, setChannelMax, setChannelTest, At
    <2> QED BY <2>1, ActiveLemma DEF DataInv, DataTypeOK
  <1>2. CASE (\E field \in DOMAIN Accepted : setString(c, field))
             \/ setPreSharedKey(c) \/ setSecurityProtocol(c)
    <2>1. UNCHANGED <<job, agreed, idx, err>>
      BY <1>2 DEF setString, setPreSharedKey, setSecurityProtocol
    <2>2. /\ wifiApData'.MIN_CHANNEL_VALUE = wifiApData.MIN_CHANNEL_VALUE
          /\ wifiApData'.MAX_CHANNEL_VALUE = wifiApData.MAX_CHANNEL_VALUE
          /\ wifiApData'.IeeeStdMask = wifiApData.IeeeStdMask
          /\ wifiApData'.channelNumber = wifiApData.channelNumber
      BY <1>1, <1>2 DEF setString, setPreSharedKey, setSecurityProtocol, Accepted, wifiApT
    <2> QED BY <2>1, <2>2 DEF SetChannelInv, AgreedInRange
  <1>3. CASE setIeeeStandard(c) \/ setChannel(c)
    <2>1. c \in Setter /\ job[c].pc = "idle" /\ agreed' = FALSE
      BY <1>3 DEF setIeeeStandard, setChannel, Idle
    <2>2. \A d \in Caller : job[d].pc \notin InSetChannel
      BY <2>1, NoneInSetChannel DEF InSetChannel
    <2>3. AgreedInRange'
      BY <2>1 DEF AgreedInRange
    <2>4. CASE setIeeeStandard(c)
      BY <2>2, <2>3, <2>4 DEF setIeeeStandard, SetChannelInv
    <2>5. CASE setChannel(c)
      <3>1. PICK n \in Channel :
              job' = [job EXCEPT ![c] = [NoJob EXCEPT !.pc = "min", !.n = n,
                                           !.hw = Hardware(wifiApData.IeeeStdMask)]]
        BY <2>5 DEF setChannel
      <3>2. job'[c].pc = "min" /\ job'[c].hw = Hardware(wifiApData.IeeeStdMask)
            /\ wifiApData' = wifiApData
        BY <1>1, <2>5, <3>1 DEF NoJob, setChannel
      <3>3. \A d \in Caller : d # c => job'[d] = job[d]
        BY <1>1, <3>1
      <3> QED BY <2>1, <2>2, <2>3, <3>2, <3>3 DEF SetChannelInv
    <2> QED BY <1>3, <2>4, <2>5
  <1>4. ASSUME setChannelMin(c) \/ setChannelMax(c) \/ setChannelTest(c)
        PROVE  /\ c \in Setter /\ ~agreed
               /\ job[c].hw = Hardware(wifiApData.IeeeStdMask)
               /\ \A d \in Caller : d # c => job[d].pc \notin InSetChannel
    <2>1. job[c].pc \in InSetChannel
      BY <1>4 DEF setChannelMin, setChannelMax, setChannelTest, At, InSetChannel
    <2> QED BY <2>1 DEF SetChannelInv, OneSetter
  <1>5. CASE setChannelMin(c)
    <2>1. /\ wifiApData' = [wifiApData EXCEPT !.MIN_CHANNEL_VALUE = MinFor(job[c].hw, @)]
          /\ job' = [job EXCEPT ![c].pc = "max"] /\ agreed' = agreed
      BY <1>5 DEF setChannelMin, Jump
    <2>2. job'[c].pc = "max" /\ job'[c].hw = job[c].hw
          /\ \A d \in Caller : d # c => job'[d] = job[d]
      BY <1>1, <2>1 DEF Job
    <2>3. /\ wifiApData'.IeeeStdMask = wifiApData.IeeeStdMask
          /\ wifiApData'.MIN_CHANNEL_VALUE = MinFor(job[c].hw, wifiApData.MIN_CHANNEL_VALUE)
      BY <1>1, <2>1 DEF wifiApT
    <2>4. wifiApData'.MIN_CHANNEL_VALUE = MinFor(job[c].hw, wifiApData'.MIN_CHANNEL_VALUE)
      BY <1>1, <1>4, <1>5, <2>3, FixedBounds
    <2> QED BY <1>4, <1>5, <2>1, <2>2, <2>3, <2>4 DEF SetChannelInv, AgreedInRange
  <1>6. CASE setChannelMax(c)
    <2>1. /\ wifiApData' = [wifiApData EXCEPT !.MAX_CHANNEL_VALUE = MaxFor(job[c].hw, @)]
          /\ job' = [job EXCEPT ![c].pc = "test"] /\ agreed' = agreed
          /\ job[c].pc = "max"
      BY <1>6 DEF setChannelMax, Jump, At
    <2>2. job'[c].pc = "test" /\ job'[c].hw = job[c].hw
          /\ \A d \in Caller : d # c => job'[d] = job[d]
      BY <1>1, <2>1 DEF Job
    <2>3. /\ wifiApData'.IeeeStdMask = wifiApData.IeeeStdMask
          /\ wifiApData'.MIN_CHANNEL_VALUE = wifiApData.MIN_CHANNEL_VALUE
          /\ wifiApData'.MAX_CHANNEL_VALUE = MaxFor(job[c].hw, wifiApData.MAX_CHANNEL_VALUE)
      BY <1>1, <2>1 DEF wifiApT
    <2>4. wifiApData'.MAX_CHANNEL_VALUE = MaxFor(job[c].hw, wifiApData'.MAX_CHANNEL_VALUE)
      BY <1>1, <1>4, <1>6, <2>3, FixedBounds
    <2>5. wifiApData'.MIN_CHANNEL_VALUE = MinFor(job[c].hw, wifiApData'.MIN_CHANNEL_VALUE)
      BY <2>1, <2>3 DEF SetChannelInv, InSetChannel
    <2> QED BY <1>4, <1>6, <2>1, <2>2, <2>3, <2>4, <2>5 DEF SetChannelInv, AgreedInRange
  <1>7. CASE setChannelTest(c)
    <2>1. job[c].pc = "test" /\ Finish(c, "none")
      BY <1>7 DEF setChannelTest, At
    <2>2. /\ wifiApData.MIN_CHANNEL_VALUE = MinFor(job[c].hw, wifiApData.MIN_CHANNEL_VALUE)
          /\ wifiApData.MAX_CHANNEL_VALUE = MaxFor(job[c].hw, wifiApData.MAX_CHANNEL_VALUE)
      BY <2>1 DEF SetChannelInv, InSetChannel
    <2>3. \A d \in Caller : job'[d].pc \notin InSetChannel
      BY <1>1, <1>4, <1>7, <2>1 DEF Finish, NoJob, InSetChannel
    <2>4. SetChannelInv'
      BY <2>3 DEF SetChannelInv
    <2>5. CASE UNCHANGED <<wifiApData, agreed>>
      BY <1>4, <1>7, <2>4, <2>5 DEF AgreedInRange
    <2>6. CASE /\ wifiApData.MIN_CHANNEL_VALUE <= job[c].n
               /\ job[c].n <= wifiApData.MAX_CHANNEL_VALUE
               /\ wifiApData' = [wifiApData EXCEPT !.channelNumber = uint16_t(job[c].n)]
      <3>1. InRange(job[c].n, wifiApData.IeeeStdMask) /\ job[c].n \in Nat
        <4>1. job[c].n \in Nat /\ job[c].hw = Hardware(wifiApData.IeeeStdMask)
          BY <1>1, <1>4, <1>7 DEF Job
        <4>2. /\ wifiApData.MIN_CHANNEL_VALUE = MinFor(job[c].hw, 0)
              /\ wifiApData.MAX_CHANNEL_VALUE = MaxFor(job[c].hw, 0)
          BY <1>1, <2>2, <4>1, FixedBounds
        <4>3. \A n \in Nat : MinFor(job[c].hw, 0) <= n /\ n <= MaxFor(job[c].hw, 0)
                             => InRange(n, wifiApData.IeeeStdMask)
          BY <1>1, <4>1, BoundsLemma
        <4> QED BY <2>6, <4>1, <4>2, <4>3
      <3>2. uint16_t(job[c].n) = job[c].n
        BY <1>1, <2>6, <3>1, UintLemma DEF wifiApT
      <3>3. /\ wifiApData'.channelNumber = job[c].n
            /\ wifiApData'.MIN_CHANNEL_VALUE = wifiApData.MIN_CHANNEL_VALUE
            /\ wifiApData'.MAX_CHANNEL_VALUE = wifiApData.MAX_CHANNEL_VALUE
            /\ wifiApData'.IeeeStdMask = wifiApData.IeeeStdMask
        BY <1>1, <2>6, <3>2 DEF wifiApT
      <3> QED BY <2>4, <2>6, <3>1, <3>3 DEF AgreedInRange
    <2> QED BY <1>7, <2>2, <2>5, <2>6 DEF setChannelTest
  <1> QED BY <1>2, <1>3, <1>5, <1>6, <1>7 DEF SetterStep

LEMMA StartAgreed ==
  ASSUME DataInv, SetChannelInv, AgreedInRange, NEW c \in Caller, StartStep(c)
  PROVE  SetChannelInv' /\ AgreedInRange'
  <1>1. UNCHANGED <<wifiApData, idx, err, agreed>>
    BY DEF StartStep, StartSsid, StartMin, StartMax, ConfCommon, ConfSecurity, ConfIeee,
       KeepData
  <1>2. AgreedInRange'
    BY <1>1 DEF AgreedInRange
  <1>3. job \in [Caller -> Job] /\ job[c] \in Job
    BY DEF DataInv, DataTypeOK
  <1>4. ASSUME NEW result, Finish(c, result) PROVE SetChannelInv'
    <2>1. [NoJob EXCEPT !.result = result].pc \notin InSetChannel
      BY DEF NoJob, InSetChannel
    <2> QED BY <1>1, <1>3, <1>4, <2>1, OutsideSetChannel DEF Finish
  <1>5. ASSUME NEW new, job' = [job EXCEPT ![c] = new], new.pc \notin InSetChannel
        PROVE  SetChannelInv'
    BY <1>1, <1>3, <1>5, OutsideSetChannel
  <1>6. ASSUME NEW pc, Jump(c, pc), pc \notin InSetChannel PROVE SetChannelInv'
    <2> DEFINE new == [job[c] EXCEPT !.pc = pc]
    <2>1. job' = [job EXCEPT ![c] = new] /\ new.pc = pc
      BY <1>3, <1>6 DEF Jump, Job
    <2> QED BY <1>5, <1>6, <2>1
  <1>7. CASE StartSsid(c) \/ StartMin(c) \/ StartMax(c)
    BY <1>2, <1>4, <1>6, <1>7 DEF StartSsid, StartMin, StartMax, InSetChannel
  <1>8. CASE ConfCommon(c)
    <2>1. CASE job' = [job EXCEPT ![c].pc = "security",
                                  ![c].channel = wifiApData.channelNumber]
      <3> DEFINE new == [job[c] EXCEPT !.pc = "security", !.channel = wifiApData.channelNumber]
      <3>1. job' = [job EXCEPT ![c] = new] /\ new.pc \notin InSetChannel
        BY <1>3, <2>1 DEF Job, InSetChannel
      <3> QED BY <1>2, <1>5, <3>1
    <2> QED BY <1>2, <1>4, <1>8, <2>1 DEF ConfCommon
  <1>9. CASE ConfSecurity(c)
    <2>1. ASSUME NEW key, job' = [job EXCEPT ![c].pc = "ieee", ![c].key = key]
          PROVE  SetChannelInv'
      <3> DEFINE new == [job[c] EXCEPT !.pc = "ieee", !.key = key]
      <3>1. job' = [job EXCEPT ![c] = new] /\ new.pc \notin InSetChannel
        BY <1>3, <2>1 DEF Job, InSetChannel
      <3> QED BY <1>5, <3>1
    <2> QED BY <1>2, <1>4, <1>9, <2>1 DEF ConfSecurity
  <1>10. CASE ConfIeee(c)
    BY <1>2, <1>4, <1>10 DEF ConfIeee
  <1> QED BY <1>7, <1>8, <1>9, <1>10 DEF StartStep

\* The step of startAp that tests the channel.
LEMMA StartTests ==
  ASSUME DataInv, AgreedInRange, [Next]_vars, NEW c \in Caller,
         agreed, job[c].pc \in {"start_min", "start_max"}, job'[c] # job[c]
  PROVE  /\ InRange(wifiApData.channelNumber, wifiApData.IeeeStdMask)
         /\ job'[c].pc \in {"start_max", "common"}
  <1>1. job \in [Caller -> Job] /\ wifiApData \in wifiApT
    BY DEF DataInv, DataTypeOK
  <1>2. /\ InRange(wifiApData.channelNumber, wifiApData.IeeeStdMask)
        /\ wifiApData.MIN_CHANNEL_VALUE <= wifiApData.channelNumber
        /\ wifiApData.channelNumber <= wifiApData.MAX_CHANNEL_VALUE
    BY ActiveLemma DEF AgreedInRange
  <1>3. ~createWifiApData /\ ~UNCHANGED vars
    BY DEF createWifiApData, ReadOther, ReadString, ReadPreSharedKey, ReadIeeeStdMask,
       ReadChannelNumber, GiveUp, NextKey, vars
  <1>4. PICK d \in Caller : SetterStep(d) \/ StartStep(d)
    BY <1>3 DEF Next
  <1>5. d = c
    BY <1>1, <1>4 DEF SetterStep, setString, setPreSharedKey, setSecurityProtocol,
       setIeeeStandard, setChannel, setChannelMin, setChannelMax, setChannelTest,
       StartStep, StartSsid, StartMin, StartMax, ConfCommon, ConfSecurity, ConfIeee,
       Jump, Finish
  <1>6. ~SetterStep(c)
    BY DEF SetterStep, setString, setPreSharedKey, setSecurityProtocol, setIeeeStandard,
       setChannel, setChannelMin, setChannelMax, setChannelTest, Idle, At
  <1>7. StartMin(c) \/ StartMax(c)
    BY <1>4, <1>5, <1>6 DEF StartStep, StartSsid, ConfCommon, ConfSecurity, ConfIeee, Idle,
       At
  <1>8. job'[c].pc \in {"start_max", "common"}
    BY <1>1, <1>2, <1>7 DEF StartMin, StartMax, Jump, Job, wifiApT, Uint16
  <1> QED BY <1>2, <1>8

\* An accepted channel belongs to the hardware mode in use and startAp accepts it, as
\* long as neither setChannel nor setIeeeStandard is called, whatever the other setters
\* and any number of starts do meanwhile.  With two clients that call setters it is
\* false: the bounds of one call may meet the mask of another.
THEOREM AgreedStarts == ASSUME OneSetter PROVE Spec => AgreedChannelStarts
  <1>1. Init => SetChannelInv /\ AgreedInRange
    BY DEF Init, NoJob, SetChannelInv, AgreedInRange, InSetChannel
  <1>2. DataInv /\ SetChannelInv /\ AgreedInRange /\ [Next]_vars
          => SetChannelInv' /\ AgreedInRange'
    <2> SUFFICES ASSUME DataInv, SetChannelInv, AgreedInRange, [Next]_vars
                 PROVE  SetChannelInv' /\ AgreedInRange'
      OBVIOUS
    <2>1. CASE UNCHANGED vars
      BY <2>1 DEF vars, SetChannelInv, AgreedInRange
    <2>2. CASE createWifiApData
      BY <2>2, ReadAgreed
    <2>3. ASSUME NEW c \in Caller, SetterStep(c) PROVE SetChannelInv' /\ AgreedInRange'
      BY <2>3, SetterAgreed
    <2>4. ASSUME NEW c \in Caller, StartStep(c) PROVE SetChannelInv' /\ AgreedInRange'
      BY <2>4, StartAgreed
    <2> QED BY <2>1, <2>2, <2>3, <2>4 DEF Next
  <1>3. DataInv /\ AgreedInRange /\ [Next]_vars
          => [\A c \in Caller :
               agreed /\ job[c].pc \in {"start_min", "start_max"} /\ job'[c] # job[c]
                 => /\ InRange(wifiApData.channelNumber, wifiApData.IeeeStdMask)
                    /\ job'[c].pc \in {"start_max", "common"}]_vars
    BY StartTests
  <1> QED BY <1>1, <1>2, <1>3, DataInvariance, PTL DEF Spec, AgreedChannelStarts

-----------------------------------------------------------------------------
(* hostapd's channel belongs to its hardware mode, as long as setIeeeStandard does not *)
(* change that mode.                                                                   *)

\* setIeeeStandard may be called, for the same hardware mode.
ModeKept ==
  Serving => Hardware(wifiApData'.IeeeStdMask) = Hardware(wifiApData.IeeeStdMask)

Allowed(hw) == MinFor(hw, 0)..MaxFor(hw, 0)

FieldsFit(w) ==
  LET hw == Hardware(w.IeeeStdMask) IN
  /\ w.MIN_CHANNEL_VALUE = MinFor(hw, 0)
  /\ w.MAX_CHANNEL_VALUE = MaxFor(hw, 0)
  /\ w.channelNumber \in Allowed(hw)

JobFits(b, hw) ==
  /\ b.pc \in InSetChannel => b.hw = hw
  /\ b.pc \in {"security", "ieee"} => b.channel \in Allowed(hw)

ConfFits(conf, hw) ==
  conf.hw_mode # "none" => hw = {conf.hw_mode} /\ conf.channel \in Allowed(hw)

ModeInv ==
  /\ idx <= 7 \/ err => hostapdConf.hw_mode = "none"
  /\ idx = 8 /\ ~err =>
       LET hw == Hardware(wifiApData.IeeeStdMask) IN
       /\ FieldsFit(wifiApData)
       /\ \A c \in Caller : JobFits(job[c], hw)
       /\ ConfFits(hostapdConf, hw)

LEMMA BoundsNumbers ==
  ASSUME NEW hw, \E mode \in HardwareMode : hw = {mode}
  PROVE  MinFor(hw, 0) \in {1, 7} /\ MaxFor(hw, 0) \in {6, 14, 196}
  <1>1. PICK mode \in HardwareMode : hw = {mode}
    OBVIOUS
  <1>2. Hardware(hw) = hw
    BY <1>1 DEF Hardware
  <1> QED BY <1>2, BoundsLemma

LEMMA ModeRead ==
  ASSUME DataInv, ModeInv, createWifiApData PROVE ModeInv'
  <1>1. idx \in 1..8 /\ err \in BOOLEAN /\ wifiApData \in wifiApT
    BY DEF DataInv, DataTypeOK
  <1>2. CASE GiveUp
    BY <1>2 DEF GiveUp, ModeInv
  <1>3. CASE ~GiveUp
    <2>1. idx <= 7 /\ idx' = idx + 1 /\ UNCHANGED <<job, hostapdConf>>
      BY <1>3, <1>1, DescsLength DEF createWifiApData, ReadOther, ReadString,
         ReadPreSharedKey, ReadIeeeStdMask, ReadChannelNumber, Reading, NextKey
    <2>2. hostapdConf'.hw_mode = "none"
      BY <2>1 DEF ModeInv
    <2>3. CASE idx' # 8 \/ err'
      BY <1>1, <2>2, <2>3 DEF ModeInv
    <2>4. CASE idx' = 8 /\ ~err'
      <3> DEFINE hw == Hardware(wifiApData.IeeeStdMask)
                 lo == MinFor(hw, wifiApData.MIN_CHANNEL_VALUE)
                 hi == MaxFor(hw, wifiApData.MAX_CHANNEL_VALUE)
                 bounded == [wifiApData EXCEPT !.MIN_CHANNEL_VALUE = lo,
                                               !.MAX_CHANNEL_VALUE = hi]
      <3>1. idx = 7
        BY <1>1, <2>1, <2>4
      <3>2. ReadChannelNumber
        <4>1. descs[idx] = "channelNumber"
          BY <3>1, DescsOrder
        <4> QED BY <1>3, <4>1 DEF createWifiApData, ReadOther, ReadString,
                   ReadPreSharedKey, ReadIeeeStdMask, Reading
      <3>3. PICK n \in Channel :
              /\ agreed' = (lo <= n /\ n <= hi)
              /\ wifiApData' = IF agreed' THEN [bounded EXCEPT !.channelNumber = uint16_t(n)]
                               ELSE bounded
              /\ err' = (err \/ ~agreed')
        BY <2>4, <3>2 DEF ReadChannelNumber, Refused
      <3>4. agreed' /\ ~err
        BY <2>4, <3>3
      <3>5. \E mode \in HardwareMode : hw = {mode}
        BY <3>1, <3>4 DEF DataInv, Configured
      <3>6. lo = MinFor(hw, 0) /\ hi = MaxFor(hw, 0)
        BY <3>5, FixedBounds
      <3>7. lo \in {1, 7} /\ hi \in {6, 14, 196} /\ n \in Nat
        BY <3>5, <3>6, BoundsNumbers, DataAssumption
      <3> HIDE DEF lo, hi
      <3>8. uint16_t(n) = n /\ n \in lo..hi
        <4>1. lo <= n /\ n <= hi
          BY <3>3, <3>4
        <4> QED BY <3>7, <4>1, UintLemma
      <3>9. /\ wifiApData'.channelNumber = n /\ wifiApData'.MIN_CHANNEL_VALUE = lo
            /\ wifiApData'.MAX_CHANNEL_VALUE = hi
            /\ wifiApData'.IeeeStdMask = wifiApData.IeeeStdMask
        BY <1>1, <3>3, <3>4, <3>8 DEF wifiApT
      <3>10. FieldsFit(wifiApData')
        BY <3>6, <3>8, <3>9 DEF FieldsFit, Allowed
      <3>11. \A c \in Caller : job'[c] = NoJob
        BY <2>1, <3>1 DEF DataInv, Quiescent
      <3> QED BY <2>2, <3>10, <3>11 DEF ModeInv, JobFits, ConfFits, NoJob, InSetChannel
    <2> QED BY <2>3, <2>4
  <1> QED BY <1>2, <1>3

\* A step of a verb that keeps the mode.
LEMMA ModeVerb ==
  ASSUME DataInv, ModeInv, [ModeKept]_vars, NEW c \in Caller, SetterStep(c) \/ StartStep(c)
  PROVE  ModeInv'
  <1> DEFINE hw == Hardware(wifiApData.IeeeStdMask)
             b == job[c]
  <1>1. /\ wifiApData \in wifiApT /\ job \in [Caller -> Job] /\ b \in Job
        /\ idx = 8 /\ ~err /\ alive /\ UNCHANGED <<idx, err>>
        /\ \E mode \in HardwareMode : hw = {mode}
    <2>1. (Idle(c) \/ b.pc # "idle") /\ alive /\ UNCHANGED <<idx, err>>
      BY DEF SetterStep, setString, setPreSharedKey, setSecurityProtocol, setIeeeStandard,
         setChannel, setChannelMin, setChannelMax, setChannelTest, StartStep, StartSsid,
         StartMin, StartMax, ConfCommon, ConfSecurity, ConfIeee, Idle, Serving, At, KeepData
    <2> QED BY <2>1, ActiveLemma DEF DataInv, DataTypeOK
  <1>2. Hardware(wifiApData'.IeeeStdMask) = hw
    <2>1. Serving
      BY <1>1, DescsLength DEF Serving
    <2>2. CASE ModeKept
      BY <2>1, <2>2, Zenon DEF ModeKept
    <2>3. CASE UNCHANGED vars
      BY <2>3 DEF vars
    <2> QED BY <2>2, <2>3
  <1>3. /\ FieldsFit(wifiApData) /\ (\A d \in Caller : JobFits(job[d], hw))
        /\ ConfFits(hostapdConf, hw)
    BY <1>1 DEF ModeInv
  <1>4. /\ MinFor(hw, 0) \in {1, 7} /\ MaxFor(hw, 0) \in {6, 14, 196}
        /\ \A old : MinFor(hw, old) = MinFor(hw, 0) /\ MaxFor(hw, old) = MaxFor(hw, 0)
    BY <1>1, BoundsNumbers, FixedBounds
  <1>5. SUFFICES /\ FieldsFit(wifiApData') /\ (\A d \in Caller : JobFits(job'[d], hw))
                 /\ ConfFits(hostapdConf', hw)
    BY <1>1, <1>2 DEF ModeInv
  <1> HIDE DEF hw, b
  <1>6. ASSUME UNCHANGED job \/ \E new : job' = [job EXCEPT ![c] = new] /\ JobFits(new, hw)
        PROVE  \A d \in Caller : JobFits(job'[d], hw)
    BY <1>1, <1>3, <1>6
  <1>7. ASSUME NEW result, Finish(c, result) PROVE \A d \in Caller : JobFits(job'[d], hw)
    <2> DEFINE new == [NoJob EXCEPT !.result = result]
    <2>1. job' = [job EXCEPT ![c] = new] /\ JobFits(new, hw)
      BY <1>7 DEF Finish, NoJob, JobFits, InSetChannel
    <2> HIDE DEF new
    <2> QED BY <1>6, <2>1
  <1>8. ASSUME NEW p, Jump(c, p), p \notin {"security", "ieee"}, p \in InSetChannel => b.hw = hw
        PROVE  \A d \in Caller : JobFits(job'[d], hw)
    <2> DEFINE new == [b EXCEPT !.pc = p]
    <2>1. job' = [job EXCEPT ![c] = new] /\ JobFits(new, hw)
      BY <1>1, <1>8 DEF Jump, Job, JobFits, b
    <2> HIDE DEF new
    <2> QED BY <1>6, <2>1
  <1>9. b.pc \in InSetChannel => b.hw = hw
    BY <1>3 DEF JobFits, b
  <1>10. ASSUME wifiApData'.MIN_CHANNEL_VALUE = wifiApData.MIN_CHANNEL_VALUE,
                wifiApData'.MAX_CHANNEL_VALUE = wifiApData.MAX_CHANNEL_VALUE,
                wifiApData'.channelNumber = wifiApData.channelNumber
         PROVE  FieldsFit(wifiApData')
    BY <1>2, <1>3, <1>10 DEF FieldsFit, hw
  <1>11. CASE (\E field \in DOMAIN Accepted : setString(c, field)) \/ setPreSharedKey(c)
               \/ setSecurityProtocol(c) \/ setIeeeStandard(c)
    <2>1. UNCHANGED <<job, hostapdConf>>
      BY <1>11 DEF setString, setPreSharedKey, setSecurityProtocol, setIeeeStandard
    <2>2. \E v : \/ wifiApData' = [wifiApData EXCEPT !.ssid = v]
                 \/ wifiApData' = [wifiApData EXCEPT !.passphrase = v]
                 \/ wifiApData' = [wifiApData EXCEPT !.presharedKey = v]
                 \/ wifiApData' = [wifiApData EXCEPT !.securityProtocol = v]
                 \/ wifiApData' = [wifiApData EXCEPT !.IeeeStdMask = v]
      <3>1. CASE \E field \in DOMAIN Accepted : setString(c, field)
        <4>1. \A field \in DOMAIN Accepted : field = "ssid" \/ field = "passphrase"
          BY DEF Accepted
        <4> QED BY <3>1, <4>1 DEF setString
      <3> QED BY <1>11, <3>1 DEF setPreSharedKey, setSecurityProtocol, setIeeeStandard
    <2>3. FieldsFit(wifiApData')
      BY <1>1, <1>10, <2>2 DEF wifiApT
    <2> QED BY <1>3, <2>1, <2>3
  <1>12. CASE setChannel(c)
    <2>1. PICK n \in Channel :
            job' = [job EXCEPT ![c] = [NoJob EXCEPT !.pc = "min", !.n = n, !.hw = hw]]
      BY <1>12 DEF setChannel, hw
    <2> DEFINE new == [NoJob EXCEPT !.pc = "min", !.n = n, !.hw = hw]
    <2>2. job' = [job EXCEPT ![c] = new] /\ JobFits(new, hw)
      BY <2>1 DEF NoJob, JobFits
    <2> HIDE DEF new
    <2> QED BY <1>3, <1>6, <1>12, <2>2 DEF setChannel
  <1>13. CASE setChannelMin(c) \/ setChannelMax(c)
    <2>1. b.pc \in InSetChannel /\ UNCHANGED hostapdConf /\ (Jump(c, "max") \/ Jump(c, "test"))
      BY <1>13 DEF setChannelMin, setChannelMax, At, InSetChannel, b
    <2>2. \/ wifiApData' = [wifiApData EXCEPT !.MIN_CHANNEL_VALUE = MinFor(hw, @)]
          \/ wifiApData' = [wifiApData EXCEPT !.MAX_CHANNEL_VALUE = MaxFor(hw, @)]
      BY <1>9, <1>13, <2>1 DEF setChannelMin, setChannelMax, b
    <2>3. FieldsFit(wifiApData')
      BY <1>1, <1>3, <1>4, <1>10, <2>2 DEF FieldsFit, hw, wifiApT
    <2> QED BY <1>3, <1>8, <1>9, <2>1, <2>3
  <1>14. CASE setChannelTest(c)
    <2>1. b.pc \in InSetChannel /\ UNCHANGED hostapdConf /\ Finish(c, "none")
      BY <1>14 DEF setChannelTest, At, InSetChannel, b
    <2>2. /\ wifiApData.MIN_CHANNEL_VALUE = MinFor(hw, 0)
          /\ wifiApData.MAX_CHANNEL_VALUE = MaxFor(hw, 0)
      BY <1>3 DEF FieldsFit, hw
    <2>3. \/ UNCHANGED wifiApData
          \/ /\ MinFor(hw, 0) <= b.n /\ b.n <= MaxFor(hw, 0)
             /\ wifiApData' = [wifiApData EXCEPT !.channelNumber = uint16_t(b.n)]
      BY <1>4, <1>9, <1>14, <2>1, <2>2 DEF setChannelTest, b
    <2>4. CASE UNCHANGED wifiApData
      BY <1>3, <1>7, <2>1, <2>4
    <2>5. CASE /\ MinFor(hw, 0) <= b.n /\ b.n <= MaxFor(hw, 0)
               /\ wifiApData' = [wifiApData EXCEPT !.channelNumber = uint16_t(b.n)]
      <3>1. uint16_t(b.n) = b.n /\ b.n \in Allowed(hw)
        BY <1>1, <1>4, <2>5, UintLemma DEF Job, Allowed
      <3>2. /\ wifiApData'.channelNumber = b.n
            /\ wifiApData'.MIN_CHANNEL_VALUE = wifiApData.MIN_CHANNEL_VALUE
            /\ wifiApData'.MAX_CHANNEL_VALUE = wifiApData.MAX_CHANNEL_VALUE
        BY <1>1, <2>5, <3>1 DEF wifiApT
      <3>3. FieldsFit(wifiApData')
        BY <1>2, <2>2, <3>1, <3>2 DEF FieldsFit
      <3> QED BY <1>3, <1>7, <2>1, <3>3
    <2> QED BY <2>3, <2>4, <2>5
  <1>15. CASE StartStep(c)
    <2>1. UNCHANGED wifiApData
      BY <1>15 DEF StartStep, StartSsid, StartMin, StartMax, ConfCommon, ConfSecurity,
         ConfIeee, KeepData
    <2>2. FieldsFit(wifiApData') /\ ConfFits(NoConf, hw)
      BY <1>3, <2>1 DEF ConfFits, NoConf
    <2>3. CASE StartSsid(c) \/ StartMin(c) \/ StartMax(c)
      BY <1>3, <1>7, <1>8, <2>2, <2>3 DEF StartSsid, StartMin, StartMax, InSetChannel
    <2>4. CASE ConfCommon(c)
      <3>1. CASE job' = [job EXCEPT ![c].pc = "security",
                                    ![c].channel = wifiApData.channelNumber]
        <4> DEFINE new == [b EXCEPT !.pc = "security", !.channel = wifiApData.channelNumber]
        <4>1. job' = [job EXCEPT ![c] = new] /\ JobFits(new, hw)
          BY <1>1, <1>3, <3>1 DEF Job, JobFits, InSetChannel, FieldsFit, b, hw
        <4> HIDE DEF new
        <4> QED BY <1>3, <1>6, <2>2, <2>4, <4>1 DEF ConfCommon
      <3> QED BY <1>3, <1>7, <2>2, <2>4, <3>1 DEF ConfCommon
    <2>5. CASE ConfSecurity(c)
      <3>1. b.channel \in Allowed(hw)
        BY <1>3, <2>5 DEF ConfSecurity, At, JobFits, b
      <3>2. ASSUME NEW key, job' = [job EXCEPT ![c].pc = "ieee", ![c].key = key]
            PROVE  \A d \in Caller : JobFits(job'[d], hw)
        <4> DEFINE new == [b EXCEPT !.pc = "ieee", !.key = key]
        <4>1. job' = [job EXCEPT ![c] = new] /\ JobFits(new, hw)
          BY <1>1, <3>1, <3>2 DEF Job, JobFits, InSetChannel, b
        <4> HIDE DEF new
        <4> QED BY <1>6, <4>1
      <3> QED BY <1>3, <1>7, <2>2, <2>5, <3>2 DEF ConfSecurity
    <2>6. CASE ConfIeee(c)
      <3>1. b.channel \in Allowed(hw)
        BY <1>3, <2>6 DEF ConfIeee, At, JobFits, b
      <3>2. PICK mode \in HardwareMode : hw = {mode}
        BY <1>1
      <3>3. (CHOOSE m \in HardwareMode : hw = {m}) = mode
        BY <3>2
      <3>4. ConfFits([channel |-> b.channel, key |-> b.key, hw_mode |-> mode], hw)
        BY <3>1, <3>2 DEF ConfFits
      <3>5. \/ /\ hostapdConf' = [channel |-> b.channel, key |-> b.key, hw_mode |-> mode]
               /\ Finish(c, "ok")
            \/ Finish(c, "file") /\ hostapdConf' = NoConf
        BY <2>6, <3>2, <3>3 DEF ConfIeee, b, hw
      <3> QED BY <1>7, <2>2, <3>4, <3>5
    <2> QED BY <1>15, <2>3, <2>4, <2>5, <2>6 DEF StartStep
  <1> QED BY <1>11, <1>12, <1>13, <1>14, <1>15 DEF SetterStep

\* What is left of the documented range of channels: hostapd gets a channel of its hardware
\* mode, with any number of clients that set anything and start at once, as long as
\* setIeeeStandard does not change the hardware mode of the configuration.
THEOREM ChannelOfTheMode == Spec /\ [][ModeKept]_vars => []ChannelMatchesMode
  <1>1. Init => ModeInv
    BY DEF Init, ModeInv, NoConf
  <1>2. DataInv /\ ModeInv /\ [Next]_vars /\ [ModeKept]_vars => ModeInv'
    <2> SUFFICES ASSUME DataInv, ModeInv, [Next]_vars, [ModeKept]_vars PROVE ModeInv'
      OBVIOUS
    <2>1. CASE UNCHANGED vars
      BY <2>1 DEF vars, ModeInv
    <2> QED BY <2>1, ModeRead, ModeVerb DEF Next
  <1>3. DataInv /\ ModeInv => ChannelMatchesMode
    <2> SUFFICES ASSUME DataInv, ModeInv, hostapdConf.hw_mode # "none"
                 PROVE  hostapdConf.channel \in
                          MIN_CHANNEL[hostapdConf.hw_mode]..MAX_CHANNEL[hostapdConf.hw_mode]
      BY DEF ChannelMatchesMode
    <2> DEFINE mode == hostapdConf.hw_mode
    <2>1. idx = 8 /\ ~err /\ mode \in HardwareMode
      BY DEF DataInv, DataTypeOK, ModeInv
    <2>2. hostapdConf.channel \in Allowed({mode})
      BY <2>1 DEF ModeInv, ConfFits
    <2>3. (CHOOSE m \in HardwareMode : {mode} = {m}) = mode
      BY <2>1
    <2>4. MinFor({mode}, 0) = MIN_CHANNEL[mode] /\ MaxFor({mode}, 0) = MAX_CHANNEL[mode]
      BY <2>1, <2>3 DEF MinFor, MaxFor
    <2> QED BY <2>2, <2>4 DEF Allowed
  <1> QED BY <1>1, <1>2, <1>3, DataInvariance, PTL DEF Spec
=============================================================================
