-------------------------- MODULE WifiApAddressProofs --------------------------
(***************************************************************************)
(* Theorems about the addresses, WifiApAddress, for any requests, any torn  *)
(* reads, any number of calls of setIpRange and any failures.               *)
(***************************************************************************)
EXTENDS WifiApAddress, SequenceTheorems, TLAPS

-----------------------------------------------------------------------------
(* toCidr and the order of addresses *)

\* What byte i adds to the prefix length, and the bits of a mask that lie in it.
Count(quad, i) ==
  IF \A j \in 1..i : Listed(quad[j]) THEN Ones(quad[i]) ELSE 0

Bits(n, i) == IF n >= 8 * i THEN 8 ELSE IF n <= 8 * (i - 1) THEN 0 ELSE n - 8 * (i - 1)

LEMMA toCidrLemma ==
  ASSUME NEW quad
  PROVE  toCidr(quad) = Count(quad, 1) + Count(quad, 2) + Count(quad, 3) + Count(quad, 4)
  BY DEF toCidr, Count

LEMMA CountLemma == ASSUME NEW quad, NEW i \in 1..4 PROVE Count(quad, i) \in 0..8
  <1>1. CASE \A j \in 1..i : Listed(quad[j])
    <2>1. \E n \in 1..8 : quad[i] = MaskByte[n]
      BY <1>1 DEF Listed
    <2>2. Ones(quad[i]) \in 1..8
      BY <2>1 DEF Ones
    <2> QED BY <1>1, <2>2 DEF Count
  <1>2. CASE ~ \A j \in 1..i : Listed(quad[j])
    BY <1>2 DEF Count
  <1> QED BY <1>1, <1>2

LEMMA PrefixRange == ASSUME NEW quad PROVE toCidr(quad) \in 0..32
  BY toCidrLemma, CountLemma

\* The table of the code: byte n has n ones, and 0 is not in it.
LEMMA OnesLemma ==
  /\ \A n \in 1..8 : Listed(MaskByte[n]) /\ Ones(MaskByte[n]) = n
  /\ ~Listed(0)
  <1>1. \A m, n \in 1..8 : MaskByte[m] = MaskByte[n] => m = n
    BY DEF MaskByte
  <1>2. \A n \in 1..8 : MaskByte[n] # 0
    BY DEF MaskByte
  <1> QED BY <1>1, <1>2 DEF Listed, Ones

LEMMA MaskLemma ==
  ASSUME NEW n \in 0..32, NEW i \in 1..4
  PROVE  Mask(n)[i] = (IF Bits(n, i) = 0 THEN 0 ELSE MaskByte[Bits(n, i)])
  BY DEF Mask, Bits

LEMMA BitsLemma ==
  ASSUME NEW n \in 0..32
  PROVE  /\ \A i \in 1..4 : Bits(n, i) \in 0..8
         /\ \A i \in 1..4, j \in 1..4 : j < i /\ Bits(n, i) # 0 => Bits(n, j) = 8
         /\ Bits(n, 1) + Bits(n, 2) + Bits(n, 3) + Bits(n, 4) = n
  BY DEF Bits

\* toCidr gives the length of every prefix back.
LEMMA toCidrOfMask == \A n \in 0..32 : toCidr(Mask(n)) = n
  <1> SUFFICES ASSUME NEW n \in 0..32 PROVE toCidr(Mask(n)) = n
    OBVIOUS
  <1>1. ASSUME NEW i \in 1..4 PROVE Count(Mask(n), i) = Bits(n, i)
    <2>1. CASE Bits(n, i) = 0
      <3>1. ~Listed(Mask(n)[i])
        BY <2>1, MaskLemma, OnesLemma
      <3>2. i \in 1..i
        OBVIOUS
      <3> QED BY <2>1, <3>1, <3>2 DEF Count
    <2>2. CASE Bits(n, i) # 0
      <3>1. ASSUME NEW j \in 1..i PROVE Listed(Mask(n)[j])
        <4>1. j \in 1..4 /\ Bits(n, j) \in 1..8
          BY <2>2, BitsLemma
        <4> QED BY <4>1, MaskLemma, OnesLemma
      <3>2. Bits(n, i) \in 1..8 /\ Mask(n)[i] = MaskByte[Bits(n, i)]
        BY <2>2, BitsLemma, MaskLemma
      <3> QED BY <3>1, <3>2, OnesLemma DEF Count
    <2> QED BY <2>1, <2>2
  <1> QED BY <1>1, toCidrLemma, BitsLemma

Quad(t) == t \in Seq(0..255) /\ Len(t) = 4

LEMMA BelowAsymmetric ==
  ASSUME NEW a, NEW b, Quad(a), Quad(b), Below(a, b), Below(b, a) PROVE FALSE
  <1>1. ASSUME NEW i \in 1..4 PROVE a[i] \in 0..255 /\ b[i] \in 0..255
    <2>1. i \in 1..Len(a) /\ i \in 1..Len(b)
      BY DEF Quad
    <2> QED BY <2>1, ElementOfSeq DEF Quad
  <1>2. PICK i \in 1..4 : a[i] < b[i] /\ \A j \in 1..4 : j < i => a[j] = b[j]
    BY DEF Below
  <1>3. PICK k \in 1..4 : b[k] < a[k] /\ \A j \in 1..4 : j < k => b[j] = a[j]
    BY DEF Below
  <1>4. CASE i < k
    <2>1. a[i] \in 0..255 /\ b[i] \in 0..255 /\ a[i] < b[i] /\ b[i] = a[i]
      BY <1>1, <1>2, <1>3, <1>4
    <2> QED BY <2>1
  <1>5. CASE k < i
    <2>1. a[k] \in 0..255 /\ b[k] \in 0..255 /\ b[k] < a[k] /\ a[k] = b[k]
      BY <1>1, <1>2, <1>3, <1>5
    <2> QED BY <2>1
  <1>6. CASE i = k
    <2>1. a[i] \in 0..255 /\ b[i] \in 0..255 /\ a[i] < b[i] /\ b[i] < a[i]
      BY <1>1, <1>2, <1>3, <1>6
    <2>2. \A x, y \in 0..255 : ~(x < y /\ y < x)
      OBVIOUS
    <2> QED BY <2>1, <2>2
  <1> QED BY <1>4, <1>5, <1>6

\* The address of the access point is outside of the range in either order exactly when
\* startAp's test, which puts the ends in order, does not find it inside.
LEMMA TestLemma ==
  ASSUME NEW a, NEW from, NEW to, Quad(a), Quad(from), Quad(to)
  PROVE  Within(a, from, to) \/ Within(a, to, from)
           <=> ~((Below(a, from) /\ Below(a, to)) \/ (Below(from, a) /\ Below(to, a)))
  BY BelowAsymmetric DEF Within

-----------------------------------------------------------------------------
(* Types *)

LEMMA TextLemma ==
  /\ \A t \in Text : IsText(t)
  /\ \A t \in Text : Stored(t) \in Text
  /\ Torn \subseteq Text /\ Empty \in Text
  /\ \A r \in Request, f \in Field : r[f] \in Text
  <1>1. IsText(Empty)
    BY DEF IsText, Empty
  <1>2. \A t \in Text : IsText(t)
    BY <1>1, AddressAssumption DEF Text
  <1>3. Empty \in Text /\ Torn \subseteq Text /\ \A r \in Request, f \in Field : r[f] \in Text
    BY DEF Text
  <1> QED BY <1>2, <1>3 DEF Stored

LEMMA OrderLemma ==
  /\ FieldOrder[1] = "ip_ap" /\ FieldOrder[2] = "ip_start"
  /\ FieldOrder[3] = "ip_stop" /\ FieldOrder[4] = "ip_netmask"
  /\ \A i \in 1..4 : FieldOrder[i] \in Field
  /\ \A i, j \in 1..4 : FieldOrder[i] = FieldOrder[j] => i = j
  /\ \A f \in Field : \E i \in 1..4 : f = FieldOrder[i]
  BY DEF FieldOrder, Field

LEMMA ReadsLemma ==
  ASSUME AddressTypeOK, NEW f \in Field
  PROVE  /\ Reads(f) \subseteq Text
         /\ call = NoCall => Reads(f) = {ip[f]}
  BY TextLemma DEF AddressTypeOK, Reads, NoCall, Field

StartPC == {"idle", "given", "parse", "cidr_mask", "cidr_ap", "test", "wlan_up", "hosts",
            "dnsmasq_conf", "dnsmasq"}

LEMMA JumpLemma ==
  ASSUME start \in StartRecord, NEW pc \in StartPC, Jump(pc)
  PROVE  /\ start' \in StartRecord /\ start'.pc = pc /\ start'.i = 1
         /\ start'.parsed = start.parsed /\ start'.parameterPtr = start.parameterPtr
         /\ start'.prefix = start.prefix /\ start'.address = start.address
         /\ start'.result = start.result
  <1> DEFINE new == [start EXCEPT !.pc = pc, !.i = 1]
  <1>1. new \in StartRecord
    <2>1. [start EXCEPT !.pc = pc] \in StartRecord
      BY DEF StartRecord, StartPC
    <2>2. \A s \in StartRecord : [s EXCEPT !.i = 1] \in StartRecord
      BY DEF StartRecord
    <2>3. new = [[start EXCEPT !.pc = pc] EXCEPT !.i = 1]
      BY DEF StartRecord
    <2> HIDE DEF new
    <2> QED BY <2>1, <2>2, <2>3
  <1>2. /\ new.pc = pc /\ new.i = 1 /\ new.parsed = start.parsed
        /\ new.parameterPtr = start.parameterPtr
        /\ new.prefix = start.prefix /\ new.address = start.address
        /\ new.result = start.result
    BY DEF StartRecord
  <1>3. start' = new
    BY DEF Jump
  <1> HIDE DEF new
  <1> QED BY <1>1, <1>2, <1>3

LEMMA NoStartLemma ==
  NoStart \in StartRecord /\ NoStart.parameterPtr = "none" /\ NoStart.result = "none"
  <1>1. [f \in Field |-> Empty] \in [Field -> Text]
    BY TextLemma
  <1> HIDE DEF Field
  <1> QED BY <1>1, TextLemma DEF NoStart, StartRecord

LEMMA FinishLemma ==
  ASSUME NEW result \in {"none", "ok", "refused", "failed"}, Finish(result)
  PROVE  /\ start' \in StartRecord /\ start'.pc = "idle" /\ start'.result = result
         /\ start'.parameterPtr = "none"
  BY NoStartLemma DEF StartRecord, NoStart, Finish

\* What a step of the start that runs on leaves of its record.
LEMMA StartEvery ==
  ASSUME start \in StartRecord
  PROVE  /\ start.i \in 1..4 /\ start.pc \in StartPC
         /\ start.parsed \in [Field -> Text]
  BY DEF StartRecord, StartPC

-----------------------------------------------------------------------------
(* The invariant *)

\* While setIpRange copies, the fields before call.pc have the new texts.
Copying ==
  \A i \in 1..4 : call.pc = FieldOrder[i] =>
    /\ call.request = accepted
    /\ \A j \in 1..4 : j < i => ip[FieldOrder[j]] = Stored(accepted[FieldOrder[j]])

Steady == ~changed => call = NoCall

\* The addresses before entry i of FieldOrder were read and are addresses.
Parsed(parsed, range, i) ==
  \A j \in 1..4 : j < i => /\ parsed[FieldOrder[j]] = range[FieldOrder[j]]
                           /\ inet_pton(range[FieldOrder[j]])

GoodSteps == {"wlan_up", "hosts", "dnsmasq_conf", "dnsmasq"}

ConfOf(range) ==
  [listen |-> range["ip_ap"], from |-> range["ip_start"], to |-> range["ip_stop"]]

\* What a start knows of the four fields, if nothing has changed them since it began.
StartKnows ==
  /\ start.pc \in {"given", "parse"} => start.parameterPtr = "none"
  /\ start.pc = "parse" => Parsed(start.parsed, ip, start.i)
  /\ start.pc \in {"cidr_mask", "cidr_ap", "test"} =>
       IF start.parameterPtr = "none" THEN Parsed(start.parsed, ip, 5)
       ELSE \E f \in Field : ~inet_pton(ip[f])
  /\ start.pc \in {"cidr_ap", "test"} \cup GoodSteps =>
       start.prefix \in PrefixLength(ip["ip_netmask"])
  /\ start.pc \in {"test"} \cup GoodSteps => start.address = ip["ip_ap"]
  /\ start.pc \in GoodSteps => GoodRange(ip)
  /\ start.pc \in {"dnsmasq_conf", "dnsmasq"} => hosts = ip["ip_ap"]
  /\ start.pc = "dnsmasq" => dnsmasqConf = ConfOf(ip)

\* What it has done.
StartDid ==
  /\ start.result = "refused" => ~GoodRange(ip)
  /\ start.result = "ok" =>
       /\ GoodRange(ip) /\ hosts = ip["ip_ap"] /\ dnsmasqConf = ConfOf(ip)
       /\ interface.address = ip["ip_ap"]
       /\ interface.prefix \in PrefixLength(ip["ip_netmask"])

AddressInv ==
  /\ AddressTypeOK /\ RangeOfOneCall /\ Copying /\ Steady
  /\ start.pc # "idle" => start.result = "none"
  /\ ~changed => StartKnows /\ StartDid

LEMMA InitAddress == Init => AddressInv
  <1> SUFFICES ASSUME Init PROVE AddressInv
    OBVIOUS
  <1>1. PICK r \in Request : ip = r /\ accepted = r
    BY DEF Init
  <1>2. ip \in [Field -> Text]
    <2>1. r = [f \in Field |-> r[f]] /\ \A f \in Field : r[f] \in Text
      BY TextLemma, AddressAssumption
    <2> QED BY <1>1, <2>1
  <1>3. start \in StartRecord /\ start.pc = "idle" /\ start.result = "none"
    BY NoStartLemma DEF Init, NoStart
  <1>4. AddressTypeOK
    BY <1>1, <1>2, <1>3 DEF Init, AddressTypeOK
  <1>5. RangeOfOneCall
    BY <1>1 DEF RangeOfOneCall
  <1>6. Copying /\ Steady
    BY OrderLemma DEF Init, Copying, Steady, NoCall, FieldOrder
  <1> QED BY <1>3, <1>4, <1>5, <1>6 DEF AddressInv, StartKnows, StartDid, GoodSteps

-----------------------------------------------------------------------------
(* setIpRange *)

LEMMA SetIpRangeInv ==
  ASSUME AddressInv, setIpRange \/ CopyField PROVE AddressInv'
  <1>1. AddressTypeOK /\ RangeOfOneCall /\ Copying /\ Steady
    BY DEF AddressInv
  <1>2. CASE setIpRange
    <2>1. PICK r \in Request : call' = [pc |-> "ip_ap", request |-> r] /\ accepted' = r
      BY <1>2 DEF setIpRange
    <2>2. UNCHANGED <<ip, start, sysVars, alive>> /\ changed' = TRUE /\ calls' \in Nat
      BY <1>1, <1>2 DEF setIpRange, AddressTypeOK
    <2>3. call' \in [pc: Field, request: Request] /\ call' # NoCall /\ call'.pc = "ip_ap"
          /\ call'.request = r
      BY <2>1 DEF Field, NoCall
    <2>4. AddressTypeOK'
      BY <1>1, <2>1, <2>2, <2>3 DEF AddressTypeOK, sysVars
    <2>5. Copying'
      BY <2>1, <2>3, OrderLemma DEF Copying
    <2> QED BY <2>2, <2>3, <2>4, <2>5 DEF AddressInv, RangeOfOneCall, Steady
  <1>3. CASE CopyField
    <2>1. PICK i \in 1..4 :
            /\ call.pc = FieldOrder[i]
            /\ ip' = [ip EXCEPT ![FieldOrder[i]] = Stored(call.request[FieldOrder[i]])]
            /\ call' = IF i = 4 THEN NoCall ELSE [call EXCEPT !.pc = FieldOrder[i + 1]]
            /\ UNCHANGED <<start, sysVars, accepted, calls, changed, alive>>
      BY <1>3 DEF CopyField
    <2>2. call \in [pc: Field, request: Request] /\ call.request = accepted
      BY <1>1, <2>1, OrderLemma DEF AddressTypeOK, NoCall, Field, Copying
    <2>3. changed
      BY <1>1, <2>2 DEF Steady, AddressTypeOK, NoCall, Field
    <2>4. /\ ip' \in [Field -> Text]
          /\ \A j \in 1..4 : ip'[FieldOrder[j]] = IF j = i THEN Stored(accepted[FieldOrder[j]])
                                                  ELSE ip[FieldOrder[j]]
      <3>1. Stored(accepted[FieldOrder[i]]) \in Text
        BY <1>1, TextLemma, OrderLemma DEF AddressTypeOK
      <3> QED BY <1>1, <2>1, <2>2, <3>1, OrderLemma DEF AddressTypeOK
    <2>5. CASE i = 4
      <3>1. call' = NoCall /\ NoCall.pc = "idle"
        BY <2>1, <2>5 DEF NoCall
      <3>2. \A j \in 1..4 : ip'[FieldOrder[j]] = Stored(accepted[FieldOrder[j]])
        BY <1>1, <2>1, <2>4, <2>5 DEF Copying
      <3>3. RangeOfOneCall'
        BY <2>1, <3>2, OrderLemma DEF RangeOfOneCall
      <3>4. Copying' /\ Steady'
        BY <3>1, OrderLemma DEF Copying, Steady, Field
      <3>5. AddressTypeOK'
        BY <1>1, <2>1, <2>4, <3>1 DEF AddressTypeOK, sysVars
      <3> QED BY <2>1, <2>3, <3>3, <3>4, <3>5 DEF AddressInv
    <2>6. CASE i # 4
      <3>1. i + 1 \in 1..4 /\ call' = [call EXCEPT !.pc = FieldOrder[i + 1]]
        BY <2>1, <2>6
      <3>2. /\ call' \in [pc: Field, request: Request] /\ call'.pc = FieldOrder[i + 1]
            /\ call'.request = accepted
        BY <2>2, <3>1, OrderLemma
      <3>3. Copying'
        <4>1. \A j \in 1..4 : j < i + 1 => ip'[FieldOrder[j]] = Stored(accepted[FieldOrder[j]])
          BY <1>1, <2>1, <2>4 DEF Copying
        <4>2. \A k \in 1..4 : call'.pc = FieldOrder[k] => k = i + 1
          BY <3>1, <3>2, OrderLemma
        <4>3. accepted' = accepted
          BY <2>1
        <4> QED BY <3>2, <4>1, <4>2, <4>3 DEF Copying
      <3>4. call' # NoCall
        BY <3>2 DEF NoCall, Field
      <3>5. AddressTypeOK'
        BY <1>1, <2>1, <2>4, <3>2 DEF AddressTypeOK, sysVars
      <3> QED BY <2>1, <2>3, <3>3, <3>4, <3>5 DEF AddressInv, RangeOfOneCall, Steady
    <2> QED BY <2>5, <2>6
  <1> QED BY <1>2, <1>3

-----------------------------------------------------------------------------
(* startAp *)

\* A step of a start leaves the four fields and the call of setIpRange alone.
LEMMA KeepLemma ==
  ASSUME AddressInv, KeepAddress, UNCHANGED changed, start' \in StartRecord,
         hosts' \in Text \cup {None}, alive' \in BOOLEAN,
         dnsmasqConf' \in [listen: Text, from: Text, to: Text] \cup {None},
         interface' \in [address: Text, prefix: 0..32] \cup {None},
         start'.pc # "idle" => start'.result = "none",
         ~changed => StartKnows' /\ StartDid'
  PROVE  AddressInv'
  <1>1. UNCHANGED <<ip, call, accepted, calls, changed>>
    BY DEF KeepAddress
  <1>2. AddressTypeOK'
    BY <1>1 DEF AddressInv, AddressTypeOK
  <1>3. RangeOfOneCall' /\ Copying' /\ Steady'
    BY <1>1 DEF AddressInv, RangeOfOneCall, Copying, Steady
  <1> QED BY <1>1, <1>2, <1>3 DEF AddressInv

\* One that runs on only has to say what the start knows after it.
LEMMA RunLemma ==
  ASSUME AddressInv, KeepAddress, UNCHANGED changed, start' \in StartRecord,
         hosts' \in Text \cup {None}, alive' \in BOOLEAN,
         dnsmasqConf' \in [listen: Text, from: Text, to: Text] \cup {None},
         interface' \in [address: Text, prefix: 0..32] \cup {None},
         start'.result = "none",
         ~changed => StartKnows'
  PROVE  AddressInv'
  BY KeepLemma DEF StartDid

\* One that ends the start only has to say what it did.
LEMMA EndLemma ==
  ASSUME AddressInv, KeepAddress, UNCHANGED changed,
         NEW result \in {"ok", "refused", "failed"}, Finish(result),
         hosts' \in Text \cup {None}, alive' \in BOOLEAN,
         dnsmasqConf' \in [listen: Text, from: Text, to: Text] \cup {None},
         interface' \in [address: Text, prefix: 0..32] \cup {None},
         ~changed => StartDid'
  PROVE  AddressInv'
  <1>1. start' \in StartRecord /\ start'.pc = "idle"
    BY FinishLemma
  <1>2. StartKnows'
    BY <1>1 DEF StartKnows, GoodSteps
  <1> QED BY <1>1, <1>2, KeepLemma

\* What every step of a start begins with.
LEMMA StepLemma ==
  ASSUME AddressInv
  PROVE  /\ AddressTypeOK /\ start \in StartRecord
         /\ start.i \in 1..4 /\ start.parsed \in [Field -> Text]
         /\ start.prefix \in 0..32 /\ start.address \in Text
         /\ start.pc # "idle" => start.result = "none"
         /\ \A f \in Field : Reads(f) \subseteq Text
         /\ \A f \in Field : ip[f] \in Text
         /\ ~changed => StartKnows /\ \A f \in Field : Reads(f) = {ip[f]}
  <1>1. AddressTypeOK /\ start \in StartRecord
    BY DEF AddressInv, AddressTypeOK
  <1>2. start.prefix \in 0..32 /\ start.address \in Text
    BY <1>1 DEF StartRecord
  <1> QED BY <1>1, <1>2, StartEvery, ReadsLemma DEF AddressInv, Steady, AddressTypeOK

\* sscanf and toCidr yield the length of a prefix.
LEMMA PrefixLemma == \A t : PrefixLength(t) \subseteq 0..32
  BY PrefixRange, AddressAssumption DEF PrefixLength

LEMMA BeginInv == ASSUME AddressInv, StartBegin PROVE AddressInv'
  <1>1. /\ start' = [NoStart EXCEPT !.pc = "given"] /\ changed' = (call.pc # "idle")
        /\ hosts' = None /\ dnsmasqConf' = None
        /\ UNCHANGED <<interface, alive, ip, call, accepted, calls>>
    BY DEF StartBegin, KeepAddress
  <1>2. AddressTypeOK /\ RangeOfOneCall /\ Copying
    BY DEF AddressInv
  <1>3. /\ start' \in StartRecord /\ start'.pc = "given"
        /\ start'.result = "none" /\ start'.parameterPtr = "none"
    BY <1>1, NoStartLemma DEF StartRecord
  <1>4. changed' \in BOOLEAN
    BY <1>1
  <1>5. AddressTypeOK'
    BY <1>1, <1>2, <1>3, <1>4 DEF AddressTypeOK
  <1>6. RangeOfOneCall' /\ Copying'
    BY <1>1, <1>2 DEF RangeOfOneCall, Copying
  <1>7. Steady'
    BY <1>1, <1>2 DEF Steady, AddressTypeOK, NoCall, Field
  <1>8. StartKnows' /\ StartDid'
    BY <1>3 DEF StartKnows, StartDid, GoodSteps
  <1> QED BY <1>3, <1>5, <1>6, <1>7, <1>8 DEF AddressInv

LEMMA CheckInv == ASSUME AddressInv, CheckGiven PROVE AddressInv'
  <1>1. PICK text \in Reads(FieldOrder[start.i]) :
          \/ text = Empty /\ Finish("refused")
          \/ /\ text # Empty
             /\ \/ start.i < 4 /\ start' = [start EXCEPT !.i = @ + 1]
                \/ start.i = 4 /\ Jump("parse")
    BY DEF CheckGiven
  <1>2. /\ UNCHANGED <<hosts, dnsmasqConf, interface, changed, alive>> /\ KeepAddress
        /\ start.pc = "given"
    BY DEF CheckGiven, At, sysVars
  <1>3. /\ hosts' \in Text \cup {None} /\ alive' \in BOOLEAN
        /\ dnsmasqConf' \in [listen: Text, from: Text, to: Text] \cup {None}
        /\ interface' \in [address: Text, prefix: 0..32] \cup {None}
    BY <1>2, StepLemma DEF AddressTypeOK
  <1>4. start.result = "none" /\ (~changed => start.parameterPtr = "none")
    BY <1>2, StepLemma DEF StartKnows
  <1>5. CASE text = Empty /\ Finish("refused")
    <2>1. ASSUME ~changed PROVE ~GoodRange(ip)
      <3>1. FieldOrder[start.i] \in Field /\ text = ip[FieldOrder[start.i]]
        BY <1>1, <2>1, StepLemma, OrderLemma
      <3>2. Empty.quad = <<>>
        BY DEF Empty
      <3> QED BY <1>5, <3>1, <3>2 DEF GoodRange
    <2>2. ~changed => StartDid'
      BY <1>2, <1>5, <2>1, FinishLemma DEF StartDid, KeepAddress
    <2> QED BY <1>2, <1>3, <1>5, <2>2, EndLemma
  <1>6. CASE start.i < 4 /\ start' = [start EXCEPT !.i = @ + 1]
    <2>1. start.i + 1 \in 1..4
      BY <1>6, StepLemma
    <2>2. /\ start' \in StartRecord /\ start'.pc = "given"
          /\ start'.result = "none" /\ start'.parameterPtr = start.parameterPtr
      BY <1>2, <1>4, <1>6, <2>1, StepLemma DEF StartRecord
    <2>3. ~changed => StartKnows'
      BY <1>4, <2>2 DEF StartKnows, GoodSteps
    <2> QED BY <1>2, <1>3, <2>2, <2>3, RunLemma
  <1>7. CASE start.i = 4 /\ Jump("parse")
    <2>1. /\ start' \in StartRecord /\ start'.pc = "parse" /\ start'.i = 1
          /\ start'.result = "none" /\ start'.parameterPtr = start.parameterPtr
      BY <1>4, <1>7, JumpLemma, StepLemma DEF StartPC
    <2>2. Parsed(start'.parsed, ip', start'.i)
      BY <2>1 DEF Parsed
    <2>3. ~changed => StartKnows'
      BY <1>4, <2>1, <2>2 DEF StartKnows, GoodSteps
    <2> QED BY <1>2, <1>3, <2>1, <2>3, RunLemma
  <1> QED BY <1>1, <1>5, <1>6, <1>7

LEMMA ParseInv == ASSUME AddressInv, Parse PROVE AddressInv'
  <1> DEFINE field == FieldOrder[start.i]
  <1>1. PICK text \in Reads(field) :
          \/ /\ ~inet_pton(text)
             /\ start' = [start EXCEPT !.pc = "cidr_mask", !.parameterPtr = field]
          \/ /\ inet_pton(text)
             /\ start' = [start EXCEPT !.parsed[field] = text,
                                       !.i = IF @ < 4 THEN @ + 1 ELSE 1,
                                       !.pc = IF start.i < 4 THEN "parse" ELSE "cidr_mask"]
    BY DEF Parse
  <1>2. /\ UNCHANGED <<hosts, dnsmasqConf, interface, changed, alive>> /\ KeepAddress
        /\ start.pc = "parse"
    BY DEF Parse, At, sysVars
  <1>3. /\ hosts' \in Text \cup {None} /\ alive' \in BOOLEAN
        /\ dnsmasqConf' \in [listen: Text, from: Text, to: Text] \cup {None}
        /\ interface' \in [address: Text, prefix: 0..32] \cup {None}
    BY <1>2, StepLemma DEF AddressTypeOK
  <1>4. /\ start.result = "none" /\ field \in Field /\ text \in Text
        /\ ~changed => /\ start.parameterPtr = "none" /\ text = ip[field]
                       /\ Parsed(start.parsed, ip, start.i)
    BY <1>1, <1>2, StepLemma, OrderLemma DEF StartKnows
  <1>5. ip' = ip
    BY <1>2 DEF KeepAddress
  <1>6. CASE /\ ~inet_pton(text)
             /\ start' = [start EXCEPT !.pc = "cidr_mask", !.parameterPtr = field]
    <2>1. /\ start' \in StartRecord /\ start'.pc = "cidr_mask"
          /\ start'.result = "none" /\ start'.parameterPtr = field
      <3>1. \A s \in StartRecord : [s EXCEPT !.pc = "cidr_mask"] \in StartRecord
        BY DEF StartRecord
      <3>2. \A s \in StartRecord : [s EXCEPT !.parameterPtr = field] \in StartRecord
        BY <1>4 DEF StartRecord
      <3>3. start' = [[start EXCEPT !.pc = "cidr_mask"] EXCEPT !.parameterPtr = field]
        BY <1>6, StepLemma DEF StartRecord
      <3>4. start' \in StartRecord
        BY <3>1, <3>2, <3>3, StepLemma
      <3> QED BY <1>4, <1>6, <3>4, StepLemma DEF StartRecord
    <2>2. ~changed => StartKnows'
      <3>1. field # "none"
        BY <1>4 DEF Field
      <3>2. ~changed => ~inet_pton(ip'[field])
        BY <1>4, <1>5, <1>6
      <3> QED BY <1>4, <2>1, <3>1, <3>2 DEF StartKnows, GoodSteps
    <2> QED BY <1>2, <1>3, <2>1, <2>2, RunLemma
  <1>7. CASE /\ inet_pton(text)
             /\ start' = [start EXCEPT !.parsed[field] = text,
                                       !.i = IF @ < 4 THEN @ + 1 ELSE 1,
                                       !.pc = IF start.i < 4 THEN "parse" ELSE "cidr_mask"]
    <2> DEFINE nextI == IF start.i < 4 THEN start.i + 1 ELSE 1
               nextPc == IF start.i < 4 THEN "parse" ELSE "cidr_mask"
               nextParsed == [start.parsed EXCEPT ![field] = text]
    <2>1. nextI \in 1..4 /\ nextPc \in StartPC /\ nextParsed \in [Field -> Text]
      BY <1>4, StepLemma DEF StartPC
    <2>2. /\ start' = [start EXCEPT !.parsed = nextParsed, !.i = nextI, !.pc = nextPc]
      BY <1>7, StepLemma DEF StartRecord
    <2>3. start' \in StartRecord
      <3> HIDE DEF nextI, nextPc, nextParsed
      <3>1. \A s \in StartRecord : [s EXCEPT !.parsed = nextParsed] \in StartRecord
        BY <2>1 DEF StartRecord
      <3>2. \A s \in StartRecord : [s EXCEPT !.i = nextI] \in StartRecord
        BY <2>1 DEF StartRecord
      <3>3. \A s \in StartRecord : [s EXCEPT !.pc = nextPc] \in StartRecord
        BY <2>1 DEF StartRecord, StartPC
      <3>4. start' = [[[start EXCEPT !.parsed = nextParsed] EXCEPT !.i = nextI]
                        EXCEPT !.pc = nextPc]
        BY <2>2, StepLemma DEF StartRecord
      <3> QED BY <3>1, <3>2, <3>3, <3>4, StepLemma
    <2>4. /\ start'.pc = nextPc /\ start'.i = nextI /\ start'.parsed = nextParsed
          /\ start'.result = "none" /\ start'.parameterPtr = start.parameterPtr
      <3> HIDE DEF nextI, nextPc, nextParsed
      <3> QED BY <1>4, <2>2, StepLemma DEF StartRecord
    <2>5. ~changed => Parsed(start'.parsed, ip', start.i + 1)
      <3>1. SUFFICES ASSUME ~changed, NEW j \in 1..4, j < start.i + 1
                     PROVE  /\ start'.parsed[FieldOrder[j]] = ip'[FieldOrder[j]]
                            /\ inet_pton(ip'[FieldOrder[j]])
        BY DEF Parsed
      <3>2. CASE j = start.i
        BY <1>4, <1>5, <1>7, <2>4, <3>1, <3>2, StepLemma
      <3>3. CASE j # start.i
        <4>1. j < start.i /\ FieldOrder[j] # field /\ FieldOrder[j] \in Field
          BY <3>1, <3>3, StepLemma, OrderLemma
        <4> QED BY <1>4, <1>5, <2>4, <3>1, <4>1, StepLemma DEF Parsed
      <3> QED BY <3>2, <3>3
    <2>6. CASE start.i < 4
      <3>1. ~changed => StartKnows'
        BY <1>4, <2>4, <2>5, <2>6 DEF StartKnows, GoodSteps
      <3> QED BY <1>2, <1>3, <2>3, <2>4, <3>1, RunLemma
    <2>7. CASE ~(start.i < 4)
      <3>1. start.i = 4
        BY <2>7, StepLemma
      <3>2. ~changed => Parsed(start'.parsed, ip', 5)
        BY <2>5, <3>1
      <3>3. ~changed => StartKnows'
        BY <1>4, <2>4, <2>7, <3>2 DEF StartKnows, GoodSteps
      <3> QED BY <1>2, <1>3, <2>3, <2>4, <3>3, RunLemma
    <2> QED BY <2>6, <2>7
  <1> QED BY <1>1, <1>6, <1>7

LEMMA CidrMaskInv == ASSUME AddressInv, CidrMask PROVE AddressInv'
  <1>0. PICK text \in Reads("ip_netmask") : \E n \in PrefixLength(text) :
          start' = [start EXCEPT !.pc = "cidr_ap", !.prefix = n]
    BY DEF CidrMask
  <1>1. PICK n \in PrefixLength(text) : start' = [start EXCEPT !.pc = "cidr_ap", !.prefix = n]
    BY <1>0
  <1>2. /\ UNCHANGED <<hosts, dnsmasqConf, interface, changed, alive>> /\ KeepAddress
        /\ start.pc = "cidr_mask"
    BY DEF CidrMask, At, sysVars
  <1>3. /\ hosts' \in Text \cup {None} /\ alive' \in BOOLEAN
        /\ dnsmasqConf' \in [listen: Text, from: Text, to: Text] \cup {None}
        /\ interface' \in [address: Text, prefix: 0..32] \cup {None}
    BY <1>2, StepLemma DEF AddressTypeOK
  <1>4. n \in 0..32 /\ start.result = "none" /\ ip' = ip
    BY <1>2, StepLemma, PrefixLemma DEF KeepAddress
  <1>5. start' \in StartRecord
    <2>1. \A s \in StartRecord : [s EXCEPT !.pc = "cidr_ap"] \in StartRecord
      BY DEF StartRecord
    <2>2. \A s \in StartRecord : [s EXCEPT !.prefix = n] \in StartRecord
      BY <1>4 DEF StartRecord
    <2>3. start' = [[start EXCEPT !.pc = "cidr_ap"] EXCEPT !.prefix = n]
      BY <1>1, StepLemma DEF StartRecord
    <2> QED BY <2>1, <2>2, <2>3, StepLemma
  <1>6. /\ start'.pc = "cidr_ap" /\ start'.prefix = n /\ start'.result = "none"
        /\ start'.parsed = start.parsed /\ start'.parameterPtr = start.parameterPtr
    BY <1>1, <1>4, StepLemma DEF StartRecord
  <1>7. ~changed => n \in PrefixLength(ip["ip_netmask"])
    BY StepLemma DEF Field
  <1>8. ~changed => StartKnows'
    BY <1>2, <1>4, <1>6, <1>7, StepLemma DEF StartKnows, GoodSteps
  <1> QED BY <1>2, <1>3, <1>5, <1>6, <1>8, RunLemma

LEMMA CidrApInv == ASSUME AddressInv, CidrAp PROVE AddressInv'
  <1>1. PICK text \in Reads("ip_ap") : start' = [start EXCEPT !.pc = "test", !.address = text]
    BY DEF CidrAp
  <1>2. /\ UNCHANGED <<hosts, dnsmasqConf, interface, changed, alive>> /\ KeepAddress
        /\ start.pc = "cidr_ap"
    BY DEF CidrAp, At, sysVars
  <1>3. /\ hosts' \in Text \cup {None} /\ alive' \in BOOLEAN
        /\ dnsmasqConf' \in [listen: Text, from: Text, to: Text] \cup {None}
        /\ interface' \in [address: Text, prefix: 0..32] \cup {None}
    BY <1>2, StepLemma DEF AddressTypeOK
  <1>4. /\ text \in Text /\ start.result = "none" /\ ip' = ip
        /\ ~changed => text = ip["ip_ap"]
    BY <1>2, StepLemma DEF KeepAddress, Field
  <1>5. start' \in StartRecord
    <2>1. \A s \in StartRecord : [s EXCEPT !.pc = "test"] \in StartRecord
      BY DEF StartRecord
    <2>2. \A s \in StartRecord : [s EXCEPT !.address = text] \in StartRecord
      BY <1>4 DEF StartRecord
    <2>3. start' = [[start EXCEPT !.pc = "test"] EXCEPT !.address = text]
      BY <1>1, StepLemma DEF StartRecord
    <2> QED BY <2>1, <2>2, <2>3, StepLemma
  <1>6. /\ start'.pc = "test" /\ start'.address = text /\ start'.result = "none"
        /\ start'.parsed = start.parsed /\ start'.parameterPtr = start.parameterPtr
        /\ start'.prefix = start.prefix
    BY <1>1, <1>4, StepLemma DEF StartRecord
  <1>7. ~changed => StartKnows'
    BY <1>2, <1>4, <1>6, StepLemma DEF StartKnows, GoodSteps
  <1> QED BY <1>2, <1>3, <1>5, <1>6, <1>7, RunLemma

LEMMA TestInv == ASSUME AddressInv, TestRange PROVE AddressInv'
  <1> DEFINE ap == start.parsed["ip_ap"].quad
             from == start.parsed["ip_start"].quad
             to == start.parsed["ip_stop"].quad
             Refused == \/ start.parameterPtr # "none"
                        \/ Within(ap, from, to) \/ Within(ap, to, from)
  <1>1. /\ UNCHANGED <<hosts, dnsmasqConf, interface, changed, alive>> /\ KeepAddress
        /\ start.pc = "test"
        /\ IF Refused THEN Finish("refused") ELSE Jump("wlan_up")
    BY DEF TestRange, At, sysVars, Field
  <1>2. /\ hosts' \in Text \cup {None} /\ alive' \in BOOLEAN
        /\ dnsmasqConf' \in [listen: Text, from: Text, to: Text] \cup {None}
        /\ interface' \in [address: Text, prefix: 0..32] \cup {None}
    BY <1>1, StepLemma DEF AddressTypeOK
  <1>3. start.result = "none" /\ ip' = ip
    BY <1>1, StepLemma DEF KeepAddress
  <1>4. ~changed => (Refused <=> ~GoodRange(ip))
    <2>1. SUFFICES ASSUME ~changed PROVE Refused <=> ~GoodRange(ip)
      OBVIOUS
    <2>2. CASE start.parameterPtr # "none"
      BY <1>1, <2>1, <2>2, StepLemma DEF StartKnows, GoodRange, inet_pton
    <2>3. CASE start.parameterPtr = "none"
      <3>1. ASSUME NEW f \in Field
            PROVE  start.parsed[f] = ip[f] /\ inet_pton(ip[f]) /\ Quad(ip[f].quad)
        <4>1. start.parsed[f] = ip[f] /\ inet_pton(ip[f])
          <5>1. PICK i \in 1..4 : f = FieldOrder[i]
            BY OrderLemma
          <5>2. i < 5
            OBVIOUS
          <5> QED BY <1>1, <2>1, <2>3, <5>1, <5>2, StepLemma DEF StartKnows, Parsed
        <4>2. ip[f].quad \in Seq(0..255) /\ Len(ip[f].quad) \in {0, 4} /\ ip[f].quad # <<>>
          BY <4>1, StepLemma, TextLemma DEF IsText, inet_pton
        <4> QED BY <4>1, <4>2, EmptySeq DEF Quad
      <3>2. /\ ap = ip["ip_ap"].quad /\ from = ip["ip_start"].quad /\ to = ip["ip_stop"].quad
            /\ Quad(ap) /\ Quad(from) /\ Quad(to)
        BY <3>1 DEF Field
      <3>3. Refused <=> Within(ap, from, to) \/ Within(ap, to, from)
        BY <2>3
      <3>4. GoodRange(ip) <=> (Below(ap, from) /\ Below(ap, to)) \/ (Below(from, ap) /\ Below(to, ap))
        BY <3>1, <3>2 DEF GoodRange, inet_pton
      <3> HIDE DEF ap, from, to
      <3> QED BY <3>2, <3>3, <3>4, TestLemma
    <2> QED BY <2>2, <2>3
  <1>5. CASE Refused
    <2>1. ~changed => StartDid'
      BY <1>1, <1>3, <1>4, <1>5, FinishLemma DEF StartDid
    <2> QED BY <1>1, <1>2, <1>5, <2>1, EndLemma
  <1>6. CASE ~Refused
    <2>1. /\ start' \in StartRecord /\ start'.pc = "wlan_up" /\ start'.result = "none"
          /\ start'.prefix = start.prefix /\ start'.address = start.address
      BY <1>1, <1>3, <1>6, JumpLemma, StepLemma DEF StartPC
    <2>2. ~changed => GoodRange(ip)
      BY <1>4, <1>6
    <2>3. ~changed => StartKnows'
      BY <1>1, <1>3, <2>1, <2>2, StepLemma DEF StartKnows, GoodSteps
    <2> QED BY <1>1, <1>2, <2>1, <2>3, RunLemma
  <1> QED BY <1>5, <1>6

LEMMA WlanUpInv == ASSUME AddressInv, WlanUp PROVE AddressInv'
  <1>1. PICK text \in Reads("ip_ap") :
          \/ /\ inet_pton(text)
             /\ interface' = [address |-> text, prefix |-> 32]
             /\ Jump("hosts")
          \/ /\ ~inet_pton(text) \/ Fails("wlan_up")
             /\ interface' \in {interface, None}
             /\ Finish("failed")
    BY DEF WlanUp
  <1>2. /\ UNCHANGED <<hosts, dnsmasqConf, changed, alive>> /\ KeepAddress
        /\ start.pc = "wlan_up"
    BY DEF WlanUp, At
  <1>3. /\ hosts' \in Text \cup {None} /\ alive' \in BOOLEAN
        /\ dnsmasqConf' \in [listen: Text, from: Text, to: Text] \cup {None}
        /\ interface \in [address: Text, prefix: 0..32] \cup {None}
        /\ text \in Text /\ start.result = "none" /\ ip' = ip
    BY <1>2, StepLemma DEF AddressTypeOK, Field, KeepAddress
  <1>4. CASE interface' = [address |-> text, prefix |-> 32] /\ Jump("hosts")
    <2>1. interface' \in [address: Text, prefix: 0..32] \cup {None}
      BY <1>3, <1>4
    <2>2. /\ start' \in StartRecord /\ start'.pc = "hosts" /\ start'.result = "none"
          /\ start'.prefix = start.prefix /\ start'.address = start.address
      BY <1>3, <1>4, JumpLemma, StepLemma DEF StartPC
    <2>3. ~changed => StartKnows'
      BY <1>2, <1>3, <2>2, StepLemma DEF StartKnows, GoodSteps
    <2> QED BY <1>2, <1>3, <2>1, <2>2, <2>3, RunLemma
  <1>5. CASE interface' \in {interface, None} /\ Finish("failed")
    <2>1. interface' \in [address: Text, prefix: 0..32] \cup {None}
      BY <1>3, <1>5
    <2>2. StartDid'
      BY <1>5, FinishLemma DEF StartDid
    <2> QED BY <1>2, <1>3, <1>5, <2>1, <2>2, EndLemma
  <1> QED BY <1>1, <1>4, <1>5

\* The process ends in the middle of a file.
LEMMA FopenInv ==
  ASSUME AddressInv, FopenFails, UNCHANGED <<interface, changed>>, KeepAddress
  PROVE  AddressInv'
  <1>1. alive' = FALSE /\ UNCHANGED <<start, hosts, dnsmasqConf, ip, call, accepted, calls>>
    BY DEF FopenFails, Die, KeepAddress
  <1>2. AddressTypeOK /\ RangeOfOneCall /\ Copying /\ Steady
    BY DEF AddressInv
  <1>3. AddressTypeOK'
    BY <1>1, <1>2 DEF AddressTypeOK
  <1>4. RangeOfOneCall' /\ Copying' /\ Steady'
    BY <1>1, <1>2 DEF RangeOfOneCall, Copying, Steady
  <1>5. ~changed => StartKnows' /\ StartDid'
    BY <1>1 DEF AddressInv, StartKnows, StartDid
  <1> QED BY <1>1, <1>3, <1>4, <1>5 DEF AddressInv

LEMMA HostsInv == ASSUME AddressInv, WriteHosts PROVE AddressInv'
  <1>1. /\ \/ /\ hosts' \in Reads("ip_ap")
              /\ Jump("dnsmasq_conf")
              /\ UNCHANGED <<dnsmasqConf, alive>>
           \/ FopenFails
        /\ UNCHANGED <<interface, changed>> /\ KeepAddress /\ start.pc = "hosts"
    BY DEF WriteHosts, At
  <1>2. CASE hosts' \in Reads("ip_ap") /\ Jump("dnsmasq_conf") /\ UNCHANGED <<dnsmasqConf, alive>>
    <2>1. /\ hosts' \in Text \cup {None} /\ alive' \in BOOLEAN
          /\ dnsmasqConf' \in [listen: Text, from: Text, to: Text] \cup {None}
          /\ interface' \in [address: Text, prefix: 0..32] \cup {None}
          /\ start.result = "none" /\ ip' = ip
          /\ ~changed => hosts' = ip["ip_ap"]
      BY <1>1, <1>2, StepLemma DEF AddressTypeOK, Field, KeepAddress
    <2>2. /\ start' \in StartRecord /\ start'.pc = "dnsmasq_conf" /\ start'.result = "none"
          /\ start'.prefix = start.prefix /\ start'.address = start.address
      BY <1>2, <2>1, JumpLemma, StepLemma DEF StartPC
    <2>3. ~changed => StartKnows'
      BY <1>1, <2>1, <2>2, StepLemma DEF StartKnows, GoodSteps
    <2> QED BY <1>1, <2>1, <2>2, <2>3, RunLemma
  <1> QED BY <1>1, <1>2, FopenInv

LEMMA DnsmasqConfInv == ASSUME AddressInv, WriteDnsmasqConf PROVE AddressInv'
  <1> DEFINE Written ==
        \E listen \in Reads("ip_ap"), from \in Reads("ip_start"), to \in Reads("ip_stop") :
          dnsmasqConf' = [listen |-> listen, from |-> from, to |-> to]
  <1>1. /\ \/ Written /\ Jump("dnsmasq") /\ UNCHANGED <<hosts, alive>>
           \/ FopenFails
        /\ UNCHANGED <<interface, changed>> /\ KeepAddress /\ start.pc = "dnsmasq_conf"
    BY DEF WriteDnsmasqConf, At
  <1>2. CASE Written /\ Jump("dnsmasq") /\ UNCHANGED <<hosts, alive>>
    <2>1. /\ dnsmasqConf' \in [listen: Text, from: Text, to: Text]
          /\ ~changed => dnsmasqConf' = ConfOf(ip)
      <3>1. PICK listen \in Reads("ip_ap"), from \in Reads("ip_start"), to \in Reads("ip_stop") :
              dnsmasqConf' = [listen |-> listen, from |-> from, to |-> to]
        BY <1>2
      <3>2. listen \in Text /\ from \in Text /\ to \in Text
        BY StepLemma DEF Field
      <3>3. ~changed => listen = ip["ip_ap"] /\ from = ip["ip_start"] /\ to = ip["ip_stop"]
        BY StepLemma DEF Field
      <3> QED BY <3>1, <3>2, <3>3 DEF ConfOf
    <2>2. /\ hosts' \in Text \cup {None} /\ alive' \in BOOLEAN
          /\ interface' \in [address: Text, prefix: 0..32] \cup {None}
          /\ start.result = "none" /\ ip' = ip /\ hosts' = hosts
      BY <1>1, <1>2, StepLemma DEF AddressTypeOK, KeepAddress
    <2>3. /\ start' \in StartRecord /\ start'.pc = "dnsmasq" /\ start'.result = "none"
          /\ start'.prefix = start.prefix /\ start'.address = start.address
      BY <1>2, <2>2, JumpLemma, StepLemma DEF StartPC
    <2> HIDE DEF Written
    <2>4. ~changed => StartKnows'
      BY <1>1, <2>1, <2>2, <2>3, StepLemma DEF StartKnows, GoodSteps
    <2> QED BY <1>1, <2>1, <2>2, <2>3, <2>4, RunLemma
  <1> QED BY <1>1, <1>2, FopenInv

LEMMA RestartInv == ASSUME AddressInv, DnsmasqRestart PROVE AddressInv'
  <1> DEFINE up == [address |-> start.address, prefix |-> start.prefix]
  <1>1. /\ UNCHANGED <<hosts, dnsmasqConf, changed, alive>> /\ KeepAddress
        /\ start.pc = "dnsmasq"
        /\ \/ interface' = up /\ Finish("ok")
           \/ interface' \in {interface, None, up} /\ Finish("failed")
    BY DEF DnsmasqRestart, At
  <1>2. up \in [address: Text, prefix: 0..32]
    BY StepLemma
  <1>3. /\ hosts' \in Text \cup {None} /\ alive' \in BOOLEAN
        /\ dnsmasqConf' \in [listen: Text, from: Text, to: Text] \cup {None}
        /\ interface \in [address: Text, prefix: 0..32] \cup {None}
        /\ ip' = ip
    BY <1>1, StepLemma DEF AddressTypeOK, KeepAddress
  <1>4. CASE interface' = up /\ Finish("ok")
    <2>1. interface'.address = start.address /\ interface'.prefix = start.prefix
      BY <1>4
    <2>2. ~changed => StartDid'
      BY <1>1, <1>3, <1>4, <2>1, FinishLemma, StepLemma DEF StartDid, StartKnows, GoodSteps
    <2>3. interface' \in [address: Text, prefix: 0..32] \cup {None}
      BY <1>2, <1>4
    <2> QED BY <1>1, <1>3, <1>4, <2>2, <2>3, EndLemma
  <1>5. CASE interface' \in {interface, None, up} /\ Finish("failed")
    <2>1. StartDid'
      BY <1>5, FinishLemma DEF StartDid
    <2>2. interface' \in [address: Text, prefix: 0..32] \cup {None}
      BY <1>2, <1>3, <1>5
    <2> QED BY <1>1, <1>3, <1>5, <2>1, <2>2, EndLemma
  <1> QED BY <1>1, <1>4, <1>5

-----------------------------------------------------------------------------
(* Theorems *)

LEMMA AddressInductive == AddressInv /\ [Next]_vars => AddressInv'
  <1> SUFFICES ASSUME AddressInv, [Next]_vars PROVE AddressInv'
    OBVIOUS
  <1>1. CASE setIpRange \/ CopyField
    BY <1>1, SetIpRangeInv
  <1>2. CASE setDnsmasqService
    BY <1>2, BeginInv, CheckInv, ParseInv, CidrMaskInv, CidrApInv, TestInv, WlanUpInv,
       HostsInv, DnsmasqConfInv, RestartInv DEF setDnsmasqService
  <1>3. CASE UNCHANGED vars
    <2>1. UNCHANGED <<ip, call, start, hosts, dnsmasqConf, interface, accepted, calls,
                      changed, alive>>
      BY <1>3 DEF vars, sysVars
    <2>2. AddressTypeOK' /\ RangeOfOneCall'
      BY <2>1 DEF AddressInv, AddressTypeOK, RangeOfOneCall
    <2>3. Copying' /\ Steady'
      BY <2>1 DEF AddressInv, Copying, Steady
    <2>4. ~changed => StartKnows' /\ StartDid'
      BY <2>1 DEF AddressInv, StartKnows, StartDid
    <2> QED BY <2>1, <2>2, <2>3, <2>4 DEF AddressInv
  <1> QED BY <1>1, <1>2, <1>3 DEF Next

LEMMA AddressInvariant == Spec => []AddressInv
  BY InitAddress, AddressInductive, PTL DEF Spec

\* The state of the addresses, of the files and of the interface keeps its type: no
\* prefix length is above 32, whatever toCidr finds of a text that is no address.
THEOREM AddressTypes == Spec => []AddressTypeOK
  <1>1. AddressInv => AddressTypeOK
    BY DEF AddressInv
  <1> QED BY <1>1, AddressInvariant, PTL

\* Between calls of setIpRange the four fields come from one call, however the starts
\* that read them interleave.
THEOREM OneCallRange == Spec => []RangeOfOneCall
  <1>1. AddressInv => RangeOfOneCall
    BY DEF AddressInv
  <1> QED BY <1>1, AddressInvariant, PTL

\* A start that no setIpRange disturbs refuses exactly the ranges that are not good and
\* gives the tested range to the hosts file, to dnsmasq and to the interface.
THEOREM TestedRangeUsed == Spec => []StartUsesTestedRange
  <1>1. AddressInv => StartUsesTestedRange
    BY DEF AddressInv, StartDid, StartUsesTestedRange, ConfOf
  <1> QED BY <1>1, AddressInvariant, PTL

\* It gives the interface the prefix length of the mask, for each of the 33 masks.
THEOREM MaskOfInterface == Spec => []PrefixFitsMask
  <1>1. ASSUME AddressInv, ~changed, start.result = "ok",
               NEW n \in 0..32, ip["ip_netmask"].quad = Mask(n)
        PROVE  interface.prefix = n
    <2>1. interface.prefix \in PrefixLength(ip["ip_netmask"]) /\ GoodRange(ip)
      BY <1>1 DEF AddressInv, StartDid
    <2>2. inet_pton(ip["ip_netmask"])
      BY <2>1 DEF GoodRange, inet_pton, Field
    <2>3. interface.prefix = toCidr(Mask(n))
      BY <1>1, <2>1, <2>2 DEF PrefixLength
    <2> QED BY <2>3, toCidrOfMask
  <1>2. AddressInv => PrefixFitsMask
    BY <1>1 DEF PrefixFitsMask
  <1> QED BY <1>2, AddressInvariant, PTL

=============================================================================
