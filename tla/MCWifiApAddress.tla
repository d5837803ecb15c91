-------------------------- MODULE MCWifiApAddress --------------------------
(* WifiApAddress for TLC: good and bad ranges.                               *)
EXTENDS WifiApAddress

Address(quad) == [length |-> 13, utf8 |-> TRUE, quad |-> quad]

Range4(ap, from, to, mask) ==
  [ip_ap |-> ap, ip_start |-> from, ip_stop |-> to, ip_netmask |-> mask]

Ap == Address(<<192, 168, 2, 1>>)
Low == Address(<<192, 168, 2, 10>>)
High == Address(<<192, 168, 2, 100>>)
Mask24 == Address(Mask(24))
Name == [length |-> 9, utf8 |-> TRUE, quad |-> <<>>]
Latin1 == [length |-> 9, utf8 |-> FALSE, quad |-> <<>>]
TooLong == [length |-> 16, utf8 |-> TRUE, quad |-> <<>>]

\* Half of High before the end of Low, and of a name.
MCTorn == {Address(<<192, 168, 2, 110>>), Name}

MCRequest ==
  {Range4(Ap, Low, High, Mask24),
   Range4(Low, High, Ap, Mask24),                            \* swapped, AP within
   Range4(High, Low, Ap, Address(Mask(15))),                 \* swapped, AP outside
   Range4(Ap, Low, High, Address(Mask(32))),
   Range4(Ap, Low, High, Address(<<255, 0, 255, 0>>)),       \* not a mask
   Range4(Ap, Low, Name, Mask24),
   Range4(Latin1, Low, High, Mask24),
   Range4(Ap, Low, High, TooLong)}
=============================================================================
