--------------------------- MODULE PrivateRoutes ---------------------------
(***************************************************************************)
(* isPrivateRoute of the Tailscale client (src/integrations/network/       *)
(* tailscale.ts): four regular expressions over the text of an address,    *)
(* for four ranges of IPv4 addresses.  An address is its first two octets  *)
(* and an octet its decimal digits.                                        *)
(***************************************************************************)
EXTENDS Naturals, Sequences

CONSTANTS FirstOctets, SecondOctets, NoAddress

ASSUME OctetsAssumption == FirstOctets \subseteq 0 .. 255 /\ SecondOctets \subseteq 0 .. 255

VARIABLE address

\* an octet as it is written, digit by digit
Decimal(n) ==
  IF n < 10 THEN <<n>>
  ELSE IF n < 100 THEN <<n \div 10, n % 10>>
  ELSE <<n \div 100, n \div 10 % 10, n % 10>>

Matches(text, pattern) ==
  Len(text) = Len(pattern) /\ \A i \in DOMAIN text : text[i] \in pattern[i]

Digit == 0 .. 9

\* mutated form: 100.1[01]x is forgotten
TailscalePatternsShort == {<<{6}, 4 .. 9>>, <<7 .. 9, Digit>>, <<{1}, {2}, 0 .. 7>>}

\* 6[4-9] | [7-9]\d | 1[01]\d | 12[0-7]
TailscalePatterns ==
  {<<{6}, 4 .. 9>>, <<7 .. 9, Digit>>, <<{1}, {0, 1}, Digit>>, <<{1}, {2}, 0 .. 7>>}

\* 1[6-9] | 2\d | 3[01]
Rfc1918Patterns == {<<{1}, 6 .. 9>>, <<{2}, Digit>>, <<{3}, {0, 1}>>}

IsPrivateRoute(a, b) ==
  LET first == Decimal(a)  second == Decimal(b)
  IN \/ first = <<1, 0, 0>> /\ \E p \in TailscalePatterns : Matches(second, p)
     \/ first = <<1, 0>>
     \/ first = <<1, 7, 2>> /\ \E p \in Rfc1918Patterns : Matches(second, p)
     \/ first = <<1, 9, 2>> /\ second = <<1, 6, 8>>

RoutesInit == address = NoAddress

\* an address is asked about
RoutesNext ==
  /\ address = NoAddress
  /\ \E a \in FirstOctets, b \in SecondOctets : address' = <<a, b>>

RoutesSpec == RoutesInit /\ [][RoutesNext]_address

\* The texts are those of 100.64.0.0/10, 10.0.0.0/8, 172.16.0.0/12 and
\* 192.168.0.0/16, address for address (tailscale.ts:171-179).
PrivateRoutesAreTheRanges ==
  address # NoAddress =>
    LET a == address[1]  b == address[2]
    IN IsPrivateRoute(a, b) <=>
         \/ a = 100 /\ b \div 64 = 1
         \/ a = 10
         \/ a = 172 /\ b \div 16 = 1
         \/ a = 192 /\ b = 168
=============================================================================
