----------------------------- MODULE Addresses ------------------------------
(***************************************************************************)
(* What an address is, as ip.ts of the GitLab client sees it: how a        *)
(* written address is read, and to which category it belongs.              *)
(*                                                                         *)
(* A written IPv4 address is its four numbers, [v4 |-> <<a, b, c, d>>].  A *)
(* written IPv6 address is its groups left and right of "::", whether "::" *)
(* is there, and the dotted tail it may end in:                            *)
(* [left |-> .., gap |-> .., right |-> .., tail |-> octets or <<>>].       *)
(* Characters are left out: hexadecimal digits, leading zeros, brackets.   *)
(***************************************************************************)
EXTENDS Integers, Sequences

Byte == 0..255
Octets == [1..4 -> Byte]
IsV4(text) == DOMAIN text = {"v4"}

\* An address as a resolver gives it; one of IPv6 need not be readable.
Group == 0..65535
Text == [v4 : Octets]
        \cup [left : Seq(Group), gap : BOOLEAN, right : Seq(Group), tail : Octets \cup {<<>>}]

\* parseIpv4 refuses what is not four numbers of a byte.
ParseV4(numbers) == IF numbers \in Octets THEN numbers ELSE <<>>

Zeros(n) == [i \in 1..n |-> 0]
AllZero(bytes, m, n) == \A i \in m..n : bytes[i] = 0

\* The eight groups: "::" stands for as many zeros as are missing, and for one
\* at least.
Groups(text) ==
    LET after == text.right \o (IF text.tail = <<>> THEN <<>> ELSE <<0, 0>>)
        missing == 8 - Len(text.left) - Len(after) IN
    IF IF text.gap THEN missing >= 1 ELSE missing = 0
    THEN text.left \o Zeros(missing) \o after ELSE <<>>

\* parseIpv6, 16 bytes or none; a dotted tail replaces the last four.
ParseV6(text) ==
    LET groups == Groups(text)
        bytes == [i \in 1..16 |-> IF i % 2 = 1 THEN groups[(i + 1) \div 2] \div 256
                                              ELSE groups[i \div 2] % 256] IN
    IF groups = <<>> \/ (text.tail # <<>> /\ ParseV4(text.tail) = <<>>) THEN <<>>
    ELSE IF text.tail = <<>> THEN bytes ELSE SubSeq(bytes, 1, 12) \o text.tail

MetadataV4 == {<<169, 254, 169, 254>>, <<100, 100, 100, 200>>}

CategoryV4(o) ==
    LET a == o[1] b == o[2] IN
    IF o \in MetadataV4 THEN "metadata"
    ELSE CASE a = 127 -> "loopback"
           [] a = 0 -> "unspecified"
           [] a = 169 /\ b = 254 -> "linkLocal"
           [] \/ a = 10
              \/ <<a, b>> \in ({172} \X (16..31)) \cup {<<192, 168>>} \cup ({100} \X (64..127)) -> "private"
           [] a \in 224..239 -> "multicast"
           [] \/ SubSeq(o, 1, 3) \in {<<192, 0, 0>>, <<192, 0, 2>>, <<198, 51, 100>>, <<203, 0, 113>>}
              \/ <<a, b>> \in {198} \X {18, 19}
              \/ a >= 240 -> "reserved"
           [] OTHER -> "public"

MetadataV6 == <<253, 0, 14, 194>> \o Zeros(10) \o <<2, 84>>

CategoryV6(bytes) ==
    LET b0 == bytes[1] b1 == bytes[2] IN
    IF bytes = MetadataV6 THEN "metadata"
    ELSE CASE AllZero(bytes, 1, 16) -> "unspecified"
           [] AllZero(bytes, 1, 15) /\ bytes[16] = 1 -> "loopback"
           [] b0 = 255 -> "multicast"
           [] b0 = 254 /\ b1 \in 128..191 -> "linkLocal"       \* fe80::/10
           [] b0 \in {252, 253} -> "private"                   \* fc00::/7
           [] \/ SubSeq(bytes, 1, 4) \in {<<32, 1, 13, 184>>, <<32, 1, 0, 0>>}
              \/ SubSeq(bytes, 1, 2) = <<32, 2>> -> "reserved"
           [] OTHER -> "public"

IsV4Mapped(bytes) == AllZero(bytes, 1, 10) /\ bytes[11] = 255 /\ bytes[12] = 255

\* The bytes an address stands for: 4, 16, or none if it cannot be read.  The
\* first definition unwraps only what is written with a dotted tail.
BytesOfDotted(text) ==
    IF IsV4(text) THEN ParseV4(text.v4)
    ELSE LET bytes == ParseV6(text) IN
         IF bytes # <<>> /\ IsV4Mapped(bytes) /\ text.tail # <<>> THEN SubSeq(bytes, 13, 16) ELSE bytes
BytesOf(text) ==
    IF IsV4(text) THEN ParseV4(text.v4)
    ELSE LET bytes == ParseV6(text) IN
         IF bytes # <<>> /\ IsV4Mapped(bytes) THEN SubSeq(bytes, 13, 16) ELSE bytes

\* classifyIpAddress
Category(text) ==
    LET bytes == BytesOf(text) IN
    CASE Len(bytes) = 4 -> CategoryV4(bytes)
      [] Len(bytes) = 16 -> CategoryV6(bytes)
      [] OTHER -> "unknown"

-----------------------------------------------------------------------------
\* Other ways to write an address: the groups in full, a dotted tail, and an
\* IPv4 address inside IPv6.
InFull(groups) == [left |-> groups, gap |-> FALSE, right |-> <<>>, tail |-> <<>>]
Mapped(o) == [left |-> <<>>, gap |-> TRUE, right |-> <<65535>>, tail |-> o]
Respelled(text) ==
    IF IsV4(text) THEN LET hex == <<text.v4[1] * 256 + text.v4[2], text.v4[3] * 256 + text.v4[4]>> IN
                       {Mapped(text.v4), InFull(Zeros(5) \o <<65535>> \o hex)}
    ELSE IF text.tail # <<>> \/ Groups(text) = <<>> THEN {text}
    ELSE LET bytes == ParseV6(text) IN
         {InFull(Groups(text)), [InFull(SubSeq(Groups(text), 1, 6)) EXCEPT !.tail = SubSeq(bytes, 13, 16)]}
=============================================================================
