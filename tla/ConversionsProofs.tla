------------------------- MODULE ConversionsProofs -------------------------
(***************************************************************************)
(* What the conversions compute, for every PLMN identity and every string. *)
(***************************************************************************)
EXTENDS Conversions, TLAPS

\* A digit pair is read back from the octet it is packed into.
LEMMA Packing ==
    ASSUME NEW high \in 0 .. 15, NEW low \in 0 .. 15
    PROVE  /\ (16 * high + low) \div 16 = high
           /\ (16 * high + low) % 16 = low
           /\ 16 * high + low \in Octet
  BY DEF Octet

\* An octet is the pair of its halves.
LEMMA Unpacking ==
    ASSUME NEW o \in Octet
    PROVE  /\ o \div 16 \in 0 .. 15
           /\ o % 16 \in 0 .. 15
           /\ 16 * (o \div 16) + (o % 16) = o
  BY DEF Octet

\* The value of a hexadecimal character, without its case.
LEMMA CharValue ==
    ASSUME NEW c \in HexChar
    PROVE  /\ c % 16 \in 0 .. 15
           /\ c < 16 <=> c % 16 = c
  BY DEF HexChar

\* Decoding a hexadecimal string gives octets.
LEMMA HexDecodeType ==
    ASSUME NEW s \in HexStrings
    PROVE  HexDecode(s) \in Octets
  <1>1. \A i \in 1 .. 3 : 2 * i - 1 \in 1 .. 6 /\ 2 * i \in 1 .. 6
    OBVIOUS
  <1>2. \A i \in 1 .. 3 : s[2 * i - 1] % 16 \in 0 .. 15 /\ s[2 * i] % 16 \in 0 .. 15
    BY <1>1, CharValue DEF HexStrings
  <1>3. QED
    BY <1>2, Packing DEF HexDecode, Octets

\* Encoding octets gives a hexadecimal string.
LEMMA HexStringType ==
    ASSUME NEW o \in Octets
    PROVE  HexString(o) \in HexStrings
  <1>1. \A i \in 1 .. 3 : o[i] \div 16 \in HexChar /\ o[i] % 16 \in HexChar
    BY Unpacking DEF Octets, HexChar
  <1>2. QED
    BY <1>1 DEF HexString, HexStrings

\* Encoding what was decoded gives the string in lower case: nothing else of a
\* TAC or of a slice differentiator is lost.
THEOREM HexStringOfDecoded ==
    ASSUME NEW s \in HexStrings
    PROVE  HexString(HexDecode(s)) = [k \in 1 .. 6 |-> s[k] % 16]
  <1>1. \A k \in 1 .. 6 : s[k] % 16 \in 0 .. 15
    BY CharValue DEF HexStrings
  <1>2. ASSUME NEW k \in 1 .. 6
        PROVE  HexString(HexDecode(s))[k] = s[k] % 16
    <2>1. k \in {1, 2, 3, 4, 5, 6}
      OBVIOUS
    <2>2. QED
      BY <1>1, <2>1 DEF HexString, HexDecode
  <1>3. QED
    BY <1>2 DEF HexString

\* Decoding what was encoded gives the octets back.
THEOREM DecodedOfHexString ==
    ASSUME NEW o \in Octets
    PROVE  HexDecode(HexString(o)) = o
  <1>1. ASSUME NEW i \in 1 .. 3
        PROVE  HexDecode(HexString(o))[i] = o[i]
    <2>1. o[i] \in Octet
      BY DEF Octets
    <2>2. HexString(o)[2 * i - 1] = o[i] \div 16 /\ HexString(o)[2 * i] = o[i] % 16
      BY DEF HexString
    <2>3. (o[i] \div 16) % 16 = o[i] \div 16 /\ (o[i] % 16) % 16 = o[i] % 16
      BY <2>1 DEF Octet
    <2>4. QED
      BY <2>1, <2>2, <2>3, Unpacking DEF HexDecode
  <1>2. QED
    BY <1>1 DEF HexDecode, Octets

-----------------------------------------------------------------------------
(* PLMN identities                                                         *)

\* The digits of a PLMN identity, one by one.
LEMMA PlmnDigits ==
    ASSUME NEW plmn \in Plmns
    PROVE  /\ \A k \in 1 .. 3 : plmn.mcc[k] \in Digit
           /\ plmn.mcc = <<plmn.mcc[1], plmn.mcc[2], plmn.mcc[3]>>
           /\ plmn = [mcc |-> plmn.mcc, mnc |-> plmn.mnc]
           /\ TwoDigits(plmn) => /\ \A k \in 1 .. 2 : plmn.mnc[k] \in Digit
                                 /\ plmn.mnc = <<plmn.mnc[1], plmn.mnc[2]>>
           /\ ~TwoDigits(plmn) => /\ \A k \in 1 .. 3 : plmn.mnc[k] \in Digit
                                  /\ plmn.mnc = <<plmn.mnc[1], plmn.mnc[2], plmn.mnc[3]>>
  <1>1. plmn.mcc \in [1 .. 3 -> Digit] /\ plmn = [mcc |-> plmn.mcc, mnc |-> plmn.mnc]
    BY DEF Plmns
  <1>2. TwoDigits(plmn) => plmn.mnc \in [1 .. 2 -> Digit]
    BY DEF Plmns, TwoDigits
  <1>3. ~TwoDigits(plmn) => plmn.mnc \in [1 .. 3 -> Digit]
    BY DEF Plmns, TwoDigits
  <1>4. \A f \in [1 .. 3 -> Digit] : f = <<f[1], f[2], f[3]>>
    OBVIOUS
  <1>5. \A f \in [1 .. 2 -> Digit] : f = <<f[1], f[2]>>
    OBVIOUS
  <1>6. QED
    BY <1>1, <1>2, <1>3, <1>4, <1>5

\* The elements of concatenated tuples.
LEMMA Concatenation ==
    ASSUME NEW a \in Nat, NEW b \in Nat, NEW c \in Nat, NEW d \in Nat, NEW e \in Nat, NEW f \in Nat
    PROVE  /\ LET s == (<<a, b, c>> \o <<d>>) \o <<e, f>>
              IN  s[1] = a /\ s[2] = b /\ s[3] = c /\ s[4] = d /\ s[5] = e /\ s[6] = f
           /\ LET s == (<<a, b, c>> \o <<>>) \o <<d, e, f>>
              IN  s[1] = a /\ s[2] = b /\ s[3] = c /\ s[4] = d /\ s[5] = e /\ s[6] = f
  <1>1. /\ <<a, b, c>> \in Seq(Nat) /\ <<d>> \in Seq(Nat) /\ <<>> \in Seq(Nat)
        /\ <<e, f>> \in Seq(Nat) /\ <<d, e, f>> \in Seq(Nat)
    OBVIOUS
  <1>2. QED
    BY <1>1

\* The halves of the octets of a PLMN identity are its digits.
LEMMA ReferenceDigits ==
    ASSUME NEW plmn \in Plmns, NEW filler \in 0 .. 15
    PROVE  ReferencePlmn(plmn, filler) =
             IF TwoDigits(plmn)
             THEN <<16 * plmn.mcc[2] + plmn.mcc[1], 16 * filler + plmn.mcc[3],
                    16 * plmn.mnc[2] + plmn.mnc[1]>>
             ELSE <<16 * plmn.mcc[2] + plmn.mcc[1], 16 * plmn.mnc[1] + plmn.mcc[3],
                    16 * plmn.mnc[3] + plmn.mnc[2]>>
  <1> DEFINE mcc == plmn.mcc
             mnc == plmn.mnc
             digits == DigitString(plmn, filler)
  <1>1. CASE TwoDigits(plmn)
    <2>1. digits = (<<mcc[1], mcc[2], mcc[3]>> \o <<filler>>) \o <<mnc[1], mnc[2]>>
      BY <1>1, PlmnDigits, Zenon DEF DigitString
    <2>2. /\ mcc[1] \in Nat /\ mcc[2] \in Nat /\ mcc[3] \in Nat
          /\ filler \in Nat /\ mnc[1] \in Nat /\ mnc[2] \in Nat
      BY <1>1, PlmnDigits DEF Digit
    <2>3. /\ digits[1] = mcc[1] /\ digits[2] = mcc[2] /\ digits[3] = mcc[3]
          /\ digits[4] = filler /\ digits[5] = mnc[1] /\ digits[6] = mnc[2]
      <3> HIDE DEF digits, mcc, mnc
      <3>1. QED
        BY <2>1, <2>2, Concatenation
    <2>4. QED
      BY <1>1, <2>3 DEF ReferencePlmn
  <1>2. CASE ~TwoDigits(plmn)
    <2>1. digits = (<<mcc[1], mcc[2], mcc[3]>> \o <<>>) \o <<mnc[1], mnc[2], mnc[3]>>
      BY <1>2, PlmnDigits, Zenon DEF DigitString
    <2>2. /\ mcc[1] \in Nat /\ mcc[2] \in Nat /\ mcc[3] \in Nat
          /\ mnc[1] \in Nat /\ mnc[2] \in Nat /\ mnc[3] \in Nat
      BY <1>2, PlmnDigits DEF Digit
    <2>3. /\ digits[1] = mcc[1] /\ digits[2] = mcc[2] /\ digits[3] = mcc[3]
          /\ digits[4] = mnc[1] /\ digits[5] = mnc[2] /\ digits[6] = mnc[3]
      <3> HIDE DEF digits, mcc, mnc
      <3>1. QED
        BY <2>1, <2>2, Concatenation
    <2>4. QED
      BY <1>2, <2>3 DEF ReferencePlmn
  <1>3. QED
    BY <1>1, <1>2

\* convert_mcc_mnc_to_plmn_id follows the rules in its comment: for every PLMN
\* identity it gives the digits in order, with the filler 1111.
THEOREM PlmnEncoding ==
    ASSUME NEW plmn \in Plmns
    PROVE  ConvertMccMncToPlmnId(plmn) = ReferencePlmn(plmn, 15)
  BY ReferenceDigits DEF ConvertMccMncToPlmnId

\* Every PLMN identity, also with an unusual filler, is read back as itself.
THEOREM PlmnRoundTrip ==
    ASSUME NEW plmn \in Plmns, NEW filler \in 10 .. 15
    PROVE  ConvertPlmnIdToMccMnc(ReferencePlmn(plmn, filler)) = plmn
  <1> DEFINE o == ReferencePlmn(plmn, filler)
             mcc == plmn.mcc
             mnc == plmn.mnc
  <1>1. /\ mcc[1] \in Digit /\ mcc[2] \in Digit /\ mcc[3] \in Digit
        /\ mcc = <<mcc[1], mcc[2], mcc[3]>>
        /\ plmn = [mcc |-> mcc, mnc |-> mnc]
    BY PlmnDigits
  <1>2. CASE TwoDigits(plmn)
    <2>1. mnc[1] \in Digit /\ mnc[2] \in Digit /\ mnc = <<mnc[1], mnc[2]>>
      BY <1>2, PlmnDigits
    <2>2. o = <<16 * mcc[2] + mcc[1], 16 * filler + mcc[3], 16 * mnc[2] + mnc[1]>>
      BY <1>2, ReferenceDigits
    <2>3. /\ o[1] % 16 = mcc[1] /\ o[1] \div 16 = mcc[2] /\ o[2] % 16 = mcc[3]
          /\ o[2] \div 16 = filler /\ o[3] % 16 = mnc[1] /\ o[3] \div 16 = mnc[2]
      BY <1>1, <2>1, <2>2 DEF Digit
    <2>4. MncOf(o) = <<mnc[1], mnc[2]>>
      BY <2>3 DEF MncOf
    <2>5. QED
      BY <1>1, <2>1, <2>3, <2>4 DEF ConvertPlmnIdToMccMnc
  <1>3. CASE ~TwoDigits(plmn)
    <2>1. /\ mnc[1] \in Digit /\ mnc[2] \in Digit /\ mnc[3] \in Digit
          /\ mnc = <<mnc[1], mnc[2], mnc[3]>>
      BY <1>3, PlmnDigits
    <2>2. o = <<16 * mcc[2] + mcc[1], 16 * mnc[1] + mcc[3], 16 * mnc[3] + mnc[2]>>
      BY <1>3, ReferenceDigits
    <2>3. /\ o[1] % 16 = mcc[1] /\ o[1] \div 16 = mcc[2] /\ o[2] % 16 = mcc[3]
          /\ o[2] \div 16 = mnc[1] /\ o[3] % 16 = mnc[2] /\ o[3] \div 16 = mnc[3]
      BY <1>1, <2>1, <2>2 DEF Digit
    <2>4. MncOf(o) = <<mnc[1], mnc[2], mnc[3]>>
      BY <2>1, <2>3 DEF MncOf, Digit
    <2>5. QED
      BY <1>1, <2>1, <2>3, <2>4 DEF ConvertPlmnIdToMccMnc
  <1>4. QED
    BY <1>2, <1>3

\* convert_plmn_id_to_mcc_mnc gives a PLMN identity exactly where all halves
\* but that of the first MNC digit are digits.
LEMMA ReadableIsConverted ==
    ASSUME NEW o \in Octets
    PROVE  /\ Readable(o) => ConvertPlmnIdToMccMnc(o) \in Plmns
           /\ Readable(o) <=> ConvertPlmnIdToMccMnc(o) # None
  <1> DEFINE halves == {o[1] % 16, o[1] \div 16, o[2] % 16, o[3] \div 16, o[3] % 16}
  <1>1. Readable(o) <=> halves \subseteq Digit
    <2>1. /\ Halves(o)[1] = o[1] % 16 /\ Halves(o)[2] = o[1] \div 16
          /\ Halves(o)[3] = o[2] % 16
          /\ Halves(o)[5] = o[3] % 16 /\ Halves(o)[6] = o[3] \div 16
      BY DEF Halves
    <2>2. \A k : k \in 1 .. 6 \ {4} <=> k \in {1, 2, 3, 5, 6}
      OBVIOUS
    <2>3. QED
      BY <2>1, <2>2 DEF Readable
  <1>2. ASSUME halves \subseteq Digit
        PROVE  ConvertPlmnIdToMccMnc(o) \in Plmns
    <2>1. <<o[1] % 16, o[1] \div 16, o[2] % 16>> \in [1 .. 3 -> Digit]
      BY <1>2
    <2>2. MncOf(o) \in [1 .. 2 -> Digit] \cup [1 .. 3 -> Digit]
      <3>1. CASE o[2] \div 16 >= 10
        BY <1>2, <3>1 DEF MncOf
      <3>2. CASE ~(o[2] \div 16 >= 10)
        <4>1. o[2] \div 16 \in Digit
          BY <3>2 DEF Octets, Octet, Digit
        <4>2. QED
          BY <1>2, <3>2, <4>1 DEF MncOf
      <3>3. QED
        BY <3>1, <3>2
    <2>3. QED
      BY <1>2, <2>1, <2>2 DEF ConvertPlmnIdToMccMnc, Plmns
  <1>3. ~(halves \subseteq Digit) => ConvertPlmnIdToMccMnc(o) = None
    BY DEF ConvertPlmnIdToMccMnc
  <1>4. QED
    BY <1>1, <1>2, <1>3, NoneAssumption

\* What is read as a PLMN identity is an encoding of it.
LEMMA ConvertedIsEncoded ==
    ASSUME NEW o \in Octets, NEW plmn \in Plmns, ConvertPlmnIdToMccMnc(o) = plmn
    PROVE  \E filler \in 10 .. 15 : o = ReferencePlmn(plmn, filler)
  <1> DEFINE mcc == plmn.mcc
             mnc == plmn.mnc
  <1>1. plmn # None
    BY NoneAssumption
  <1>2. plmn = [mcc |-> <<o[1] % 16, o[1] \div 16, o[2] % 16>>, mnc |-> MncOf(o)]
    BY <1>1 DEF ConvertPlmnIdToMccMnc
  <1>3. mcc[1] = o[1] % 16 /\ mcc[2] = o[1] \div 16 /\ mcc[3] = o[2] % 16
    BY <1>2
  <1>4. /\ 16 * (o[1] \div 16) + (o[1] % 16) = o[1]
        /\ 16 * (o[2] \div 16) + (o[2] % 16) = o[2]
        /\ 16 * (o[3] \div 16) + (o[3] % 16) = o[3]
        /\ o[2] \div 16 \in 0 .. 15
    BY Unpacking DEF Octets
  <1>5. o = <<o[1], o[2], o[3]>>
    BY DEF Octets
  <1>6. CASE o[2] \div 16 >= 10
    <2>1. mnc = <<o[3] % 16, o[3] \div 16>>
      BY <1>2, <1>6 DEF MncOf
    <2>2. TwoDigits(plmn)
      BY <2>1 DEF TwoDigits
    <2>3. o[2] \div 16 \in 10 .. 15
      BY <1>4, <1>6
    <2>4. ReferencePlmn(plmn, o[2] \div 16) = <<o[1], o[2], o[3]>>
      BY <1>3, <1>4, <2>1, <2>2, ReferenceDigits
    <2>5. QED
      BY <1>5, <2>3, <2>4
  <1>7. CASE ~(o[2] \div 16 >= 10)
    <2>1. mnc = <<o[2] \div 16, o[3] % 16, o[3] \div 16>>
      BY <1>2, <1>7 DEF MncOf
    <2>2. ~TwoDigits(plmn)
      BY <2>1 DEF TwoDigits
    <2>3. ReferencePlmn(plmn, 15) = <<o[1], o[2], o[3]>>
      BY <1>3, <1>4, <2>1, <2>2, ReferenceDigits
    <2>4. QED
      BY <1>5, <2>3
  <1>8. QED
    BY <1>6, <1>7
=============================================================================
