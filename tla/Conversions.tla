---------------------------- MODULE Conversions ----------------------------
(***************************************************************************)
(* omnipath's utils/convert: the values of the configuration and of the    *)
(* SBI (decimal and hexadecimal strings) against those of NGAP (octets and *)
(* bit strings).                                                           *)
(*                                                                         *)
(* A decimal string is a sequence of digits.  A hexadecimal string is a    *)
(* sequence of characters, and a character is its value, plus 16 for an    *)
(* upper case letter.  A bit string is the number it stands for.           *)
(***************************************************************************)
EXTENDS Naturals, Sequences

CONSTANT None  \* an absent value

Digit == 0 .. 9
Octet == 0 .. 255
HexChar == 0 .. 15 \cup 26 .. 31
HexStrings == [1 .. 6 -> HexChar]

AmfIds == [region : 0 .. 255, set : 0 .. 1023, pointer : 0 .. 63]
Snssais == [sst : Octet, sd : HexStrings \cup {None}]
Plmns == [mcc : [1 .. 3 -> Digit], mnc : [1 .. 2 -> Digit] \cup [1 .. 3 -> Digit]]

Tais == [plmn_id : Plmns, tac : HexStrings, nid : STRING \cup {None}]
Octets == [1 .. 3 -> Octet]

ASSUME NoneAssumption == None \notin Plmns \cup HexStrings \cup Tais \cup Octets

-----------------------------------------------------------------------------
(* PLMN identities                                                         *)

TwoDigits(plmn) == DOMAIN plmn.mnc = 1 .. 2

ConvertMccMncToPlmnId(plmn) ==
    LET mcc == plmn.mcc
        mnc == plmn.mnc
    IN  <<16 * mcc[2] + mcc[1],
          16 * (IF TwoDigits(plmn) THEN 15 ELSE mnc[1]) + mcc[3],
          IF TwoDigits(plmn) THEN 16 * mnc[2] + mnc[1] ELSE 16 * mnc[3] + mnc[2]>>

\* Mutant: the digits of a short MNC in the order of the octet's halves.
SwappedMnc(o) ==
    IF o[2] \div 16 >= 10 THEN <<o[3] \div 16, o[3] % 16>>
                          ELSE <<o[2] \div 16, o[3] % 16, o[3] \div 16>>

\* Whatever is not a digit in the place of the first MNC digit is a filler.
MncOf(o) ==
    IF o[2] \div 16 >= 10 THEN <<o[3] % 16, o[3] \div 16>>
                          ELSE <<o[2] \div 16, o[3] % 16, o[3] \div 16>>

\* None for a ConversionError.
ConvertPlmnIdToMccMnc(o) ==
    IF {o[1] % 16, o[1] \div 16, o[2] % 16, o[3] \div 16, o[3] % 16} \subseteq Digit
    THEN [mcc |-> <<o[1] % 16, o[1] \div 16, o[2] % 16>>, mnc |-> MncOf(o)]
    ELSE None

-----------------------------------------------------------------------------
(* Hexadecimal strings of three octets: TACs and slice differentiators     *)

HexDecode(s) == [i \in 1 .. 3 |-> 16 * (s[2 * i - 1] % 16) + (s[2 * i] % 16)]

\* Always in lower case.
HexString(o) ==
    [k \in 1 .. 6 |-> IF k % 2 = 1 THEN o[(k + 1) \div 2] \div 16 ELSE o[k \div 2] % 16]

ConvertSbiTacToNgapTac(tac) == HexDecode(tac)
ConvertNgapTacToSbiTac(tac) == HexString(tac)

\* Mutant: the slice differentiator is left out.
WithoutSd(snssai) == [sst |-> snssai.sst, sd |-> None]

ConvertSbiSnssaiToNgapSnssai(snssai) ==
    [sst |-> snssai.sst, sd |-> IF snssai.sd = None THEN None ELSE HexDecode(snssai.sd)]

ConvertNgapSnssaiToSbiSnssai(snssai) ==
    [sst |-> snssai.sst, sd |-> IF snssai.sd = None THEN None ELSE HexString(snssai.sd)]

-----------------------------------------------------------------------------
(* AMF identities and lists                                                *)

\* Mutant: the set id is stored from an octet.
SetIdFromOctet(amf_id) ==
    [region |-> amf_id.region % 256, set |-> amf_id.set % 256, pointer |-> amf_id.pointer % 64]

\* store_be keeps the low 8, 10 and 6 bits.
ConvertAmfId(amf_id) ==
    [region |-> amf_id.region % 256, set |-> amf_id.set % 1024, pointer |-> amf_id.pointer % 64]

ConvertGuami(guami) ==
    [plmn |-> ConvertMccMncToPlmnId(guami.plmn_id), amf_id |-> ConvertAmfId(guami.amf_id)]

ConvertGuamiList(list) == [i \in DOMAIN list |-> ConvertGuami(list[i])]

ConvertSliceList(list) == [i \in DOMAIN list |-> ConvertSbiSnssaiToNgapSnssai(list[i])]

ConvertPlmnSupportItem(item) ==
    [plmn |-> ConvertMccMncToPlmnId(item.plmn_id), slices |-> ConvertSliceList(item.snssai_list)]

ConvertPlmnSupportList(list) == [i \in DOMAIN list |-> ConvertPlmnSupportItem(list[i])]

-----------------------------------------------------------------------------
(* Reference: the rules in the comment of mcc_mnc_plmnid.rs.  Two digits   *)
(* per octet, the earlier one in the low half: the MCC, then the MNC, with *)
(* a filler (1111) before an MNC of two digits.                            *)

DigitString(plmn, filler) ==
    plmn.mcc \o (IF TwoDigits(plmn) THEN <<filler>> ELSE <<>>) \o plmn.mnc

ReferencePlmn(plmn, filler) ==
    LET digits == DigitString(plmn, filler)
    IN  [n \in 1 .. 3 |-> 16 * digits[2 * n] + digits[2 * n - 1]]

\* The digits an octet string is made of; all but the fourth must be decimal.
Halves(o) == [k \in 1 .. 6 |-> IF k % 2 = 1 THEN o[(k + 1) \div 2] % 16 ELSE o[k \div 2] \div 16]

Readable(o) == \A k \in 1 .. 6 \ {4} : Halves(o)[k] \in Digit

Lower(s) == \A i \in DOMAIN s : s[i] < 16
=============================================================================
