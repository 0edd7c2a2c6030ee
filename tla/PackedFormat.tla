---------------------------- MODULE PackedFormat ----------------------------
(***************************************************************************)
(* The bytes of ghidra_wire/packed.py: headers, integers and attribute     *)
(* values, as PackedEncoder writes and PackedDecoder reads them. A byte is *)
(* a number, "data" a sequence of them, and a position counts from 0 as    *)
(* PackedDecoder.pos does. Masks and shifts are division and remainder.    *)
(***************************************************************************)
EXTENDS Integers, FiniteSets, Sequences, SequencesExt

CONSTANT Width   \* bits of the widest integer: 64 in the code

\* The four bits of a length code count the raw bytes of 105 bits.
ASSUME WidthAssumption == Width \in 1..105

Powers(b) == LET power[n \in Nat] == IF n = 0 THEN 1 ELSE b * power[n - 1] IN power

\* Those of two, and of a raw byte's seven bits.
Power2 == Powers(2)
Radix  == Powers(128)

\* One more than the widest integer, and the raw bytes that hold it.
Limit     == Power2[Width]
MaxLength == (Width + 6) \div 7

ELEMENT_START == 64
ELEMENT_END   == 128
ATTRIBUTE     == 192
HEADEREXTEND  == 32

BOOLEANCODE      == 1
POSITIVECODE     == 2
NEGATIVECODE     == 3
UNSIGNEDCODE     == 4
ADDRESSSPACECODE == 5
SPECIALSPACECODE == 6
STRINGCODE       == 7

TypeByte(typecode, length) == (typecode * 16) + length

-----------------------------------------------------------------------------
(* PackedEncoder *)

\* Mutant: an id of one more than five bits is taken for one of five.
ShortHeader(header, ident) ==
    IF ident > 32
    THEN <<header + HEADEREXTEND + ident \div 128, (ident % 128) + 128>>
    ELSE <<header + ident>>

\* _header: ids of twelve bits, the high ones in the header.
Header(header, ident) ==
    IF ident > 31
    THEN <<header + HEADEREXTEND + ident \div 128, (ident % 128) + 128>>
    ELSE <<header + ident>>

\* What _integer asserts of a magnitude.
Fits(val) == 0 <= val /\ val < Limit

\* The raw bytes a magnitude takes: none for 0.
LenCode(val) == Cardinality({n \in 0..(MaxLength - 1) : val >= Radix[n]})

\* Mutant: raw bytes without their marker.
UnmarkedDigits(val, n) == [i \in 1..n |-> (val \div Radix[n - i]) % 128]

\* The high digits come first, each with the marker bit.
Digits(val, n) == [i \in 1..n |-> ((val \div Radix[n - i]) % 128) + 128]

\* _integer.
Integer(typecode, val) ==
    <<TypeByte(typecode, LenCode(val))>> \o Digits(val, LenCode(val))

Bool(b)      == <<TypeByte(BOOLEANCODE, IF b THEN 1 ELSE 0)>>
Signed(n)    == IF n < 0 THEN Integer(NEGATIVECODE, -n) ELSE Integer(POSITIVECODE, n)
Unsigned(n)  == Integer(UNSIGNEDCODE, n % Limit)
Space(index) == Integer(ADDRESSSPACECODE, index)
Special(code) == <<TypeByte(SPECIALSPACECODE, code)>>
String(s)    == Integer(STRINGCODE, Len(s)) \o s

-----------------------------------------------------------------------------
(* PackedDecoder *)

\* _byte; 0, which no document has, where it raises.
Byte(data, pos) == IF pos < Len(data) THEN data[pos + 1] ELSE 0

\* The kind of the header at a position: none behind the end.
Kind(data, pos) == (Byte(data, pos) \div 64) * 64

Extended(data, pos) == (Byte(data, pos) \div HEADEREXTEND) % 2 = 1

\* _read_id: the id of a header, and the position behind it.
ReadId(data, pos) ==
    IF Extended(data, pos)
    THEN ((Byte(data, pos) % 32) * 128) + (Byte(data, pos + 1) % 128)
    ELSE Byte(data, pos) % 32

IdEnd(data, pos) == IF Extended(data, pos) THEN pos + 2 ELSE pos + 1

\* _read_integer.
ReadInteger(data, pos, length) ==
    LET res[n \in 0..length] ==
            IF n = 0 THEN 0 ELSE (res[n - 1] * 128) + (Byte(data, pos + n - 1) % 128)
    IN res[length]

TypeCode(data, pos)   == Byte(data, pos) \div 16
LengthCode(data, pos) == Byte(data, pos) % 16

\* _skip_attr_value: the position behind the value whose type byte is at pos.
SkipAttrValue(data, pos) ==
    LET length == LengthCode(data, pos) IN
    CASE TypeCode(data, pos) \in {BOOLEANCODE, SPECIALSPACECODE} -> pos + 1
      [] TypeCode(data, pos) = STRINGCODE ->
             pos + 1 + length + ReadInteger(data, pos + 1, length)
      [] OTHER -> pos + 1 + length

\* _attr_value: a value with the kind of Python value it is.
AttrValue(data, pos) ==
    LET length == LengthCode(data, pos)
        code   == TypeCode(data, pos)
        number == ReadInteger(data, pos + 1, length)
    IN CASE code = BOOLEANCODE -> <<"bool", length # 0>>
         [] code \in {POSITIVECODE, UNSIGNEDCODE, ADDRESSSPACECODE} -> <<"int", number>>
         [] code = NEGATIVECODE -> <<"int", -number>>
         [] code = SPECIALSPACECODE -> <<"special", length>>
         [] code = STRINGCODE ->
                <<"string", SubSeq(data, pos + 2 + length, pos + 1 + length + number)>>

\* The attribute run at a position: where it ends, and what is in it.
RunEnd(data, pos) ==
    LET end[p \in Nat] == IF Kind(data, p) = ATTRIBUTE
                          THEN end[SkipAttrValue(data, IdEnd(data, p))]
                          ELSE p
    IN end[pos]

Run(data, pos) ==
    LET run[p \in Nat] ==
            IF Kind(data, p) = ATTRIBUTE
            THEN <<[kind |-> "attribute", id |-> ReadId(data, p),
                    value |-> AttrValue(data, IdEnd(data, p))]>>
                 \o run[SkipAttrValue(data, IdEnd(data, p))]
            ELSE <<>>
    IN run[pos]

\* Mutant: the first end is taken, whatever was opened before it.
FirstEnd(data, pos) ==
    LET end[p \in Nat] ==
            CASE Kind(data, p) = ELEMENT_START -> end[IdEnd(data, p)]
              [] Kind(data, p) = ATTRIBUTE -> end[SkipAttrValue(data, IdEnd(data, p))]
              [] OTHER -> p
    IN end[pos]

\* close_element_skipping: the position of the end it stops at.
EndBehind(data, pos) ==
    LET end[p \in Nat] == [depth \in Nat |->
            CASE Kind(data, p) = ELEMENT_START -> end[IdEnd(data, p)][depth + 1]
              [] Kind(data, p) = ATTRIBUTE ->
                     end[SkipAttrValue(data, IdEnd(data, p))][depth]
              [] Kind(data, p) = ELEMENT_END /\ depth > 0 ->
                     end[IdEnd(data, p)][depth - 1]
              [] OTHER -> p]
    IN end[pos][0]
=============================================================================
