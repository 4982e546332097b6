--------------------------- MODULE SerdeTextProofs ----------------------------
(***************************************************************************)
(* Proofs about SerdeText, for any number of digits, any sizes of the two  *)
(* encodings and any texts.  A text and a byte string belong together when *)
(* the text Spells the bytes, digit by digit; both what a reader does with *)
(* a text and what "the same text but for case" means come down to that.   *)
(***************************************************************************)
EXTENDS SerdeText, TLAPS

(* The digits of s have the values of the halves of the bytes of v.        *)
Spells(s, v) ==
  /\ Len(s) = 2 * Len(v)
  /\ \A i \in 1 .. Len(v) :
       /\ IsDigit(s[2 * i - 1]) /\ ValueOf(s[2 * i - 1]) = v[i] \div HexBase
       /\ IsDigit(s[2 * i]) /\ ValueOf(s[2 * i]) = v[i] % HexBase

-----------------------------------------------------------------------------
(* Bytes and digits.                                                       *)

(* Two digits make a byte, and are its quotient and its remainder.         *)
LEMMA TwoDigits ==
  ASSUME NEW h \in DigitValues, NEW l \in DigitValues
  PROVE  /\ HexBase * h + l \in Bytes
         /\ (HexBase * h + l) \div HexBase = h /\ (HexBase * h + l) % HexBase = l
<1> DEFINE d == HexBase
           b == d * h + l
           q == b \div d
<1>1. d \in Nat /\ d > 0 /\ h \in Nat /\ h <= d - 1 /\ l \in Nat /\ l < d
  BY SerdeAssumption DEF DigitValues
<1> HIDE DEF d
<1>2. d * h \in Nat /\ d * h <= d * (d - 1) /\ d * (d - 1) = d * d - d
  BY <1>1
<1>3. b \in Nat /\ b <= d * d - 1 /\ d * d \in Nat
  BY <1>1, <1>2
<1>4. q \in Nat /\ d * q <= b /\ b < d * q + d
  BY <1>1, <1>3
<1>5. b % d = b - d * q
  BY <1>1, <1>3
<1>6. ASSUME q < h PROVE FALSE
  <2>1. d * q + d <= d * h
    BY <1>1, <1>4, <1>6
  <2> QED
    BY <2>1, <1>1, <1>2, <1>4
<1>7. ASSUME h < q PROVE FALSE
  <2>1. d * h + d <= d * q
    BY <1>1, <1>4, <1>7
  <2> QED
    BY <2>1, <1>1, <1>2, <1>4
<1>8. q = h
  BY <1>1, <1>4, <1>6, <1>7
<1> QED
  BY <1>1, <1>2, <1>3, <1>5, <1>8 DEF d, Bytes

(* A byte splits into two digits.                                          *)
LEMMA ByteSplits ==
  ASSUME NEW b \in Bytes
  PROVE  /\ b \div HexBase \in DigitValues /\ b % HexBase \in DigitValues
         /\ HexBase * (b \div HexBase) + (b % HexBase) = b
<1> DEFINE d == HexBase
           q == b \div d
<1>1. d \in Nat /\ d > 0 /\ b \in Nat /\ b < d * d
  BY SerdeAssumption DEF Bytes
<1> HIDE DEF d
<1>2. q \in Nat /\ d * q <= b /\ b < d * q + d /\ b % d = b - d * q
  BY <1>1
<1>3. b % d \in 0 .. d - 1
  BY <1>1
<1>4. ASSUME d <= q PROVE FALSE
  <2>1. d * d <= d * q
    BY <1>1, <1>2, <1>4
  <2> QED
    BY <2>1, <1>1, <1>2
<1> QED
  BY <1>1, <1>2, <1>3, <1>4 DEF d, DigitValues

(* Either form of a digit has its value.                                   *)
LEMMA DigitForms ==
  ASSUME NEW n \in DigitValues, NEW d, d \in {LowerDigit[n], UpperDigit[n]}
  PROVE  IsDigit(d) /\ ValueOf(d) = n
<1>1. \A m \in DigitValues : d \in {LowerDigit[m], UpperDigit[m]} => m = n
  <2> SUFFICES ASSUME NEW m \in DigitValues, d \in {LowerDigit[m], UpperDigit[m]}
               PROVE  m = n
    OBVIOUS
  <2> QED
    BY SerdeAssumption DEF IsInjective
<1> QED
  BY <1>1 DEF IsDigit, ValueOf

(* A digit has the value whose forms it is one of.                         *)
LEMMA ValueOfDigit ==
  ASSUME NEW d, IsDigit(d)
  PROVE  /\ ValueOf(d) \in DigitValues
         /\ d \in {LowerDigit[ValueOf(d)], UpperDigit[ValueOf(d)]}
BY DEF IsDigit, ValueOf

(* Two characters are the same but for case exactly when they are equal    *)
(* digits; one of them is one that hex::encode writes.                     *)
LEMMA SameDigit ==
  ASSUME NEW k \in DigitValues, NEW d
  PROVE  SameButForCase(d, LowerDigit[k]) <=> IsDigit(d) /\ ValueOf(d) = k
<1>1. ASSUME d = LowerDigit[k] PROVE IsDigit(d) /\ ValueOf(d) = k
  BY <1>1, DigitForms
<1>2. ASSUME NEW n \in DigitValues,
             {d, LowerDigit[k]} = {LowerDigit[n], UpperDigit[n]}
      PROVE  IsDigit(d) /\ ValueOf(d) = k
  <2>1. /\ d \in {LowerDigit[n], UpperDigit[n]}
        /\ LowerDigit[k] \in {LowerDigit[n], UpperDigit[n]}
    BY <1>2
  <2>2. ValueOf(LowerDigit[k]) = n /\ ValueOf(LowerDigit[k]) = k
    BY <2>1, DigitForms
  <2> QED
    BY <2>1, <2>2, DigitForms
<1>3. ASSUME IsDigit(d), ValueOf(d) = k
      PROVE  SameButForCase(d, LowerDigit[k])
  BY <1>3, ValueOfDigit DEF SameButForCase
<1> QED
  BY <1>1, <1>2, <1>3 DEF SameButForCase

(* The odd and the even positions of a text of n pairs of digits.          *)
LEMMA Positions ==
  ASSUME NEW n \in Nat
  PROVE  /\ \A i \in 1 .. n : /\ 2 * i - 1 \in 1 .. 2 * n /\ 2 * i \in 1 .. 2 * n
                              /\ (2 * i - 1) % 2 = 1 /\ (2 * i) % 2 = 0
                              /\ (2 * i - 1 + 1) \div 2 = i
                              /\ (2 * i + 1) \div 2 = i
         /\ \A j \in 1 .. 2 * n : \E i \in 1 .. n : j \in {2 * i - 1, 2 * i}
<1>1. ASSUME NEW i \in 1 .. n
      PROVE  /\ 2 * i - 1 \in 1 .. 2 * n /\ 2 * i \in 1 .. 2 * n
             /\ (2 * i - 1) % 2 = 1 /\ (2 * i) % 2 = 0
             /\ (2 * i - 1 + 1) \div 2 = i /\ (2 * i + 1) \div 2 = i
  OBVIOUS
<1>2. ASSUME NEW j \in 1 .. 2 * n
      PROVE  \E i \in 1 .. n : j \in {2 * i - 1, 2 * i}
  <2>1. (j + 1) \div 2 \in 1 .. n
    OBVIOUS
  <2>2. j \in {2 * ((j + 1) \div 2) - 1, 2 * ((j + 1) \div 2)}
    OBVIOUS
  <2> QED
    BY <2>1, <2>2
<1> QED
  BY <1>1, <1>2

-----------------------------------------------------------------------------
(* Texts and byte strings.                                                 *)

(* The text of a byte string, digit by digit.                              *)
LEMMA EncodedDigits ==
  ASSUME NEW v \in Seq(Bytes)
  PROVE  /\ HexEncode(v) \in Seq(Characters) /\ Len(HexEncode(v)) = 2 * Len(v)
         /\ DOMAIN HexEncode(v) = 1 .. 2 * Len(v)
         /\ \A i \in 1 .. Len(v) :
              /\ HexEncode(v)[2 * i - 1] = LowerDigit[v[i] \div HexBase]
              /\ HexEncode(v)[2 * i] = LowerDigit[v[i] % HexBase]
<1> DEFINE n == Len(v)
           digit(j) == LET byte == v[(j + 1) \div 2]
                       IN  LowerDigit[IF j % 2 = 1 THEN byte \div HexBase
                                                   ELSE byte % HexBase]
           w == [j \in 1 .. 2 * n |-> digit(j)]
<1>1. w = HexEncode(v)
  BY DEF HexEncode
<1>2. n \in Nat
  OBVIOUS
<1>3. ASSUME NEW i \in 1 .. n
      PROVE  /\ digit(2 * i - 1) = LowerDigit[v[i] \div HexBase]
             /\ digit(2 * i) = LowerDigit[v[i] % HexBase]
             /\ digit(2 * i - 1) \in Characters /\ digit(2 * i) \in Characters
  <2>1. /\ (2 * i - 1) % 2 = 1 /\ (2 * i) % 2 = 0
        /\ (2 * i - 1 + 1) \div 2 = i /\ (2 * i + 1) \div 2 = i
    BY <1>2, <1>3, Positions
  <2>2. /\ digit(2 * i - 1) = LowerDigit[v[i] \div HexBase]
        /\ digit(2 * i) = LowerDigit[v[i] % HexBase]
    BY <2>1
  <2>3. v[i] \in Bytes
    OBVIOUS
  <2>4. v[i] \div HexBase \in DigitValues /\ v[i] % HexBase \in DigitValues
    BY <2>3, ByteSplits
  <2>5. \A m \in DigitValues : LowerDigit[m] \in Characters
    BY SerdeAssumption
  <2> HIDE DEF digit
  <2> QED
    BY <2>2, <2>4, <2>5
<1> HIDE DEF digit
<1>4. \A j \in 1 .. 2 * n : digit(j) \in Characters
  <2> TAKE j \in 1 .. 2 * n
  <2>1. PICK i \in 1 .. n : j \in {2 * i - 1, 2 * i}
    BY <1>2, Positions
  <2> QED
    BY <2>1, <1>3
<1>5. w \in Seq(Characters) /\ Len(w) = 2 * n /\ DOMAIN w = 1 .. 2 * n
  BY <1>2, <1>4
<1>6. ASSUME NEW i \in 1 .. n
      PROVE  /\ w[2 * i - 1] = LowerDigit[v[i] \div HexBase]
             /\ w[2 * i] = LowerDigit[v[i] % HexBase]
  <2>1. 2 * i - 1 \in 1 .. 2 * n /\ 2 * i \in 1 .. 2 * n
    BY <1>2, Positions
  <2> QED
    BY <2>1, <1>3
<1> HIDE DEF w
<1> QED
  BY <1>1, <1>5, <1>6

(* A text is the text of v, but for the case of its digits, exactly when   *)
(* it spells v.                                                            *)
LEMMA SameTextSpells ==
  ASSUME NEW s \in Seq(Characters), NEW v \in Seq(Bytes)
  PROVE  SameText(s, HexEncode(v)) <=> Spells(s, v)
<1> DEFINE n == Len(v)
           w == HexEncode(v)
<1>1. /\ n \in Nat /\ DOMAIN w = 1 .. 2 * n
      /\ Len(s) \in Nat /\ DOMAIN s = 1 .. Len(s)
  BY EncodedDigits
<1>2. DOMAIN s = DOMAIN w <=> Len(s) = 2 * n
  <2> DEFINE a == Len(s)
             c == 2 * n
  <2>1. a \in Nat /\ c \in Nat /\ DOMAIN s = 1 .. a /\ DOMAIN w = 1 .. c
    BY <1>1
  <2> HIDE DEF a, c, w
  <2>2. ASSUME 1 .. a = 1 .. c PROVE a = c
    <3>1. a > 0 => a \in 1 .. c
      BY <2>1, <2>2
    <3>2. c > 0 => c \in 1 .. a
      BY <2>1, <2>2
    <3> QED
      BY <2>1, <3>1, <3>2
  <2>3. DOMAIN s = DOMAIN w <=> a = c
    BY <2>1, <2>2
  <2> QED
    BY <2>3 DEF a, c
<1>3. ASSUME NEW i \in 1 .. n
      PROVE  /\ SameButForCase(s[2 * i - 1], w[2 * i - 1]) <=>
                  IsDigit(s[2 * i - 1]) /\ ValueOf(s[2 * i - 1]) = v[i] \div HexBase
             /\ SameButForCase(s[2 * i], w[2 * i]) <=>
                  IsDigit(s[2 * i]) /\ ValueOf(s[2 * i]) = v[i] % HexBase
  <2>1. v[i] \div HexBase \in DigitValues /\ v[i] % HexBase \in DigitValues
    BY ByteSplits
  <2>2. /\ w[2 * i - 1] = LowerDigit[v[i] \div HexBase]
        /\ w[2 * i] = LowerDigit[v[i] % HexBase]
    BY <1>3, EncodedDigits
  <2> QED
    BY <2>1, <2>2, SameDigit
<1>4. (\A j \in 1 .. 2 * n : SameButForCase(s[j], w[j])) <=>
        \A i \in 1 .. n : /\ SameButForCase(s[2 * i - 1], w[2 * i - 1])
                          /\ SameButForCase(s[2 * i], w[2 * i])
  <2> HIDE DEF w, n
  <2>1. /\ \A i \in 1 .. n : 2 * i - 1 \in 1 .. 2 * n /\ 2 * i \in 1 .. 2 * n
        /\ \A j \in 1 .. 2 * n : \E i \in 1 .. n : j \in {2 * i - 1, 2 * i}
    BY <1>1, Positions
  <2> QED
    BY <2>1
<1>5. (\A i \in 1 .. n : /\ SameButForCase(s[2 * i - 1], w[2 * i - 1])
                         /\ SameButForCase(s[2 * i], w[2 * i])) <=>
      \A i \in 1 .. n :
        /\ IsDigit(s[2 * i - 1]) /\ ValueOf(s[2 * i - 1]) = v[i] \div HexBase
        /\ IsDigit(s[2 * i]) /\ ValueOf(s[2 * i]) = v[i] % HexBase
  BY <1>3
<1>6. SameText(s, w) <=> /\ DOMAIN s = DOMAIN w
                         /\ \A j \in 1 .. 2 * n : SameButForCase(s[j], w[j])
  BY <1>1 DEF SameText
<1> HIDE DEF w
<1>7. SameText(s, w) <=> Spells(s, v)
  BY <1>2, <1>4, <1>5, <1>6 DEF Spells
<1> QED
  BY <1>7 DEF w

(* A text of digits is decoded, to the bytes that it spells and no others. *)
LEMMA DecodesWhatIsSpelled ==
  ASSUME NEW s \in Seq(Characters)
  PROVE  /\ HexDecode(s).error = "none" =>
              /\ HexDecode(s).value \in Seq(Bytes)
              /\ Spells(s, HexDecode(s).value)
         /\ \A v \in Seq(Bytes) : Spells(s, v) => HexDecode(s) = Ok(v)
<1> DEFINE n == Len(s) \div 2
           byte(i) == HexBase * ValueOf(s[2 * i - 1]) + ValueOf(s[2 * i])
           b == [i \in 1 .. n |-> byte(i)]
<1>1. Len(s) \in Nat /\ n \in Nat /\ DOMAIN s = 1 .. Len(s)
  OBVIOUS
<1>2. HexDecode(s) = IF Len(s) % 2 = 1 THEN Error("odd length")
                     ELSE IF \E i \in 1 .. Len(s) : ~IsDigit(s[i])
                     THEN Error("not a digit")
                     ELSE Ok(b)
  BY <1>1 DEF HexDecode
<1>3. ASSUME HexDecode(s).error = "none"
      PROVE  HexDecode(s).value \in Seq(Bytes) /\ Spells(s, HexDecode(s).value)
  <2>1. /\ Len(s) % 2 # 1 /\ \A i \in 1 .. Len(s) : IsDigit(s[i])
        /\ HexDecode(s) = Ok(b)
    <3>1. /\ Error("odd length").error # "none"
          /\ Error("not a digit").error # "none"
      BY DEF Error
    <3>2. Len(s) % 2 # 1
      <4> SUFFICES ASSUME Len(s) % 2 = 1 PROVE FALSE
        OBVIOUS
      <4>1. HexDecode(s) = Error("odd length")
        BY <1>2
      <4> QED
        BY <4>1, <1>3, <3>1
    <3>3. ~\E i \in 1 .. Len(s) : ~IsDigit(s[i])
      <4> SUFFICES ASSUME \E i \in 1 .. Len(s) : ~IsDigit(s[i]) PROVE FALSE
        OBVIOUS
      <4>1. HexDecode(s) = Error("not a digit")
        BY <1>2, <3>2
      <4> QED
        BY <4>1, <1>3, <3>1
    <3> QED
      BY <1>2, <3>2, <3>3
  <2>2. Len(s) = 2 * n
    <3>1. \A m \in Nat : m % 2 # 1 => m = 2 * (m \div 2)
      OBVIOUS
    <3> QED
      BY <1>1, <2>1, <3>1
  <2>3. ASSUME NEW i \in 1 .. n
        PROVE  /\ byte(i) \in Bytes
               /\ IsDigit(s[2 * i - 1]) /\ ValueOf(s[2 * i - 1]) = byte(i) \div HexBase
               /\ IsDigit(s[2 * i]) /\ ValueOf(s[2 * i]) = byte(i) % HexBase
    <3>1. 2 * i - 1 \in 1 .. 2 * n /\ 2 * i \in 1 .. 2 * n
      BY <1>1, Positions
    <3>2. IsDigit(s[2 * i - 1]) /\ IsDigit(s[2 * i])
      BY <2>1, <2>2, <3>1
    <3>3. ValueOf(s[2 * i - 1]) \in DigitValues /\ ValueOf(s[2 * i]) \in DigitValues
      BY <3>2, ValueOfDigit
    <3> QED
      BY <3>2, <3>3, TwoDigits
  <2> HIDE DEF byte
  <2>4. b \in Seq(Bytes) /\ Len(b) = n /\ \A i \in 1 .. n : b[i] = byte(i)
    BY <1>1, <2>3
  <2> HIDE DEF b, n
  <2>5. Spells(s, b)
    BY <2>2, <2>3, <2>4 DEF Spells
  <2> QED
    BY <2>1, <2>4, <2>5 DEF Ok
<1>4. ASSUME NEW v \in Seq(Bytes), Spells(s, v)
      PROVE  HexDecode(s) = Ok(v)
  <2>1. Len(v) \in Nat /\ Len(s) = 2 * Len(v)
    BY <1>4 DEF Spells
  <2>2. Len(s) % 2 # 1 /\ n = Len(v)
    BY <2>1
  <2>3. \A i \in 1 .. Len(v) :
          /\ IsDigit(s[2 * i - 1]) /\ ValueOf(s[2 * i - 1]) = v[i] \div HexBase
          /\ IsDigit(s[2 * i]) /\ ValueOf(s[2 * i]) = v[i] % HexBase
    BY <1>4 DEF Spells
  <2>4. \A j \in 1 .. Len(s) : IsDigit(s[j])
    <3> TAKE j \in 1 .. Len(s)
    <3>1. PICK i \in 1 .. Len(v) : j \in {2 * i - 1, 2 * i}
      BY <2>1, Positions
    <3> QED
      BY <3>1, <2>3
  <2>5. ASSUME NEW i \in 1 .. Len(v) PROVE byte(i) = v[i]
    <3>1. v[i] \in Bytes
      OBVIOUS
    <3>2. HexBase * (v[i] \div HexBase) + (v[i] % HexBase) = v[i]
      BY <3>1, ByteSplits
    <3> QED
      BY <3>2, <2>3
  <2> HIDE DEF byte
  <2>6. b = v
    <3>1. v = [i \in 1 .. Len(v) |-> v[i]]
      OBVIOUS
    <3>2. b = [i \in 1 .. Len(v) |-> v[i]]
      BY <2>2, <2>5
    <3> QED
      BY <3>1, <3>2
  <2> QED
    BY <1>2, <2>2, <2>4, <2>6
<1> QED
  BY <1>3, <1>4

-----------------------------------------------------------------------------
(* Reading.                                                                *)

(* Encodings have the bytes their curve says, and the other curve has      *)
(* another number.                                                         *)
LEMMA EncodingsHaveSize ==
  ASSUME NEW t \in Types
  PROVE  /\ CurveOf(t) \in {"G1", "G2"}
         /\ \A v \in Encodings[CurveOf(t)] :
              v \in Seq(Bytes) /\ Len(v) = Size[CurveOf(t)]
         /\ \A u \in Types :
              CurveOf(u) # CurveOf(t) => Size[CurveOf(u)] # Size[CurveOf(t)]
<1>1. \A u \in Types : CurveOf(u) \in {"G1", "G2"}
  BY DEF Types, CurveOf
<1>2. ASSUME NEW v \in Encodings[CurveOf(t)]
      PROVE  v \in Seq(Bytes) /\ Len(v) = Size[CurveOf(t)]
  <2>1. Size[CurveOf(t)] \in Nat /\ v \in [1 .. Size[CurveOf(t)] -> Bytes]
    BY <1>1, SerdeAssumption
  <2> QED
    BY <2>1
<1>3. \A u \in Types : CurveOf(u) # CurveOf(t) => Size[CurveOf(u)] # Size[CurveOf(t)]
  BY <1>1, SerdeAssumption
<1> QED
  BY <1>1, <1>2, <1>3

(* The verdict records.                                                    *)
LEMMA Verdicts ==
  /\ \A v : Ok(v).error = "none" /\ Ok(v).value = v
  /\ \A v, w : Ok(v) = Ok(w) => v = w
  /\ \A e : Error(e).error = e
<1>1. \A v : Ok(v).error = "none" /\ Ok(v).value = v
  BY DEF Ok
<1>2. \A e : Error(e).error = e
  BY DEF Error
<1> QED
  BY <1>1, <1>2

(* A text that spells an encoding is read as it, whatever the type.        *)
LEMMA ReadsWhatIsSpelled ==
  ASSUME NEW t \in Types, NEW s \in Seq(Characters),
         NEW v \in Encodings[CurveOf(t)], Spells(s, v)
  PROVE  Deserialized(t, s) = Ok(v)
<1>1. v \in Seq(Bytes) /\ Len(v) = Size[CurveOf(t)]
  BY EncodingsHaveSize
<1>2. HexDecode(s) = Ok(v)
  BY <1>1, DecodesWhatIsSpelled
<1>3. DecodeHex(s, Size[CurveOf(t)]) = Ok(v)
  BY <1>1, <1>2, Verdicts DEF DecodeHex, TryInto
<1>4. FromBytes(CurveOf(t), v) = Ok(v)
  BY DEF FromBytes
<1> QED
  BY <1>3, <1>4, Verdicts DEF Deserialized

(* Nothing else is read.                                                   *)
LEMMA ReadsOnlyWhatIsSpelled ==
  ASSUME NEW t \in Types, NEW s \in Seq(Characters),
         Deserialized(t, s).error = "none"
  PROVE  /\ Deserialized(t, s).value \in Encodings[CurveOf(t)]
         /\ Spells(s, Deserialized(t, s).value)
<1> DEFINE d == HexDecode(s)
           b == DecodeHex(s, Size[CurveOf(t)])
           o == FromBytes(CurveOf(t), b.value)
<1>1. Error("invalid length").error # "none" /\ Error("InvalidData").error # "none"
  BY DEF Error
<1>2. b.error = "none" /\ Deserialized(t, s) = o
  BY DEF Deserialized
<1>3. b.value \in Encodings[CurveOf(t)] /\ o = Ok(b.value)
  BY <1>1, <1>2 DEF FromBytes
<1>4. d.error = "none" /\ b = TryInto(d.value, Size[CurveOf(t)])
  BY <1>2 DEF DecodeHex
<1>5. b = Ok(d.value)
  BY <1>1, <1>2, <1>4 DEF TryInto
<1>6. Spells(s, d.value)
  BY <1>4, DecodesWhatIsSpelled
<1> HIDE DEF o, b, d
<1>7. o.value = b.value /\ b.value = d.value
  BY <1>3, <1>5, Verdicts
<1> QED
  BY <1>2, <1>3, <1>6, <1>7

(* A text that spells an encoding of the other curve has another length.   *)
LEMMA OtherCurveIsRefused ==
  ASSUME NEW t \in Types, NEW u \in Types, CurveOf(t) # CurveOf(u),
         NEW s \in Seq(Characters), NEW v \in Encodings[CurveOf(u)], Spells(s, v)
  PROVE  Deserialized(t, s).error = "invalid length"
<1>1. /\ v \in Seq(Bytes) /\ Len(v) = Size[CurveOf(u)]
      /\ Size[CurveOf(t)] # Size[CurveOf(u)]
  BY EncodingsHaveSize
<1>2. HexDecode(s) = Ok(v)
  BY <1>1, DecodesWhatIsSpelled
<1>3. DecodeHex(s, Size[CurveOf(t)]) = Error("invalid length")
  BY <1>1, <1>2, Verdicts DEF DecodeHex, TryInto
<1> QED
  BY <1>3, Verdicts DEF Deserialized

(* A text is what a byte string was written as, so it spells it.           *)
LEMMA EncodedSpells ==
  ASSUME NEW v \in Seq(Bytes)
  PROVE  Spells(HexEncode(v), v)
<1>1. HexEncode(v) \in Seq(Characters)
  BY EncodedDigits
<1>2. SameText(HexEncode(v), HexEncode(v))
  BY DEF SameText, SameButForCase
<1> QED
  BY <1>1, <1>2, SameTextSpells

-----------------------------------------------------------------------------
(* Behaviours.                                                             *)

(* What a program holds is of its type; the verdict on record is that of   *)
(* the text at hand; and a text on record as written spells the value that *)
(* was written.                                                            *)
IInv ==
  /\ type \in Types /\ value \in Encodings[CurveOf(type)]
  /\ text \in Seq(Characters)
  /\ asked # "nothing" =>
       /\ asked \in Types
       /\ error = Deserialized(asked, text).error
       /\ error = "none" => value = Deserialized(asked, text).value
  /\ written # <<>> =>
       /\ written[1] \in Types /\ written[2] \in Encodings[CurveOf(written[1])]
       /\ Spells(text, written[2])

(* A program starts with a value and an empty text.                        *)
LEMMA IInvInit == Init => IInv
<1>1. <<>> \in Seq(Characters)
  OBVIOUS
<1> QED
  BY <1>1 DEF Init, IInv

(* Every step keeps the invariant.                                         *)
LEMMA IInvNext == IInv /\ [Next]_vars => IInv'
<1> SUFFICES ASSUME IInv, [Next]_vars PROVE IInv'
  OBVIOUS
<1>0. "nothing" \notin Types
  BY DEF Types
<1>1. CASE Serialize
  <2>1. value \in Seq(Bytes) /\ text' = HexEncode(value)
    BY <1>1, EncodingsHaveSize DEF IInv, Serialize, Serialized
  <2>2. text' \in Seq(Characters) /\ Spells(text', value)
    BY <2>1, EncodedDigits, EncodedSpells
  <2>3. written' = <<type, value>> /\ asked' = "nothing"
        /\ type' = type /\ value' = value
    BY <1>1 DEF Serialize
  <2>4. written'[1] = type /\ written'[2] = value
    BY <2>3
  <2> QED
    BY <2>2, <2>3, <2>4 DEF IInv
<1>2. CASE Receive
  <2>1. text' \in Seq(Characters)
    BY <1>2, SerdeAssumption DEF Receive
  <2> QED
    BY <1>2, <2>1 DEF IInv, Receive
<1>3. CASE Deserialize
  <2>1. PICK t \in Types :
          LET o == Deserialized(t, text)
          IN  /\ asked' = t /\ error' = o.error
              /\ IF o.error = "none" THEN type' = t /\ value' = o.value
                                     ELSE UNCHANGED <<type, value>>
              /\ UNCHANGED <<text, written>>
    BY <1>3 DEF Deserialize
  <2> DEFINE o == Deserialized(t, text)
  <2>2. /\ asked' = t /\ error' = o.error /\ text' = text /\ written' = written
        /\ o.error = "none" => type' = t /\ value' = o.value
        /\ o.error # "none" => type' = type /\ value' = value
    BY <2>1
  <2>3. o.error = "none" => o.value \in Encodings[CurveOf(t)]
    BY ReadsOnlyWhatIsSpelled DEF IInv
  <2>4. type' \in Types /\ value' \in Encodings[CurveOf(type')]
    BY <2>2, <2>3 DEF IInv
  <2>5. /\ asked' \in Types
        /\ error' = Deserialized(asked', text').error
        /\ error' = "none" => value' = Deserialized(asked', text').value
    BY <2>2
  <2> QED
    BY <2>2, <2>4, <2>5 DEF IInv
<1>4. CASE Prepare
  <2>1. /\ type' = "G2Prepared" /\ type = "G2Affine" /\ value' = value
        /\ asked' = "nothing" /\ text' = text /\ written' = written
    BY <1>4 DEF Prepare
  <2>2. CurveOf(type') = CurveOf(type) /\ type' \in Types
    BY <2>1 DEF CurveOf, Types
  <2> QED
    BY <2>1, <2>2 DEF IInv
<1>5. CASE UNCHANGED vars
  BY <1>5 DEF vars, IInv
<1> QED
  BY <1>1, <1>2, <1>3, <1>4, <1>5 DEF Next

(* So it always holds.                                                     *)
LEMMA SpecIInv == Spec => []IInv
BY IInvInit, IInvNext, PTL DEF Spec

(* What the invariant says of a reading.                                   *)
LEMMA InvReadsExactly == IInv => ReadsExactly
<1> SUFFICES ASSUME IInv, asked # "nothing"
             PROVE  /\ error = "none" <=> \E v \in Encodings[CurveOf(asked)] :
                                            SameText(text, HexEncode(v))
                    /\ error = "none" => SameText(text, HexEncode(value))
  BY DEF ReadsExactly
<1> DEFINE o == Deserialized(asked, text)
<1>1. /\ asked \in Types /\ text \in Seq(Characters) /\ error = o.error
      /\ error = "none" => value = o.value
  BY DEF IInv
<1>2. \A v \in Encodings[CurveOf(asked)] :
        SameText(text, HexEncode(v)) <=> Spells(text, v)
  BY <1>1, EncodingsHaveSize, SameTextSpells
<1>3. ASSUME NEW v \in Encodings[CurveOf(asked)], SameText(text, HexEncode(v))
      PROVE  error = "none"
  <2>1. o = Ok(v)
    BY <1>1, <1>2, <1>3, ReadsWhatIsSpelled
  <2> QED
    BY <1>1, <2>1, Verdicts
<1>4. ASSUME error = "none"
      PROVE  value \in Encodings[CurveOf(asked)] /\ SameText(text, HexEncode(value))
  <2>1. value = o.value /\ o.error = "none"
    BY <1>1, <1>4
  <2>2. o.value \in Encodings[CurveOf(asked)] /\ Spells(text, o.value)
    BY <1>1, <2>1, ReadsOnlyWhatIsSpelled
  <2> HIDE DEF o
  <2> QED
    BY <2>1, <2>2, <1>2
<1> QED
  BY <1>3, <1>4

(* And of a text that was written.                                         *)
LEMMA InvTextIsFaithful == IInv => TextIsFaithful
<1> SUFFICES ASSUME IInv, written # <<>>, NEW t \in Types
             PROVE  IF CurveOf(t) = CurveOf(written[1])
                    THEN Deserialized(t, text) = Ok(written[2])
                    ELSE Deserialized(t, text).error = "invalid length"
  BY DEF TextIsFaithful
<1>1. /\ text \in Seq(Characters) /\ written[1] \in Types
      /\ written[2] \in Encodings[CurveOf(written[1])] /\ Spells(text, written[2])
  BY DEF IInv
<1>2. CurveOf(t) = CurveOf(written[1]) => Deserialized(t, text) = Ok(written[2])
  BY <1>1, ReadsWhatIsSpelled
<1>3. CurveOf(t) # CurveOf(written[1]) =>
        Deserialized(t, text).error = "invalid length"
  BY <1>1, OtherCurveIsRefused
<1> QED
  BY <1>2, <1>3

(* decode_hex and from_bytes accept a text as a type exactly when, but for *)
(* the case of its digits, it is what hex::encode writes for an encoding   *)
(* of that type, and give that encoding's value.                           *)
THEOREM TextsAreReadExactly == Spec => []ReadsExactly
BY SpecIInv, InvReadsExactly, PTL

(* A value that was written is read back as itself by either type of its   *)
(* curve, the wrapped G2Affine of a G2Prepared included, and by no other.  *)
THEOREM TextsAreFaithful == Spec => []TextIsFaithful
BY SpecIInv, InvTextIsFaithful, PTL
=============================================================================
