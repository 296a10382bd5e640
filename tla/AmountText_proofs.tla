-------------------------- MODULE AmountText_proofs --------------------------
(***************************************************************************)
(* Proof that _extract_amount reads every amount up to 999,99 as its user  *)
(* wrote it.  A run of digits of any length is read wherever it stands     *)
(* between characters that are no digits; the value of up to three digits  *)
(* is worked out from the recursive function that defines it, which needs  *)
(* no induction.                                                           *)
(***************************************************************************)
EXTENDS AmountText, SequenceTheorems, TLAPS
LOCAL INSTANCE FiniteSetsExt

Characters == 0..OTHER_CHAR
Digits     == 0..9
AllReais   == 0..999
AllCents   == 0..99

(* The run of digits from i ends where the next character is no digit *)
LEMMA LastDigitIs ==
  ASSUME NEW t \in Seq(Characters), NEW i \in DOMAIN t, NEW j \in i..Len(t),
         \A k \in i..j : IsDigit(t, k), ~IsDigit(t, j + 1)
  PROVE  LastDigit(t, i) = j
<1> DEFINE S == {k \in i..Len(t) : \A n \in i..k : IsDigit(t, n)}
<1>1. j \in S /\ \A k \in S : j >= k
  OBVIOUS
<1>2. \A k \in S : (\A n \in S : k >= n) => k = j
  BY <1>1
<1> QED
  BY <1>1, <1>2 DEF LastDigit, Max

LEMMA ExtractIs ==
  ASSUME NEW t \in Seq(Characters), NEW i \in DOMAIN t, IsDigit(t, i),
         \A k \in 1..(i - 1) : ~IsDigit(t, k)
  PROVE  ExtractAmount(t) = IF Match(t, i) > 0 THEN Match(t, i) ELSE NONE
<1> DEFINE starts == {k \in DOMAIN t : IsDigit(t, k)}
<1>1. i \in starts /\ \A k \in starts : i =< k
  OBVIOUS
<1>2. \A k \in starts : (\A n \in starts : k =< n) => k = i
  BY <1>1
<1>3. Min(starts) = i
  BY <1>1, <1>2 DEF Min
<1> HIDE DEF starts
<1>4. ExtractAmount(t) = IF starts # {} /\ Match(t, Min(starts)) > 0
                         THEN Match(t, Min(starts)) ELSE NONE
  BY DEF ExtractAmount, starts
<1> QED
  BY <1>1, <1>3, <1>4

(***************************************************************************)
(* The digits d are read wherever they stand: after a text b without       *)
(* digits, before a text x that does not begin with one, and with the      *)
(* decimals that x begins with.                                            *)
(***************************************************************************)
Cents(x) == IF IsSeparator(x, 1) /\ IsDigit(x, 2) THEN Decimals(x, 2) ELSE 0
Amount(d, x) == 1000 * Value(d) + Cents(x)

LEMMA ReadsDigits ==
  ASSUME NEW b \in Seq(Characters), NEW d \in Seq(Digits), NEW x \in Seq(Characters),
         \A k \in DOMAIN b : b[k] \notin Digits,
         d # << >>, ~IsDigit(x, 1)
  PROVE  ExtractAmount(b \o (d \o x)) = IF Amount(d, x) > 0 THEN Amount(d, x) ELSE NONE
<1> DEFINE rest == d \o x
           text == b \o rest
           p    == Len(b) + 1
           q    == Len(b) + Len(d)
<1>1. /\ d \in Seq(Characters) /\ Len(d) \in Nat \ {0} /\ Len(b) \in Nat /\ Len(x) \in Nat
      /\ DOMAIN b = 1..Len(b) /\ DOMAIN d = 1..Len(d) /\ DOMAIN x = 1..Len(x)
  BY DEF Characters, Digits, OTHER_CHAR
<1>2. /\ rest \in Seq(Characters) /\ Len(rest) = Len(d) + Len(x)
      /\ \A k \in 1..(Len(d) + Len(x)) : rest[k] = IF k <= Len(d) THEN d[k] ELSE x[k - Len(d)]
  BY <1>1, ConcatProperties
<1> HIDE DEF rest
<1>3. /\ text \in Seq(Characters) /\ Len(text) = Len(b) + Len(rest)
      /\ \A k \in 1..(Len(b) + Len(rest)) :
            text[k] = IF k <= Len(b) THEN b[k] ELSE rest[k - Len(b)]
  BY <1>2, ConcatProperties
<1> HIDE DEF text
<1>4. DOMAIN text = 1..(q + Len(x)) /\ Len(text) = q + Len(x)
  BY <1>1, <1>2, <1>3
<1>5. \A k \in 1..Len(b) : text[k] = b[k]
  BY <1>1, <1>2, <1>3
<1>6. \A k \in 1..Len(d) : text[Len(b) + k] = d[k]
  <2> TAKE k \in 1..Len(d)
  <2>1. /\ Len(b) + k \in 1..(Len(b) + Len(rest)) /\ ~(Len(b) + k <= Len(b))
        /\ (Len(b) + k) - Len(b) = k /\ k \in 1..(Len(d) + Len(x)) /\ k <= Len(d)
    BY <1>1, <1>2
  <2> QED
    BY <1>2, <1>3, <2>1
<1>7. \A k \in 1..Len(x) : text[q + k] = x[k]
  <2> TAKE k \in 1..Len(x)
  <2>1. /\ q + k \in 1..(Len(b) + Len(rest)) /\ ~(q + k <= Len(b))
        /\ (q + k) - Len(b) = Len(d) + k
        /\ Len(d) + k \in 1..(Len(d) + Len(x)) /\ ~(Len(d) + k <= Len(d))
        /\ (Len(d) + k) - Len(d) = k
    BY <1>1, <1>2
  <2> QED
    BY <1>2, <1>3, <2>1
<1>8. \A k \in Nat \ {0} : /\ IsDigit(text, q + k) <=> IsDigit(x, k)
                           /\ IsSeparator(text, q + k) <=> IsSeparator(x, k)
  <2> TAKE k \in Nat \ {0}
  <2>1. q + k \in DOMAIN text <=> k \in DOMAIN x
    BY <1>1, <1>4
  <2>2. k \in DOMAIN x => text[q + k] = x[k]
    BY <1>1, <1>7
  <2> QED
    BY <2>1, <2>2 DEF IsDigit, IsSeparator
<1>9. \A k \in p..q : IsDigit(text, k)
  <2> TAKE k \in p..q
  <2>1. k - Len(b) \in 1..Len(d) /\ Len(b) + (k - Len(b)) = k /\ k \in DOMAIN text
    BY <1>1, <1>4
  <2>2. text[k] = d[k - Len(b)]
    BY <1>6, <2>1
  <2> QED
    BY <1>1, <2>1, <2>2 DEF IsDigit, Digits
<1>10. \A k \in 1..(p - 1) : ~IsDigit(text, k)
  BY <1>1, <1>5 DEF IsDigit, Digits
<1>11. p \in DOMAIN text /\ q \in p..Len(text) /\ p \in p..q
  BY <1>1, <1>4
<1>12. LastDigit(text, p) = q
  <2>1. ~IsDigit(text, q + 1)
    BY <1>8
  <2> HIDE DEF p, q
  <2> QED
    BY <1>3, <1>9, <1>11, <2>1, LastDigitIs
<1>13. SubSeq(text, p, q) = d
  <2>1. q - p + 1 = Len(d) /\ p <= q /\ p \in Int /\ q \in Int
    BY <1>1
  <2>2. \A k \in p..q : text[k] \in Characters
    BY <1>3, <1>4, <1>11
  <2>3. \A k \in 1..Len(d) : text[p + k - 1] = d[k]
    <3> TAKE k \in 1..Len(d)
    <3>1. p + k - 1 = Len(b) + k
      BY <1>1
    <3> QED
      BY <1>6, <3>1
  <2> HIDE DEF p, q
  <2>4. /\ SubSeq(text, p, q) \in Seq(Characters) /\ Len(SubSeq(text, p, q)) = Len(d)
        /\ \A k \in 1..Len(d) : SubSeq(text, p, q)[k] = d[k]
    BY <2>1, <2>2, <2>3, SubSeqProperties
  <2> QED
    BY <1>1, <2>4
<1>14. IsDigit(x, 2) => Decimals(text, q + 2) = Decimals(x, 2)
  <2> SUFFICES ASSUME IsDigit(x, 2) PROVE Decimals(text, q + 2) = Decimals(x, 2)
    OBVIOUS
  <2>1. text[q + 2] = x[2]
    BY <1>1, <1>7 DEF IsDigit
  <2>2. IsDigit(x, 3) => text[q + 3] = x[3]
    BY <1>1, <1>7 DEF IsDigit
  <2>3. (q + 2) + 1 = q + 3 /\ 2 + 1 = 3 /\ (IsDigit(text, q + 3) <=> IsDigit(x, 3))
    BY <1>1, <1>8
  <2> QED
    BY <2>1, <2>2, <2>3 DEF Decimals
<1>15. Match(text, p) = Amount(d, x)
  <2>1. /\ IsSeparator(text, q + 1) <=> IsSeparator(x, 1)
        /\ IsDigit(text, q + 2) <=> IsDigit(x, 2)
    BY <1>8
  <2> HIDE DEF p, q
  <2>2. Match(text, p) = 1000 * Value(d) + (IF IsSeparator(text, q + 1) /\ IsDigit(text, q + 2)
                                            THEN Decimals(text, q + 2) ELSE 0)
    BY <1>12, <1>13 DEF Match, Number
  <2> QED
    BY <1>14, <2>1, <2>2 DEF Amount, Cents
<1>16. IsDigit(text, p)
  BY <1>9, <1>11
<1> HIDE DEF p, q
<1>17. ExtractAmount(text) = IF Match(text, p) > 0 THEN Match(text, p) ELSE NONE
  BY <1>3, <1>10, <1>11, <1>16, ExtractIs
<1> QED
  BY <1>15, <1>17 DEF text, rest

-----------------------------------------------------------------------------
(***************************************************************************)
(* The value of up to three digits, by the function that its recursion     *)
(* defines: it exists, since the sums themselves are one.                  *)
(***************************************************************************)
LEMMA ValueIs ==
  ASSUME NEW d \in Seq(Digits), Len(d) \in 1..3
  PROVE  /\ Len(d) = 1 => Value(d) = d[1]
         /\ Len(d) = 2 => Value(d) = 10 * d[1] + d[2]
         /\ Len(d) = 3 => Value(d) = 100 * d[1] + 10 * d[2] + d[3]
<1> DEFINE Reads(v) == v = [i \in 0..Len(d) |-> IF i = 0 THEN 0 ELSE 10 * v[i - 1] + d[i]]
           one   == d[1]
           two   == 10 * d[1] + d[2]
           three == 100 * d[1] + 10 * d[2] + d[3]
           sums == [i \in 0..Len(d) |-> IF i = 0 THEN 0
                                        ELSE IF i = 1 THEN one
                                        ELSE IF i = 2 THEN two ELSE three]
           upTo == CHOOSE v : Reads(v)
<1>0. Len(d) = 1 \/ Len(d) = 2 \/ Len(d) = 3
  OBVIOUS
<1>i. \A n \in 1..3 : \A i \in 0..n : i = 0 \/ i = 1 \/ i = 2 \/ (i = 3 /\ n = 3)
  OBVIOUS
<1>1. d[1] \in Int /\ (Len(d) >= 2 => d[2] \in Int) /\ (Len(d) = 3 => d[3] \in Int)
  BY <1>0 DEF Digits
<1>2. /\ one = 10 * 0 + d[1]
      /\ Len(d) >= 2 => two = 10 * one + d[2]
      /\ Len(d) = 3 => three = 10 * two + d[3]
  BY <1>1
<1>3. Reads(sums)
  <2> HIDE DEF one, two, three
  <2>1. ASSUME NEW i \in 0..Len(d)
        PROVE  sums[i] = IF i = 0 THEN 0 ELSE 10 * sums[i - 1] + d[i]
    <3>0. i = 0 \/ i = 1 \/ i = 2 \/ (i = 3 /\ Len(d) = 3)
      BY <1>i
    <3>1. CASE i = 0
      BY <3>1
    <3>2. CASE i = 1
      <4>1. sums[1] = one /\ sums[0] = 0
        BY <3>2
      <4> QED
        BY <1>2, <3>2, <4>1
    <3>3. CASE i = 2
      <4>1. sums[2] = two /\ sums[1] = one
        BY <3>3
      <4> QED
        BY <1>2, <3>3, <4>1
    <3>4. CASE i = 3
      <4>1. Len(d) = 3
        BY <3>0, <3>4
      <4>2. sums[3] = three /\ sums[2] = two
        BY <4>1
      <4> QED
        BY <1>2, <3>4, <4>1, <4>2
    <3> QED
      BY <3>0, <3>1, <3>2, <3>3, <3>4
  <2> QED
    BY <2>1
<1>4. Reads(upTo)
  BY <1>3
<1>5. \A i \in 0..Len(d) : upTo[i] = IF i = 0 THEN 0 ELSE 10 * upTo[i - 1] + d[i]
  BY <1>4
<1>6. Value(d) = upTo[Len(d)]
  BY DEF Value
<1> HIDE DEF upTo
<1>7. upTo[0] = 0
  BY <1>5
<1>8. upTo[1] = one
  BY <1>1, <1>5, <1>7
<1>9. Len(d) >= 2 => upTo[2] = two
  BY <1>2, <1>5, <1>8
<1>10. Len(d) = 3 => upTo[3] = three
  BY <1>2, <1>5, <1>9
<1>11. Len(d) = 1 => Value(d) = one
  BY <1>6, <1>8
<1>12. Len(d) = 2 => Value(d) = two
  BY <1>6, <1>9
<1>13. Len(d) = 3 => Value(d) = three
  BY <1>6, <1>10
<1> QED
  BY <1>11, <1>12, <1>13

LEMMA EndsOfThree ==
  ASSUME NEW all \in Seq(Digits), Len(all) = 3, NEW m \in 1..3,
         NEW z, z = SubSeq(all, m, 3)
  PROVE  /\ z \in Seq(Digits) /\ z # << >>
         /\ m = 1 => Value(z) = 100 * all[1] + 10 * all[2] + all[3]
         /\ m = 2 => Value(z) = 10 * all[2] + all[3]
         /\ m = 3 => Value(z) = all[3]
<1>2. /\ z \in Seq(Digits) /\ Len(z) = 4 - m
      /\ \A i \in 1..(4 - m) : z[i] = all[m + i - 1]
  <2>1. \A i \in m..3 : all[i] \in Digits
    OBVIOUS
  <2> QED
    BY <2>1, SubSeqProperties
<1>3. z \in Seq(Digits) /\ z # << >> /\ Len(z) \in 1..3
  BY <1>2
<1>4. /\ Len(z) = 1 => Value(z) = z[1]
      /\ Len(z) = 2 => Value(z) = 10 * z[1] + z[2]
      /\ Len(z) = 3 => Value(z) = 100 * z[1] + 10 * z[2] + z[3]
  BY <1>3, ValueIs
<1>5. m = 1 => Len(z) = 3 /\ z[1] = all[1] /\ z[2] = all[2] /\ z[3] = all[3]
  BY <1>2
<1>6. m = 2 => Len(z) = 2 /\ z[1] = all[2] /\ z[2] = all[3]
  BY <1>2
<1>7. m = 3 => Len(z) = 1 /\ z[1] = all[3]
  BY <1>2
<1> QED
  BY <1>3, <1>4, <1>5, <1>6, <1>7

LEMMA NumeralIs ==
  ASSUME NEW n \in 0..999
  PROVE  Numeral(n) \in Seq(Digits) /\ Numeral(n) # << >> /\ Value(Numeral(n)) = n
<1> DEFINE hundreds == n \div 100
           tens     == (n \div 10) % 10
           ones     == n % 10
           leading  == IF n < 10 THEN 3 ELSE IF n \in 10..99 THEN 2 ELSE 1
<1>1. /\ hundreds \in Digits /\ tens \in Digits /\ ones \in Digits
      /\ n = 100 * hundreds + 10 * tens + ones
  BY DEF Digits
<1>2. (n < 100 => hundreds = 0) /\ (n < 10 => tens = 0)
  OBVIOUS
<1>3. /\ leading \in 1..3
      /\ leading = 1 => n = 100 * hundreds + 10 * tens + ones
      /\ leading = 2 => n = 10 * tens + ones
      /\ leading = 3 => n = ones
  BY <1>1, <1>2 DEF Digits
<1>4. Numeral(n) = SubSeq(<< hundreds, tens, ones >>, leading, 3)
  BY DEF Numeral
<1>5. leading = 1 \/ leading = 2 \/ leading = 3
  BY <1>3
<1> HIDE DEF hundreds, tens, ones, leading
<1> QED
  <2> DEFINE z   == Numeral(n)
             all == << hundreds, tens, ones >>
  <2>0. /\ all \in Seq(Digits) /\ Len(all) = 3
        /\ all[1] = hundreds /\ all[2] = tens /\ all[3] = ones
    BY <1>1
  <2>1. z = SubSeq(all, leading, 3)
    BY <1>4
  <2> HIDE DEF all
  <2> HIDE DEF z
  <2>2. /\ z \in Seq(Digits) /\ z # << >>
        /\ leading = 1 => Value(z) = 100 * hundreds + 10 * tens + ones
        /\ leading = 2 => Value(z) = 10 * tens + ones
        /\ leading = 3 => Value(z) = ones
    BY <1>3, <2>0, <2>1, EndsOfThree
  <2>3. Value(z) = n
    BY <1>3, <1>5, <2>2
  <2> QED
    BY <2>2, <2>3 DEF z

-----------------------------------------------------------------------------
LEMMA Around ==
  /\ \A b \in Befores : b \in Seq(Characters) /\ \A k \in DOMAIN b : b[k] \notin Digits
  /\ \A a \in Afters : /\ a \in Seq(Characters) /\ ~IsDigit(a, 1)
                       /\ ~(IsSeparator(a, 1) /\ IsDigit(a, 2))
BY DEF Befores, Afters, Characters, Digits, IsDigit, IsSeparator, COMMA, DOT, OTHER_CHAR

LEMMA CentsAreRead ==
  ASSUME NEW cents \in 0..99, NEW separator \in {COMMA, DOT}, NEW a \in Seq(Characters),
         NEW decimals, decimals = << separator, cents \div 10, cents % 10 >>
  PROVE  /\ decimals \in Seq(Characters)
         /\ decimals \o a \in Seq(Characters)
         /\ ~IsDigit(decimals \o a, 1)
         /\ Cents(decimals \o a) = 10 * cents
<1> DEFINE x == decimals \o a
<1>1. /\ cents \div 10 \in 0..9 /\ cents % 10 \in 0..9
      /\ cents = 10 * (cents \div 10) + (cents % 10)
  OBVIOUS
<1>2. /\ decimals \in Seq(Characters) /\ Len(decimals) = 3
      /\ decimals[1] = separator /\ decimals[2] = cents \div 10 /\ decimals[3] = cents % 10
  BY <1>1 DEF Characters, COMMA, DOT, OTHER_CHAR
<1>3. /\ x \in Seq(Characters) /\ Len(x) = 3 + Len(a) /\ Len(a) \in Nat
      /\ \A k \in 1..3 + Len(a) : x[k] = IF k <= 3 THEN decimals[k] ELSE a[k - 3]
  BY <1>2, ConcatProperties
<1> HIDE DEF x
<1>4. /\ 1 \in DOMAIN x /\ 2 \in DOMAIN x /\ 3 \in DOMAIN x
      /\ x[1] = separator /\ x[2] = cents \div 10 /\ x[3] = cents % 10
  BY <1>2, <1>3
<1>5. ~IsDigit(x, 1) /\ IsSeparator(x, 1) /\ IsDigit(x, 2) /\ IsDigit(x, 3)
  BY <1>1, <1>4 DEF IsDigit, IsSeparator, COMMA, DOT
<1>6. Cents(x) = Decimals(x, 2) /\ Decimals(x, 2) = 100 * x[2] + 10 * x[3]
  BY <1>5 DEF Cents, Decimals
<1>7. Cents(x) = 10 * cents
  BY <1>1, <1>4, <1>6
<1> QED
  BY <1>2, <1>3, <1>5, <1>7 DEF x

(* An amount up to 999,99, in any of the documented formats and whatever   *)
(* words and punctuation stand around it, is read as it is written.        *)
THEOREM AmountsAreReadAsWritten ==
  ASSUME NEW reais \in AllReais, NEW cents \in AllCents
  PROVE  ReadAsWritten(reais, cents)
<1> USE DEF AllReais, AllCents
<1> SUFFICES ASSUME NEW text \in Writings(reais, cents),
                    NEW before \in Befores, NEW after \in Afters
             PROVE  ExtractAmount(before \o text \o after) =
                      IF 1000 * reais + 10 * cents = 0 THEN NONE
                      ELSE 1000 * reais + 10 * cents
  BY DEF ReadAsWritten
<1> DEFINE d == Numeral(reais)
<1>1. d \in Seq(Digits) /\ d # << >> /\ Value(d) = reais
  BY NumeralIs
<1>2. d \in Seq(Characters)
  BY <1>1 DEF Digits, Characters, OTHER_CHAR
<1>3. before \in Seq(Characters) /\ \A k \in DOMAIN before : before[k] \notin Digits
  BY Around
<1>4. after \in Seq(Characters)
  BY Around
<1> DEFINE Told(x) == /\ x \in Seq(Characters) /\ ~IsDigit(x, 1) /\ Cents(x) = 10 * cents
                      /\ before \o text \o after = before \o (d \o x)
<1>5. ASSUME NEW x, Told(x)
      PROVE  ExtractAmount(before \o text \o after) =
                      IF 1000 * reais + 10 * cents = 0 THEN NONE
                      ELSE 1000 * reais + 10 * cents
  <2> DEFINE amount == 1000 * reais + 10 * cents
  <2>1. Amount(d, x) = amount
    BY <1>1, <1>5 DEF Amount
  <2>2. amount > 0 <=> amount # 0
    OBVIOUS
  <2> HIDE DEF amount, d
  <2>3. ExtractAmount(before \o (d \o x)) = IF amount > 0 THEN amount ELSE NONE
    BY <1>1, <1>3, <1>5, <2>1, ReadsDigits
  <2> QED
    BY <1>5, <2>2, <2>3 DEF amount
<1>6. CASE cents = 0 /\ text = d
  <2>1. Cents(after) = 10 * cents /\ ~IsDigit(after, 1)
    BY <1>6, Around DEF Cents
  <2>2. before \o text \o after = before \o (d \o after)
    BY <1>2, <1>3, <1>4, <1>6, ConcatAssociative
  <2> QED
    BY <1>4, <1>5, <2>1, <2>2
<1>7. ASSUME NEW separator \in {COMMA, DOT},
             text = d \o << separator, cents \div 10, cents % 10 >>
      PROVE  ExtractAmount(before \o text \o after) =
                      IF 1000 * reais + 10 * cents = 0 THEN NONE
                      ELSE 1000 * reais + 10 * cents
  <2> DEFINE decimals == << separator, cents \div 10, cents % 10 >>
             x == decimals \o after
  <2>1. text = d \o decimals
    BY <1>7
  <2>2. /\ decimals \in Seq(Characters) /\ x \in Seq(Characters)
        /\ ~IsDigit(x, 1) /\ Cents(x) = 10 * cents
    BY <1>4, CentsAreRead
  <2> HIDE DEF decimals, d
  <2>3. d \o decimals \in Seq(Characters)
    BY <1>2, <2>2, ConcatProperties
  <2>4. (before \o text) \o after = before \o (text \o after)
    <3>1. text \in Seq(Characters)
      BY <2>1, <2>3
    <3> QED
      BY <1>3, <1>4, <3>1, ConcatAssociative
  <2>5. text \o after = d \o x
    BY <1>2, <1>4, <2>1, <2>2, ConcatAssociative
  <2> QED
    BY <1>5, <2>2, <2>4, <2>5
<1>8. \/ cents = 0 /\ text = d
      \/ \E separator \in {COMMA, DOT} :
            text = d \o << separator, cents \div 10, cents % 10 >>
  BY DEF Writings
<1> QED
  BY <1>6, <1>7, <1>8
=============================================================================
