------------------------------ MODULE AmountText ------------------------------
(***************************************************************************)
(* The amount that an answer to "Qual valor deseja pagar?" is read as:     *)
(* _extract_amount of src/graph/nodes/identify_intent.py, a leftmost match *)
(* of (\d+[.,]\d{1,2}|\d+).  A text is a sequence of characters: 0..9 for  *)
(* the digits, and three numbers that are no digits for the others.        *)
(***************************************************************************)
EXTENDS PixState
LOCAL INSTANCE FiniteSetsExt

COMMA == 10
DOT   == 11
OTHER_CHAR == 12     \* a letter, a space, "$"

IsDigit(t, i)     == i \in DOMAIN t /\ t[i] \in 0..9
IsSeparator(t, i) == i \in DOMAIN t /\ t[i] \in {COMMA, DOT}

(* The digits that \d+ takes from position i on end here *)
LastDigit(t, i) == Max({j \in i..Len(t) : \A k \in i..j : IsDigit(t, k)})

(* The number that a run of digits is *)
Value(digits) ==
    LET upTo[i \in 0..Len(digits)] ==
            IF i = 0 THEN 0 ELSE 10 * upTo[i - 1] + digits[i]
    IN  upTo[Len(digits)]

Number(t, first, last) == Value(SubSeq(t, first, last))

(* In tenths of a cent, as every amount of the model: up to two decimals *)
Decimals(t, i) == 100 * t[i] + (IF IsDigit(t, i + 1) THEN 10 * t[i + 1] ELSE 0)

(* Slip: the pattern's alternatives the other way round *)
WholeMatch(t, first) == 1000 * Number(t, first, LastDigit(t, first))

(* What the pattern reads at its first digit: with decimals if it can *)
Match(t, first) ==
    LET last == LastDigit(t, first)
    IN  1000 * Number(t, first, last)
        + IF IsSeparator(t, last + 1) /\ IsDigit(t, last + 2)
          THEN Decimals(t, last + 2) ELSE 0

ExtractAmount(t) ==
    LET starts == {i \in DOMAIN t : IsDigit(t, i)}
    IN  IF starts # {} /\ Match(t, Min(starts)) > 0
        THEN Match(t, Min(starts)) ELSE NONE

-----------------------------------------------------------------------------
(* How users write amounts: R$100, 100.00 and 100,50 are the formats that  *)
(* src/graph/prompts/identify_intent.py names.                             *)
Numeral(n) ==      \* up to 999
    LET leading == CASE n < 10 -> 3 [] n \in 10..99 -> 2 [] OTHER -> 1
    IN  SubSeq(<< n \div 100, (n \div 10) % 10, n % 10 >>, leading, 3)

Writings(reais, cents) ==
    (IF cents = 0 THEN {Numeral(reais)} ELSE {})
    \cup {Numeral(reais) \o << separator, cents \div 10, cents % 10 >> :
             separator \in {COMMA, DOT}}

Befores == {<< >>, << OTHER_CHAR, OTHER_CHAR >>, << COMMA >>}
Afters  == {<< >>, << OTHER_CHAR >>, << DOT >>, << COMMA, OTHER_CHAR, 7 >>}

(* It is read as it was written, whatever words and punctuation stand around *)
ReadAsWritten(reais, cents) ==
    \A text \in Writings(reais, cents), before \in Befores, after \in Afters :
        ExtractAmount(before \o text \o after) =
            LET amount == 1000 * reais + 10 * cents
            IN  IF amount = 0 THEN NONE ELSE amount
=============================================================================
