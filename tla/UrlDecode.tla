------------------------------ MODULE UrlDecode ------------------------------
(***************************************************************************)
(* urldecode of client.c, on sequences of characters (their codes).        *)
(***************************************************************************)
EXTENDS Integers, Sequences

Percent == 37  \* '%'

\* '0' to '9', 'A' to 'F', 'a' to 'f'
Digits    == 48 .. 57
UpperCase == 65 .. 70
LowerCase == 97 .. 102

IsXDigit(char) == char \in Digits \cup UpperCase \cup LowerCase

HexDigit(char) ==
  IF char \in Digits THEN char - 48
  ELSE IF char \in UpperCase THEN char - 55
  ELSE char - 87

\* Where the second digit is tested for a lower case letter the code asks whether the
\* first one is at least 'a', which is a number below 16 by then: such a letter stays
\* what it is. The sum is stored in a char.
Escaped(a, b) ==
  (16 * HexDigit(a) + (IF b \in LowerCase THEN b ELSE HexDigit(b))) % 256

\* Escapes are replaced; what only begins like one is copied.
UrlDecode(src) ==
  LET from[i \in 1 .. Len(src) + 1] ==
        IF i > Len(src) THEN <<>>
        ELSE IF src[i] = Percent /\ i + 2 <= Len(src) /\ IsXDigit(src[i + 1]) /\ IsXDigit(src[i + 2])
          THEN <<Escaped(src[i + 1], src[i + 2])>> \o from[i + 3]
        ELSE <<src[i]>> \o from[i + 1]
  IN from[1]

=============================================================================
