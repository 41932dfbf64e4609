------------------------------ MODULE MCServer ------------------------------
(* Instances of Server for TLC. *)
EXTENDS Server, UrlDecode, TLC

CONSTANTS f1, f2, f3, s1, s2

MCFd == {f1, f2, f3}
MCFdPair == {f1, f2}

\* "/", "/A" and "/%41"
MCStatus == <<47>>
Plain    == <<47, 65>>
Encoded  == <<47, Percent, 52, 49>>

MCPath == {MCStatus, Plain}
MCPathEscaped == {MCStatus, Plain, Encoded}

MCDecode == [p \in {MCStatus, Plain, Encoded} |-> UrlDecode(p)]
MCDecodePlain == [p \in MCPath |-> UrlDecode(p)]

MCStream == {s1, s2}

Symmetry == Permutations(MCFd) \cup Permutations(MCStream)

\* The characters of a hexadecimal digit.
Upper(d) == IF d < 10 THEN 48 + d ELSE 55 + d
Lower(d) == IF d < 10 THEN 48 + d ELSE 87 + d

\* urldecode gives back each byte from its escape in capital letters, also from one
\* whose first digit is a small letter, and whatever is around it.
ASSUME EscapesDecoded ==
  \A a \in 0 .. 15, b \in 0 .. 15 : \A first \in {Upper(a), Lower(a)} :
    UrlDecode(<<Percent, Percent, first, Upper(b), Percent>>) = <<Percent, 16 * a + b, Percent>>

\* No byte is given back from an escape whose second digit is a small letter
\* (client.c:1165).
ASSUME SmallSecondDigits ==
  \A a \in 0 .. 15, b \in 10 .. 15 :
    UrlDecode(<<Percent, Upper(a), Lower(b)>>) # <<16 * a + b>>

=============================================================================
