-------------------------------- MODULE MCQr --------------------------------
EXTENDS QrReader

Job(api, data, level, minVersion, maxVersion, msk, boost) ==
  [api |-> api, data |-> data, ecl |-> level, minVersion |-> minVersion,
   maxVersion |-> maxVersion, mask |-> msk, boostEcl |-> boost]

Digits(n) == [k \in 1 .. n |-> 48 + ((7 * k) % 10)]
Capitals(n) == [k \in 1 .. n |-> ALPHANUMERIC_CHARSET[((11 * k) % 45) + 1]]
Letters(n) == [k \in 1 .. n |-> 97 + ((k * k) % 26)]

MCJobs ==
  \* the choice of the mask, every mask, and lengths around the end of a group
  {Job("text", t, LOW, 1, 3, Mask_AUTO, TRUE) : t \in {<<>>, Capitals(7), Letters(14)}}
    \cup {Job("text", Digits(16 + m), MEDIUM, 1, 40, m, FALSE) : m \in 0 .. 7}
  \* the capacity of version 1-L, and one more
    \cup {Job(api, Letters(n), LOW, 1, 2, 0, FALSE) : api \in {"text", "binary"}, n \in {17, 18}}
  \* more than the range of versions holds, and more than its buffer holds
    \cup {Job("text", Letters(n), LOW, 1, 1, 0, TRUE) : n \in {18, 57, 58}}
    \cup {Job("text", Digits(180), LOW, 1, 1, 0, TRUE), Job("text", Capitals(90), LOW, 1, 1, 0, TRUE)}
  \* segments of the caller
    \cup {Job("segments", <<makeEci(e), makeBytes(<<195, 169>>), makeNumeric(Digits(4))>>, LOW, 1, 40, 3, TRUE) :
            e \in {26, 200, 20000}}
  \* several blocks of unequal length, version blocks, more alignment patterns
    \cup {Job("text", Letters(20), level, v, v, v % 8, FALSE) :
            <<v, level>> \in {<<2, HIGH>>, <<5, QUARTILE>>, <<7, HIGH>>, <<8, MEDIUM>>, <<10, LOW>>}}
=============================================================================
