---- MODULE MCSerialPorts ----
(* Two ports; settings strings with every column given, shifted or missing.    *)
EXTENDS SerialPorts

CONSTANTS p1, p2

MCSpeeds == {300, 9600}

Port == Word("/dev/ttyUSB0")

\* Whole, with a column left out (and the later ones shifted), out of range, and
\* without speed and bits, where the speed is not initialised.
Columns ==
    {<<Port, Num(9600), Num(8), Word("o"), Num(2)>>,
     <<Port, Num(9600), Num(8), Missing, Num(2)>>,
     <<Port, Num(9600), Num(9), Word("o"), Missing>>,
     <<Port, Num(9600), Missing, Word("o"), Num(2)>>,
     <<Port, Missing, Num(8), Word("o"), Num(2)>>,
     <<Port, Missing, Missing, Word("o"), Missing>>,
     <<Port, Missing, Missing, Missing, Missing>>}

Plain == <<Port, Num(9600), Num(8), Word("n"), Num(1)>>

\* One port takes them all, the other one string.
MCSettings == [p \in {p1, p2} |-> IF p = p1 THEN Columns ELSE {Plain}]
====
