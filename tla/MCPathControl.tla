--------------------------- MODULE MCPathControl ---------------------------
(***************************************************************************)
(* Names over an alphabet of two letters in both cases, of which one is    *)
(* not ASCII; among them one that is a prefix of another, at the depths    *)
(* where a prefix of the string is not a prefix of the path.               *)
(***************************************************************************)
EXTENDS PathControl

MCAscii   == {"a", "A"}
MCLetters == MCAscii \cup {"ae", "AE"}      \* "ae" and "AE" stand for one character each
MCFold    == [c \in MCLetters |-> IF c = "A" THEN "a" ELSE IF c = "AE" THEN "ae" ELSE c]
MCNames   == {<<"a">>, <<"A">>, <<"a", "ae">>, <<"A", "AE">>, <<"ae">>}

=============================================================================
