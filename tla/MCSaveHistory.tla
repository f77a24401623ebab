--------------------------- MODULE MCSaveHistory ---------------------------
(* The instances of SaveHistory that TLC checks: character IDs.            *)
EXTENDS SaveHistory

MCChars == {1, 2}
MCOneChar == {1}
=============================================================================
