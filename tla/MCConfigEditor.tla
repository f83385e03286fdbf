--------------------------- MODULE MCConfigEditor ---------------------------
(* Two pages of one browser, two clicks.                                 *)
EXTENDS ConfigEditor

CONSTANTS p1, p2, here, there

Pages == {p1, p2}
Bodies == 0 .. 2
Sockets == {here, there}
FirstOne == Whole(1, "hidden", here)
\* Sorts "bare" and "junk" come of saves that fail, "odd" of a page without a daemon.
SomeTexts ==
    {Whole(2, "fraction", here), Whole(1, "unset", here), Whole(2, "custom", there)}
Authors == {p1}
Everything == EnvKinds
=============================================================================
