----------------------------- MODULE MCTaskPaths ----------------------------
(* Host names that differ only in case and punctuation, one that has no   *)
(* slug at all, two source paths with the same last segment, and a typed  *)
(* destination with a leading slash.                                       *)
EXTENDS TaskPaths

MCChars == {"W", "w", "e", "b", "!", "d", "x", "y", "/", "-", "{"}
MCAlNum == {"w", "e", "b", "d", "x", "y"}
MCLower == [c \in MCChars |-> IF c = "W" THEN "w" ELSE c]
MCRoot == <<"/", "b">>
MCNames == {<<"W", "e", "b">>, <<"w", "e", "b", "!">>, <<"!">>}
MCHostPathInputs == {<<"w", "e", "b">>}
MCSourceInputs == {<<"/", "x", "/", "d">>, <<"/", "y", "/", "d", "/">>}
MCDestInputs == {<<"/", "d">>}

=============================================================================
