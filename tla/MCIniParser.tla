------------------------------ MODULE MCIniParser ------------------------------
(* Instances of IniParser for TLC: files over a few lines. *)
EXTENDS IniParser

\* names that hash alike; one with a section prefix, made also of a piece "s:" and a key
MCNameHash == [k \in Name |-> IF k = "s" THEN 1 ELSE 2]
MCPrefix == [k \in Name |-> IF k = "s:k" THEN "s" ELSE NULL]
MCVal == UNION {[1 .. n -> {"y", "n"}] : n \in 1 .. 3}
MCGlue == [v \in MCVal |-> [k \in Name |-> "s:k"]]
MCEditVal == {<<"y">>}

MCLine(kind, name, text, end) == [kind |-> kind, name |-> name, text |-> text, end |-> end]
MCLines ==
    {MCLine(kind, NULL, "n", end) : kind \in {"blank", "comment", "junk"}, end \in {"newline", "backslash"}}
    \cup {MCLine("section", "s", "y", end) : end \in {"newline", "backslash"}}
    \cup {MCLine("value", k, "y", "newline") : k \in {"s", "k", "s:k"}}
    \cup {MCLine("value", "k", "n", end) : end \in {"backslash", "none"}}

=============================================================================
