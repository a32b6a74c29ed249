-------------------------- MODULE MCJsonDocuments --------------------------
EXTENDS JsonDocuments

Alphabet == Blanks \cup Strings \cup Numbers \cup Literals \cup BlockComments
                \cup Punctuation \cup {"//", "?"}

\* Two numbers without a blank between them are one, and a line break within a
\* block comment would end a comment before it.
WellCut(d) ==
    /\ \A i \in 1 .. Len(d) - 1 : ~(d[i] \in Numbers /\ d[i + 1] \in Numbers)
    /\ \A i, j \in DOMAIN d : i < j /\ d[i] = "//" /\ d[j] = "/*nl*/" =>
                                \E k \in i .. j : d[k] = "nl"

Seeds == {<<"{", "a", ":", "1", ",", "s1", ":", "[", "]", "}">>,
          <<"[", "1", ",", "[", "n", "]", ",", "{", "}", "]">>,
          <<"{", "e", ":", "{", "a", ":", "n", "}", "}">>,
          <<"[", "{", "a", ":", "1", ",", "a", ":", "n", "}", "]">>,
          <<"[", "[", "[", "1", "]", "]", "]">>,
          <<"{", "a", ":", "[", "1", "]", ",", "a", ":", "t", "}">>,
          <<"{", "a0", ":", "a0", ",", "a", ":", "n", "}">>,
          <<"{", "a", ":", "1", "/*", "?", "e", ":", "a0", "}">>}

Inserted(d, i, x) == SubSeq(d, 1, i) \o x \o SubSeq(d, i + 1, Len(d))

Marks == {<<"//", "nl">>, <<"//", "sp", "nl">>, <<"/*">>, <<"/*nl*/">>, <<"nl">>}

Short == UNION {[1 .. n -> Alphabet] : n \in 0 .. 2}
Near == UNION {{Inserted(d, i, <<x>>) : i \in 0 .. Len(d), x \in Alphabet} : d \in Seeds}
Marked(d) == UNION {{Inserted(Inserted(d, i, x), j, y) : j \in 0 .. i, x, y \in Marks} :
                      i \in 0 .. Len(d)}

\* Two marks are put into texts for the default settings only: strict mode
\* refuses the first of them, and the seeds hold nothing that the lax settings
\* read differently.
Lax == [set_defaults(3) EXCEPT !.dropped = TRUE, !.numeric = TRUE]
MCCases == {c \in ((Short \cup Near) \X {set_defaults(3), strict_mode(3), Lax})
                     \cup (UNION {Marked(d) : d \in Seeds}) \X {set_defaults(3)} :
              WellCut(c[1])}
=============================================================================
