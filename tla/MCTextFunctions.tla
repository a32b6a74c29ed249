-------------------------- MODULE MCTextFunctions --------------------------
EXTENDS TextFunctions, SequencesExt

UpTo(n, S) == UNION {[1 .. k -> S] : k \in 0 .. n}
Some(c, n) == [i \in 1 .. n |-> c]

\* Pieces that end near the width of ten, and the marks between them; "xcc" is
\* one character of three bytes.
WrapPieces == {Some("x", 3), Some("x", 5), <<" ">>, <<"-">>, <<"-", "-">>, Some(" ", 5),
           <<"n">>, <<"r", "n">>, <<"x", "c", "c">>}
MCParagraphs == {FlattenSeq(p) : p \in UpTo(4, WrapPieces)}

\* First bytes of each length, bytes that follow, and those at the limits.
MCBuffers == UpTo(4, {65, 130, 160, 191, 194, 224, 226, 237, 240, 244, 193, 143})

\* Around the limits between one, two, three and four bytes, and the characters
\* that are escaped.
MCCodepoints == UNION {n - 1 .. n + 1 :
    n \in {1, 9, 13, 33, 35, 38, 91, 127, 2047, 55296, 57343, 65535}} \cup {1114111}
MCRooms == 0 .. 11

MCLabels == [text : UpTo(3, {97, 45, 128, 200, 1000, 60000}), maxint : {65535, 60100, 1000000000},
             room : {0, 3, 5}]

Digits == {<<"0">>, <<"1">>, <<"9">>, <<"1", "0">>, <<"1", "_", "1">>, <<"7", "7">>, <<"1", "0", "1", "1">>,
           <<"a">>, <<"f", "f">>, <<"1", "_", "f">>, <<"f", "f", "f">>}
Fits(w) ==
    /\ w.format # "float" => w.fraction = <<>> /\ w.exponent = <<>>
    /\ w.format = "float" => w.fraction # <<>> \/ w.exponent # <<>>
    /\ w.format # "hex" => \A i \in DOMAIN w.digits : w.digits[i] \notin {"a", "f"}
    /\ w.format \in {"binary"} => \A i \in DOMAIN w.digits : w.digits[i] \in {"0", "1", "_"}
    /\ w.format \in {"octal"} => \A i \in DOMAIN w.digits : w.digits[i] # "9"
    /\ w.format = "decimal" => w.digits[1] # "0" \/ Len(w.digits) = 1
Words == {w \in [sign : {<<>>, <<"-">>, <<"+">>}, format : {"decimal", "hex", "binary", "octal", "float"},
                 digits : Digits, fraction : {<<>>, <<"5", "0">>, <<"0", "7">>},
                 exponent : {<<>>, <<"1">>, <<"2">>}] : Fits(w)}
MCNumbers == [word : Words, min : {0}, max : {9}] \cup [word : Words, min : {-10}, max : {10}]
               \cup [word : Words, min : {-300}, max : {1500}]

MCScalars == [type : {"int"}, num : -8 .. 7] \cup [type : {"uint"}, num : 0 .. 15]
               \cup [type : {"real"}, num : {0, 1, 2, 3, 4, 6, 8, 12, 16, 24, 32}
                                             \cup {-1, -2, -3, -4, -6, -8, -12, -16, -24}]
               \cup [type : {"null"}, num : {0}]
               \cup [type : {"bool", "string", "array", "object"}, num : {0, 1}]
MCIntegers64 == -120 .. 200
MCStrings == UpTo(3, {65, 10, 13, 34, 92, 0, 31, 117, 200, 47}) \cup [1 .. 4 -> {65, 10, 13, 92}]
MCSources == UpTo(5, {"a", " ", "n", "t", "-", ":", "[", "]", "|"})

\* Operators of up to four characters with what may follow them; numbers of all
\* formats, with exponents 0 and 1; comments, quotes and phrases.
MCCodeLines ==
    UpTo(4, {"<", "=", ">", "?", "[", "-", "+", "!", ":", ".", "*", "1"})
      \cup {s \in UpTo(4, {"0", "1", "7", "9", "x", "b", "e", ".", "-", "_"}) :
             /\ \A i \in 1 .. Len(s) - 1 : s[i] = "e" => s[i + 1] \notin {"7", "9"}
             /\ \A i \in 1 .. Len(s) - 2 : s[i] = "e" => s[i + 2] \in {"x", "b", "e", ".", "-"}}
      \cup UpTo(3, {"&", "|", "^", "%", "/", "~", ",", "(", ")", "]", "=", "#", "q", "a", "A", " ", "1", "$"})

Piece(is, n, text) == [is |-> is, n |-> n, text |-> text, of |-> <<>>]
Choice(n, text, of) == [is |-> "choice", n |-> n, text |-> text, of |-> of]
FormatPieces ==
    {Piece("plain", 0, <<"x">>), Piece("plain", 0, <<"1", "}">>), Piece("brace", 0, <<"{", "{">>),
     Piece("plain", 0, <<"{", "x">>), Piece("plain", 0, <<"{", "9", "}">>),
     Piece("plain", 0, <<"{", "0", "}">>), Piece("plain", 0, <<"{", "1", "n", "}">>),
     Piece("plain", 0, <<"{", "1", "%", "x", "x", "x", "}">>),
     Piece("arg", 1, <<"{", "1", "}">>), Piece("arg", 2, <<"{", "2", " ", "=", "x", "}">>),
     Piece("spec", 1, <<"{", "1", " ", "%", "x", " ", "}">>),
     Choice(2, <<"{", "2", "~", " ", "x", "|", "|", "y", "}">>, <<<<"x">>, <<>>, <<"y">>>>)}
MCTemplates == [pieces : UpTo(3, FormatPieces), args : {<<0, 0>>, <<0, 1>>, <<0, 2>>, <<1, 7>>, <<1, -1>>}]

MCTexts == UpTo(5, {"x", " ", "r", "n"})
MCBases == [n : 0 .. 255, base : {2, 3, 10, 16}, room : 0 .. 4]
MCNames == UpTo(2, {48, 65, 66, 95, 97, 98, 122})
=============================================================================
