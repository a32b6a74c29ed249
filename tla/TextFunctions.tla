--------------------------- MODULE TextFunctions ---------------------------
(***************************************************************************)
(* The parts of the program that work on a text. The lexer of Lexer goes   *)
(* through a text from its beginning to its end. The others keep no state  *)
(* between calls: core/text, the numbers of the command line, the scalars  *)
(* of core/data/json and the Python front end. Before it turns to the      *)
(* lexer, a caller asks for one computation of these after the other; each *)
(* is checked on every input of its set against what it promises.          *)
(***************************************************************************)
EXTENDS Lexer

CONSTANTS
    Width,        \* of the terminal that lines are wrapped for
    Paragraphs,   \* texts to wrap
    Buffers,      \* texts that may be UTF-8
    Codepoints,   \* what is written into buffers
    Rooms,        \* how large these buffers are
    Labels,       \* texts for Punycode, with a largest integer and a buffer size
    Numbers,      \* numbers with the range that a parameter may be in
    Scalars,      \* numbers and other values that are converted
    Integers64,   \* integers within the range of 64 bits and beyond
    Strings,      \* contents of strings, and lines of a document
    Sources,      \* texts for the Python front end
    CodeLines,    \* lines for the C++ lexer
    Templates,    \* formats in pieces, and the values of their arguments
    Texts,        \* texts with lines and words
    Bases,        \* numbers with a base and a buffer size
    Names         \* names of headers

Wrap == INSTANCE TextWrap
Utf == INSTANCE Unicode
Puny == INSTANCE Punycode
Scan == INSTANCE NumberScan
Json == INSTANCE JsonScalars
Python == INSTANCE IntentLexer
Tokens == INSTANCE LexerTokens
Template == INSTANCE Interp
Pieces == INSTANCE TextPieces

VARIABLE call     \* the last computation: its name and its input

TextInit == Init /\ call = [fn |-> "none", in |-> 0]

Ask(fn, inputs) ==
    /\ at = "start" /\ call.fn = "none"
    /\ \E in \in inputs : call' = [fn |-> fn, in |-> in]
    /\ UNCHANGED vars

WrapText == Ask("wrap", Paragraphs)
TakeApart == Ask("utf8", Buffers)
WriteCodepoint == Ask("codepoint", Codepoints \X Rooms)
EncodeLabel == Ask("punycode", Labels)
ScanNumber == Ask("number", Numbers)
Convert == Ask("convert", Scalars)
WriteInteger == Ask("integer", Integers64)
WriteString == Ask("string", Strings)
Compile == Ask("source", Sources)
LexLine == Ask("line", CodeLines)
Interpolate == Ask("interp", Templates)
SplitText == Ask("split", Texts)
WriteInBase == Ask("base", Bases)
CompareNames == Ask("names", Names \X Names)

\* The caller has what it wanted and may ask for something else.
Return == call.fn # "none" /\ call' = [fn |-> "none", in |-> 0] /\ UNCHANGED vars

Lex == call.fn = "none" /\ Next /\ UNCHANGED call

TextNext ==
    \/ WrapText \/ TakeApart \/ WriteCodepoint \/ EncodeLabel \/ ScanNumber
    \/ Convert \/ WriteInteger \/ WriteString \/ Compile \/ LexLine
    \/ Interpolate \/ SplitText \/ WriteInBase \/ CompareNames \/ Return
    \/ Lex

TextSpec == TextInit /\ [][TextNext]_<<vars, call>> /\ Fairness
-----------------------------------------------------------------------------
\* wrap_lines() ends, keeps every visible character in its order, and puts no
\* glyph beyond the width, hyphens and hard line breaks included.
WrapsWithinWidth == call.fn = "wrap" => Wrap!WrapsWell(call.in, Width)

\* is_well_formed_utf8() accepts every text that is UTF-8 and rejects the others
\* unless they break off within a character; counting, finding and stepping
\* through such a text agree with each other.
Utf8IsTakenApart == call.fn = "utf8" => Utf!TextIsTakenApart(call.in)

\* Whatever the room in the buffer, add_codepoint_to_utf8() and the functions
\* that write escapes either refuse or write what is read back as the same
\* codepoint, within that room; but an escape that fills the buffer exactly loses
\* its last digit.
CodepointsAreKept == call.fn = "codepoint" => Utf!CodepointIsKept(call.in[1], call.in[2])

\* punycode_decode() undoes punycode_encode(), up to the largest integer, where
\* the encoder refuses rather than wraps.
LabelsAreKept ==
    call.fn = "punycode" => Puny!PunycodeRoundTrip(call.in.text, call.in.maxint, call.in.room)

\* scan_number() reads decimal, hexadecimal and binary numbers to their end and
\* for what they are worth, octal and floating-point ones with the digits and
\* signs missing that it drops, and in_numeric_range() accepts them exactly if
\* what was read is in range.
NumbersAreScanned == call.fn = "number" => Scan!NumbersAreRead(call.in.word, call.in.min, call.in.max)

\* What is_int() and its relatives, and is_convertible_to(), vouch for, as_int()
\* and its relatives return exactly, at the limits of each type too; and of all
\* numbers only 2 to the power of 63 and of 64 are returned out of range.
ConversionsAreSafe == call.fn = "convert" => Json!ConversionsAreSafe(call.in)

\* An integer that value_to_string() writes is decoded as that integer exactly if
\* it fits, and as a double otherwise; the limits fit.
IntegersAreKept == call.fn = "integer" => Json!IntegerIsKept(call.in)

\* A string of any bytes that value_to_quoted_string() writes ends where
\* read_string() says it does and is decoded as what it was.
StringsAreKept == call.fn = "string" => Json!StringIsKept(call.in)

\* The place of an error that is reported to the user is the line and column of
\* the byte it is about, with any mixture of line breaks before it.
PlacesAreRight == call.fn = "string" => \A i \in DOMAIN call.in : Json!PlaceIsRight(call.in, i)

\* Escapes of JSON, in two halves where needed, are decoded as the bytes that
\* core/text writes for the same codepoint.
EscapesAgree == call.fn = "codepoint" => Json!EscapedCodepointIsKept(call.in[1])

\* The tokens of lex.py follow the text and cover it, each opened section is
\* closed or reported, and the stack of states is empty in the end.
SourcesBecomeTokens == call.fn = "source" => Python!TextBecomesTokens(call.in)

\* Each paragraph and each term of a text becomes one node, in order; the line
\* with an error becomes that error, and hides no other line.
SourcesBecomeNodes == call.fn = "source" => Python!LinesBecomeNodes(call.in)

\* The lexer of lang reads a token for each part of a line that is not blank;
\* each operator is the longest that fits, at the end of the text as well; and
\* numbers are the ones that scan_number() of core/text finds.
LinesBecomeTokens == call.fn = "line" => Tokens!TextBecomesTokens(call.in)

\* interp() replaces each reference, wherever it stands and whatever surrounds
\* it, and leaves the rest of the format as it is.
FormatsAreFollowed == call.fn = "interp" => Template!FormatIsFollowed(call.in.pieces, call.in.args)

\* line_iterator and split() lose nothing of a text and add nothing, with any
\* mixture of line breaks, at its beginning and end as well.
TextsAreSplit == call.fn = "split" => Pieces!TextIsSplit(call.in)

\* base_x_encode() writes a number right if and only if its digits fit the buffer
\* and the type of the number has room for one more digit.
NumbersAreWritten == call.fn = "base" => Pieces!NumberIsWritten(call.in.n, call.in.base, call.in.room)

\* Header names that differ in case only are the same, and letters and digits are
\* ordered by their upper case forms.
NamesAreCompared == call.fn = "names" => Pieces!NamesAreOrdered(call.in[1], call.in[2])
-----------------------------------------------------------------------------
(* What the runs check, one statement for each kind of function            *)

\* Laying out a text loses nothing of it: wrapping keeps its glyphs and the
\* width, splitting its lines and words, interpolation what is no reference;
\* and the names of headers are put in order.
TextIsLaidOut == WrapsWithinWidth /\ TextsAreSplit /\ FormatsAreFollowed /\ NamesAreCompared

\* Whatever is written in one of the encodings (UTF-8, escapes, punycode, quoted
\* strings of JSON) is read back as what it was or refused, in buffers of every
\* size, except for an escape that just fills its buffer, of which the last digit
\* is lost; and places in a text are those of its bytes.
TextIsEncoded ==
    Utf8IsTakenApart /\ CodepointsAreKept /\ LabelsAreKept /\ StringsAreKept /\ EscapesAgree /\ PlacesAreRight

\* Numbers survive: those that are scanned, written in any base, decoded from
\* JSON or converted between types have the same value afterwards, or are
\* refused, also where they only just fit their type; and where they do not, this
\* is exactly where: octal numbers, signs of fractions and numbers with nothing
\* but an exponent in scan_number(), the highest digit of a type in
\* base_x_encode(), and 2 to the power of 63 and 64 in as_int64() and as_uint64().
NumbersAreKept == NumbersAreScanned /\ NumbersAreWritten /\ IntegersAreKept /\ ConversionsAreSafe

\* Both front ends read all of a source: its parts become tokens once and in
\* order, and the Python parser makes a node of each line that has no error. It is
\* said which texts come to an end: lex.py does not come back from a line that
\* begins with a blank, parse.py raises on an error in the first line, and in the
\* C++ lexer a comment, and nothing else, ends beyond the text.
SourcesAreRead == SourcesBecomeTokens /\ SourcesBecomeNodes /\ LinesBecomeTokens

=============================================================================
