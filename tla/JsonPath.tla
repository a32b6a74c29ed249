------------------------------ MODULE JsonPath ------------------------------
(***************************************************************************)
(* core/data/json/value.cpp: how json::path reads the text of a path. The  *)
(* arguments it finds are what path::make() and path::resolve() follow in  *)
(* JsonValue.                                                              *)
(***************************************************************************)
EXTENDS JsonValue

\* make_path() with add_path_in_arg(): a sequence of indices and names. Behind
\* "[%" the argument is taken but the percent sign is not, so that the bracket
\* becomes a name; no argument is ever used up. In the texts of the model an
\* element is a whole name, which in the code goes on to the next "[" or ".", or
\* an index of one digit, where the code reads as many as there are; a name
\* behind an index, or two names, have a "." between them.
RECURSIVE make_path(_, _)
make_path(text, arg) ==
    LET rest(n) == make_path(SubSeq(text, n + 1, Len(text)), arg)
        taken(kind) == IF arg.kind = kind THEN <<arg>> ELSE << >>
    IN  CASE text = << >> -> << >>
          [] text # << >> /\ Head(text) = "[" ->
               CASE Len(text) = 1 -> <<[kind |-> "index", key |-> IndexKey(0)]>>
                 [] Len(text) > 1 /\ text[2] = "%" -> taken("index") \o rest(2)
                 [] Len(text) > 1 /\ text[2] \in Elements ->
                      <<[kind |-> "index", key |-> text[2]]>> \o rest(3)
                 [] OTHER -> <<[kind |-> "index", key |-> IndexKey(0)]>> \o rest(2)
          [] text # << >> /\ Head(text) = "%" -> taken("key") \o rest(1)
          [] text # << >> /\ Head(text) = "." -> rest(1)
          [] OTHER -> <<[kind |-> "key", key |-> Head(text)]>> \o rest(1)

\* The arguments that a program may give for a "%".
PathArgs == {[kind |-> "key", key |-> Names[1]], [kind |-> "index", key |-> IndexKey(0)]}
-----------------------------------------------------------------------------
\* Refuted statement

\* "".[%]" => index is provied as parameter": nothing but the index is meant.
ParameterIsIndex ==
    \A arg \in PathArgs : arg.kind = "index" => make_path(<<".", "[", "%", "]">>, arg) = <<arg>>
=============================================================================
