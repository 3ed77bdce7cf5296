-------------------------------- MODULE Json --------------------------------
(***************************************************************************)
(* JSON documents, their parser and their printer (detail/json_value.hpp,  *)
(* detail/json_writer.hpp).                                                *)
(*                                                                         *)
(* A string is a sequence of pieces: a special character, or a stretch of  *)
(* text nothing here looks into.  A text is a sequence of tokens, white    *)
(* space left out; the token of a string carries the pieces between its    *)
(* quotes as they are written, that of a number what std::stod reads from  *)
(* its characters; "junk" is anything parseNumber refuses.                 *)
(***************************************************************************)
EXTENDS Integers, Sequences, SequencesExt

Null == [type |-> "null", boolean |-> FALSE, number |-> 0, str |-> <<>>,
         object |-> <<>>, array |-> <<>>]
Bool(b) == [Null EXCEPT !.type = "bool", !.boolean = b]
Number(n) == [Null EXCEPT !.type = "number", !.number = n]
Str(s) == [Null EXCEPT !.type = "string", !.str = s]
Object(members) == [Null EXCEPT !.type = "object", !.object = members]
Array(items) == [Null EXCEPT !.type = "array", !.array = items]

\* The first member of that name is found.
Has(v, key) == \E i \in DOMAIN v.object : v.object[i][1] = <<key>>
Find(v, key) == SelectInSeq(v.object, LAMBDA member : member[1] = <<key>>)
Get(v, key) == v.object[Find(v, key)][2]

-----------------------------------------------------------------------------
(* Strings: "quote", "backslash", a line feed "LF" and one other control    *)
(* character "SOH" are special.                                             *)

Escaped(c) == CASE c = "quote"     -> <<"backslash", "quote">>
                [] c = "backslash" -> <<"backslash", "backslash">>
                [] c = "LF"        -> <<"backslash", "n">>
                [] c = "SOH"       -> <<"backslash", "u", "0001">>
                [] OTHER           -> <<c>>
Escape(s) == FlattenSeq([i \in DOMAIN s |-> Escaped(s[i])])

BadString == <<"bad">>
Meaning(c) == CASE c = "n" -> "LF"
                [] c \in {"quote", "backslash"} -> c
                [] OTHER -> "unknown escape"

\* parseString, between the quotes (where a string ends is the text's tokens'
\* affair); BadString when it fails.
RECURSIVE Unescape(_)
Unescape(raw) ==
    LET read(piece, n) ==
            LET rest == Unescape(SubSeq(raw, n + 1, Len(raw))) IN
            IF rest = BadString THEN rest ELSE <<piece>> \o rest
    IN
    CASE raw = <<>> -> <<>>
      [] raw # <<>> /\ raw[1] \notin {"backslash", "quote"} -> read(raw[1], 1)
      [] Len(raw) > 2 /\ raw[1] = "backslash" /\ raw[2] = "u" /\ raw[3] = "0001" ->
            read("SOH", 3)
      [] Len(raw) > 1 /\ raw[1] = "backslash" /\ Meaning(raw[2]) # "unknown escape" ->
            read(Meaning(raw[2]), 2)
      [] OTHER -> BadString

-----------------------------------------------------------------------------
(* Texts *)

Punct(p) == [t |-> p]
Word(w) == [t |-> "word", word |-> w]
Quoted(raw) == [t |-> "string", raw |-> raw]
Digits(n) == [t |-> "number", reads |-> n]
NoNumber == [t |-> "junk"]

RECURSIVE WriteJson(_)
\* parts, separated by commas
Listed(parts) ==
    FlattenSeq([i \in DOMAIN parts |-> (IF i = 1 THEN <<>> ELSE <<Punct(",")>>) \o parts[i]])
WriteJson(v) ==
    CASE v.type = "null"   -> <<Word("null")>>
      [] v.type = "bool"   -> <<Word(IF v.boolean THEN "true" ELSE "false")>>
      [] v.type = "number" -> <<Digits(v.number)>>
      [] v.type = "string" -> <<Quoted(Escape(v.str))>>
      [] v.type = "array"  ->
            <<Punct("[")>> \o Listed([i \in DOMAIN v.array |-> WriteJson(v.array[i])])
                           \o <<Punct("]")>>
      [] v.type = "object" ->
            <<Punct("{")>> \o Listed([i \in DOMAIN v.object |->
                                 <<Quoted(Escape(v.object[i][1])), Punct(":")>>
                                 \o WriteJson(v.object[i][2])])
                           \o <<Punct("}")>>

\* What a parsing function returns: a value and the place after it, or a failure.
Read(v, pos) == [ok |-> TRUE, value |-> v, pos |-> pos]
Failure == [ok |-> FALSE, value |-> Null, pos |-> 0]
Is(text, pos, t) == pos <= Len(text) /\ text[pos].t = t
IsKey(text, pos) == Is(text, pos, "string") /\ Unescape(text[pos].raw) # BadString

RECURSIVE ParseValue(_, _)

\* (mutant: a comma may stand before the closing brace)
RECURSIVE ParseMembersLeniently(_, _, _)
ParseMembersLeniently(text, pos, members) ==
    LET v == ParseValue(text, pos + 2)
        all == Append(members, <<Unescape(text[pos].raw), v.value>>)
    IN
    IF Is(text, pos, "}") THEN Read(Object(members), pos + 1)
    ELSE IF ~(IsKey(text, pos) /\ Is(text, pos + 1, ":") /\ v.ok) THEN Failure
    ELSE IF Is(text, v.pos, ",") THEN ParseMembersLeniently(text, v.pos + 1, all)
    ELSE IF Is(text, v.pos, "}") THEN Read(Object(all), v.pos + 1)
    ELSE Failure

RECURSIVE ParseMembers(_, _, _)
ParseMembers(text, pos, members) ==
    LET v == ParseValue(text, pos + 2)
        all == Append(members, <<Unescape(text[pos].raw), v.value>>)
    IN
    IF ~(IsKey(text, pos) /\ Is(text, pos + 1, ":") /\ v.ok) THEN Failure
    ELSE IF Is(text, v.pos, ",") THEN ParseMembers(text, v.pos + 1, all)
    ELSE IF Is(text, v.pos, "}") THEN Read(Object(all), v.pos + 1)
    ELSE Failure

RECURSIVE ParseItems(_, _, _)
ParseItems(text, pos, items) ==
    LET v == ParseValue(text, pos)
        all == Append(items, v.value)
    IN
    IF ~v.ok THEN Failure
    ELSE IF Is(text, v.pos, ",") THEN ParseItems(text, v.pos + 1, all)
    ELSE IF Is(text, v.pos, "]") THEN Read(Array(all), v.pos + 1)
    ELSE Failure

Literal(word) == CASE word = "true"  -> Bool(TRUE)
                   [] word = "false" -> Bool(FALSE)
                   [] word = "null"  -> Null

ParseValue(text, pos) ==
    CASE Is(text, pos, "{") ->
            IF Is(text, pos + 1, "}") THEN Read(Object(<<>>), pos + 2)
            ELSE ParseMembers(text, pos + 1, <<>>)
      [] Is(text, pos, "[") ->
            IF Is(text, pos + 1, "]") THEN Read(Array(<<>>), pos + 2)
            ELSE ParseItems(text, pos + 1, <<>>)
      [] IsKey(text, pos) -> Read(Str(Unescape(text[pos].raw)), pos + 1)
      [] Is(text, pos, "word") -> Read(Literal(text[pos].word), pos + 1)
      [] Is(text, pos, "number") -> Read(Number(text[pos].reads), pos + 1)
      [] OTHER -> Failure

\* parse: one value and nothing after it.
ParseJson(text) ==
    LET v == ParseValue(text, 1) IN IF v.ok /\ v.pos = Len(text) + 1 THEN v ELSE Failure
=============================================================================
