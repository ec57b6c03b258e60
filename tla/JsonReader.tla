----------------------------- MODULE JsonReader -----------------------------
(***************************************************************************)
(* The reader and the writer of documents (src/util/json.cpp).  A text is  *)
(* given token by token, and read by calls of parse_value that nest: the   *)
(* frames are the containers those calls are in the middle of.  What is    *)
(* accepted is then written, containers from a stack of what is left to    *)
(* write.  Space between tokens, lines and columns are left out.           *)
(***************************************************************************)
EXTENDS Integers, Sequences, FiniteSets

CONSTANTS Tokens,      \* what a text may be made of
          Alone,       \* more tokens, tried as a document of one token
          MaxNesting,  \* kMaxDepth
          MaxTokens    \* bound: the length of a text

JsonAssumption == MaxNesting \in Nat /\ MaxTokens \in Nat

VARIABLES text,     \* the tokens read
          frames,   \* the containers being read, outermost first
          reading,  \* "no", "yes", "refused", "cut" (too short), "accepted", "written"
          document, \* the value read, or NoValue
          unwritten,     \* what is left to write: values, members and marks
          written   \* the tokens written

(* A token is a mark, or a literal, a number or a string with its units.   *)
Mark(m) == [kind |-> "mark", units |-> <<m>>]
Scalar(kind, units) == [kind |-> kind, units |-> units]
NoValue == [kind |-> "none"]
-----------------------------------------------------------------------------
(* Numbers: the states of parse_number, and what each takes. The digits of *)
(* a text are 0s and 9s; a digit after a leading 0 is refused.             *)
Digits == {"0", "9"}
NumberStep(s, c) ==
  CASE s = "start" /\ c = "-" -> "sign"
    [] s \in {"start", "sign"} /\ c \in Digits -> IF c = "0" THEN "zero" ELSE "int"
    [] s \in {"int", "fraction", "exponent"} /\ c \in Digits -> s
    [] s \in {"zero", "int"} /\ c = "." -> "point"
    [] s = "point" /\ c \in Digits -> "fraction"
    [] s \in {"zero", "int", "fraction"} /\ c = "e" -> "e"
    [] s = "e" /\ c \in {"+", "-"} -> "esign"
    [] s \in {"e", "esign"} /\ c \in Digits -> "exponent"
    [] OTHER -> "bad"
(* What strtod makes of it is infinite: a number that is not 0, with an    *)
(* exponent of three digits or more, the first of which is a 9.  Fractions *)
(* of 308 digits and wholes of as many are longer than any text here.      *)
Overflows(units) ==
  \E e \in DOMAIN units : \E d \in e + 1 .. Len(units) - 2 :
    /\ units[e] = "e" /\ units[d] = "9" /\ units[e + 1] # "-"
    /\ \E i \in 1 .. e - 1 : units[i] = "9"
GoodNumber_OfAnySize(units) ==
  LET state[i \in 0 .. Len(units)] == IF i = 0 THEN "start" ELSE NumberStep(state[i - 1], units[i])
  IN state[Len(units)] \in {"zero", "int", "fraction", "exponent"}
GoodNumber(units) ==
  LET state[i \in 0 .. Len(units)] == IF i = 0 THEN "start" ELSE NumberStep(state[i - 1], units[i])
  IN state[Len(units)] \in {"zero", "int", "fraction", "exponent"} /\ ~Overflows(units)

(* Strings: a unit is a character as it stands, an escape, or a \u escape, *)
(* of which a high surrogate must be followed by a low one.                *)
Escaped == [n |-> "newline", quote |-> "quote", slash |-> "slash"]  \* after a backslash
HexCode == [u000a |-> "newline", u0001 |-> "control", u00e9 |-> "accent"]
Standing == {"a", "accent", "slash", "astral"}   \* at or above U+0020, neither quote nor backslash
UnitAt(units, i) ==
  LET u == units[i]
  IN CASE u \in Standing -> [points |-> <<u>>, next |-> i + 1]
       [] u \in DOMAIN Escaped -> [points |-> <<Escaped[u]>>, next |-> i + 1]
       [] u \in DOMAIN HexCode -> [points |-> <<HexCode[u]>>, next |-> i + 1]
       [] u = "high" /\ i < Len(units) /\ units[i + 1] = "low" -> [points |-> <<"astral">>, next |-> i + 2]
       [] OTHER -> [points |-> <<>>, next |-> 0]
Decoded(units) ==  \* from each unit to the end: the characters, or that it is bad
  LET from[i \in 1 .. Len(units) + 1] ==
        IF i = Len(units) + 1 THEN [good |-> TRUE, points |-> <<>>]
        ELSE LET u == UnitAt(units, i)
             IN IF u.next = 0 THEN [good |-> FALSE, points |-> <<>>]
                ELSE [good |-> from[u.next].good, points |-> u.points \o from[u.next].points]
  IN from[1]
Spelled_Plainly(points) == points
Spelled(points) ==  \* escape_string
  [i \in DOMAIN points |-> CASE points[i] = "newline" -> "n"
                             [] points[i] = "quote" -> "quote"
                             [] points[i] = "control" -> "u0001"
                             [] OTHER -> points[i]]

Literals == {<<"true">>, <<"false">>, <<"null">>}
Good(t) == CASE t.kind = "number" -> GoodNumber(t.units)
             [] t.kind = "string" -> Decoded(t.units).good
             [] OTHER -> t.kind = "literal" /\ t.units \in Literals
ValueOf(t) == [t EXCEPT !.units = IF t.kind = "string" THEN Decoded(t.units).points ELSE t.units]
(* What is asked of a value: a kind it may not be, a key it may not have.  *)
(* A number is an integer by the way it is spelled, if strtoll makes       *)
(* one of 64 bits of it: its digits are no more than the largest one's.    *)
Thrown == [kind |-> "thrown"]
As(kind, v) == IF v.kind = kind THEN v ELSE Thrown
Int64Max == <<9, 2, 2, 3, 3, 7, 2, 0, 3, 6, 8, 5, 4, 7, 7, 5, 8, 0, 7>>
FitsInt64(units) ==
  LET sign == IF units[1] = "-" THEN 1 ELSE 0
      digit(i) == IF units[sign + i] = "9" THEN 9 ELSE 0
      n == Len(units) - sign
  IN \/ n < Len(Int64Max)
     \/ n = Len(Int64Max) /\ \E i \in 1 .. n : /\ digit(i) < Int64Max[i]
                                              /\ \A j \in 1 .. i - 1 : digit(j) = Int64Max[j]
IsInteger(v) == v.kind = "number" /\ (\A i \in DOMAIN v.units : v.units[i] \notin {".", "e"}) /\ FitsInt64(v.units)
Find(v, key) ==  \* the first member of that name
  IF v.kind # "object" \/ ~ \E i \in DOMAIN v.keys : v.keys[i] = key THEN NoValue
  ELSE v.items[CHOOSE i \in DOMAIN v.keys : v.keys[i] = key /\ \A j \in 1 .. i - 1 : v.keys[j] # key]
At(v, key) == IF v.kind # "object" \/ Find(v, key) = NoValue THEN Thrown ELSE Find(v, key)
AtIndex_FromOne(v, i) == IF v.kind # "array" \/ i > Len(v.items) \/ i < 1 THEN Thrown ELSE v.items[i]
AtIndex(v, i) == IF v.kind # "array" \/ i >= Len(v.items) THEN Thrown ELSE v.items[i + 1]
-----------------------------------------------------------------------------
(* A frame is the container so far, the key last read, and where in it the *)
(* reader stands.                                                          *)
NewFrame(kind) == [kind |-> kind, items |-> <<>>, keys |-> <<>>, at |-> "first"]
Top == frames[Len(frames)]
Container(f) == [kind |-> f.kind, items |-> f.items, keys |-> f.keys]

ValueComes ==  \* a call of parse_value is due
  \/ frames = <<>> /\ document = NoValue
  \/ frames # <<>> /\ \/ Top.kind = "array" /\ Top.at \in {"first", "next"}
                      \/ Top.kind = "object" /\ Top.at = "value"
DeepEnough == Len(frames) <= MaxNesting

(* A value is read: it is the document, or goes into its container; a key  *)
(* the object has already is refused now.                                  *)
Received(fs, v) ==
  IF fs = <<>> THEN frames' = <<>> /\ document' = v /\ UNCHANGED reading
  ELSE LET f == fs[Len(fs)]
           twice == f.kind = "object" /\ \E i \in 1 .. Len(f.keys) - 1 : f.keys[i] = f.keys[Len(f.keys)]
       IN /\ frames' = [fs EXCEPT ![Len(fs)] = [f EXCEPT !.items = Append(f.items, v), !.at = "after"]]
          /\ reading' = IF twice THEN "refused" ELSE reading
          /\ UNCHANGED document

Reads_AnyDepth(t) == ValueComes /\ t.kind # "mark" /\ Good(t)
Opens(t) == ValueComes /\ DeepEnough /\ t \in {Mark("["), Mark("{")}
Reads(t) == ValueComes /\ DeepEnough /\ t.kind # "mark" /\ Good(t)
Closes_AfterComma(t) == frames # <<>> /\ t = Mark(IF Top.kind = "array" THEN "]" ELSE "}")
Closes(t) == frames # <<>> /\ Top.at \in {"first", "after"} /\ t = Mark(IF Top.kind = "array" THEN "]" ELSE "}")
Parts(t) == frames # <<>> /\ Top.at = "after" /\ t = Mark(",")
Names(t) == frames # <<>> /\ Top.kind = "object" /\ Top.at \in {"first", "next"} /\ t.kind = "string" /\ Good(t)
Joins(t) == frames # <<>> /\ Top.at = "colon" /\ t = Mark(":")

Move(f) == frames' = [frames EXCEPT ![Len(frames)] = f] /\ UNCHANGED <<reading, document>>
Open(t) == /\ Opens(t)
           /\ frames' = Append(frames, NewFrame(IF t = Mark("[") THEN "array" ELSE "object"))
           /\ UNCHANGED <<reading, document>>
ReadScalar(t) == Reads(t) /\ Received(frames, ValueOf(t))
Close(t) == Closes(t) /\ Received(SubSeq(frames, 1, Len(frames) - 1), Container(Top))
Comma(t) == Parts(t) /\ Move([Top EXCEPT !.at = "next"])
Key(t) == Names(t) /\ Move([Top EXCEPT !.keys = Append(Top.keys, ValueOf(t).units), !.at = "colon"])
Colon(t) == Joins(t) /\ Move([Top EXCEPT !.at = "value"])
Refuse(t) ==
  /\ ~ (Opens(t) \/ Reads(t) \/ Closes(t) \/ Parts(t) \/ Names(t) \/ Joins(t))
  /\ reading' = "refused" /\ UNCHANGED <<frames, document>>

ReadToken ==
  /\ reading = "yes" /\ Len(text) < MaxTokens
  /\ \E t \in IF text = <<>> THEN Tokens \cup Alone ELSE Tokens :
       /\ text' = Append(text, t)
       /\ Open(t) \/ ReadScalar(t) \/ Close(t) \/ Comma(t) \/ Key(t) \/ Colon(t) \/ Refuse(t)
  /\ UNCHANGED <<unwritten, written>>
(* The text ends, within a document or after it.                           *)
ReadEnd ==
  /\ reading = "yes"
  /\ reading' = IF document = NoValue THEN "cut" ELSE "accepted"
  /\ unwritten' = IF document = NoValue THEN <<>> ELSE <<document>>
  /\ UNCHANGED <<text, frames, document, written>>
-----------------------------------------------------------------------------
(* dump: the foremost thing left to write, a container opened up.          *)
Written(v) == [v EXCEPT !.units = IF v.kind = "string" THEN Spelled(v.units) ELSE v.units]
Contents(v) ==
  LET n == Len(v.items)
      keyed(i) == IF v.kind = "object" THEN <<Scalar("string", v.keys[i]), Mark(":")>> ELSE <<>>
      upto[i \in 0 .. n] ==
        IF i = 0 THEN <<>> ELSE upto[i - 1] \o (IF i > 1 THEN <<Mark(",")>> ELSE <<>>) \o keyed(i) \o <<v.items[i]>>
  IN upto[n]
Write ==
  /\ reading = "accepted" /\ unwritten # <<>>
  /\ LET v == Head(unwritten)
     IN IF v.kind \in {"array", "object"}
        THEN /\ written' = Append(written, Mark(IF v.kind = "array" THEN "[" ELSE "{"))
             /\ unwritten' = Contents(v) \o <<Mark(IF v.kind = "array" THEN "]" ELSE "}")>> \o Tail(unwritten)
        ELSE written' = Append(written, Written(v)) /\ unwritten' = Tail(unwritten)
  /\ UNCHANGED <<text, frames, reading, document>>
WriteEnd ==
  /\ reading = "accepted" /\ unwritten = <<>> /\ reading' = "written"
  /\ UNCHANGED <<text, frames, document, unwritten, written>>

NothingRead == text = <<>> /\ frames = <<>> /\ document = NoValue /\ unwritten = <<>> /\ written = <<>>
JsonInit == NothingRead /\ reading = "yes"
JsonNext == ReadToken \/ ReadEnd \/ Write \/ WriteEnd
-----------------------------------------------------------------------------
(* The grammar, told of a text as it stands: numbers in their four parts   *)
(* and below 10^308, the first power with a 9 that no double has,          *)
(* tokens by how deep they are, the bracket they are in, and how many of   *)
(* its own tokens are before them.                                         *)
AllDigits(u, from, to) == from <= to /\ \A i \in from .. to : u[i] \in Digits
Decimal(u, from, to) ==
  LET value[i \in from - 1 .. to] == IF i < from THEN 0 ELSE 10 * value[i - 1] + (IF u[i] = "9" THEN 9 ELSE 0)
  IN value[to]
IsNumber(u) ==
  LET n == Len(u) IN
  \E sign \in {0, 1} : \E int \in sign + 1 .. n : \E frac \in int .. n :
    LET place(d) == IF d <= int THEN int - d ELSE int + 1 - d
        IsDouble(exponent) == \A d \in sign + 1 .. frac : u[d] = "9" => place(d) + exponent < 308
    IN
    /\ sign = 1 => u[1] = "-"
    /\ AllDigits(u, sign + 1, int) /\ (u[sign + 1] = "0" => int = sign + 1)
    /\ frac > int => u[int + 1] = "." /\ AllDigits(u, int + 2, frac)
    /\ \/ frac = n
       \/ /\ u[frac + 1] = "e"
          /\ \/ AllDigits(u, frac + 2, n) /\ IsDouble(Decimal(u, frac + 2, n))
             \/ frac + 2 <= n /\ u[frac + 2] = "+" /\ AllDigits(u, frac + 3, n) /\ IsDouble(Decimal(u, frac + 3, n))
             \/ frac + 2 <= n /\ u[frac + 2] = "-" /\ AllDigits(u, frac + 3, n)
IsString(u) ==
  \A i \in DOMAIN u :
    \/ u[i] \in Standing \cup DOMAIN Escaped \cup DOMAIN HexCode
    \/ u[i] = "high" /\ i < Len(u) /\ u[i + 1] = "low"
    \/ u[i] = "low" /\ i > 1 /\ u[i - 1] = "high"
IsScalar(t) == CASE t.kind = "number" -> IsNumber(t.units)
                 [] t.kind = "string" -> IsString(t.units)
                 [] OTHER -> t.kind = "literal" /\ t.units \in Literals

Opening == {Mark("["), Mark("{")}
Closing == {Mark("]"), Mark("}")}
Depth(s, i) == Cardinality({l \in 1 .. i - 1 : s[l] \in Opening}) - Cardinality({l \in 1 .. i - 1 : s[l] \in Closing})
Around(s, i) ==  \* the bracket token i is in, 0 at the top
  LET open == {j \in 1 .. i - 1 : s[j] \in Opening /\ Depth(s, j) = Depth(s, i) - 1}
  IN IF open = {} THEN 0 ELSE CHOOSE j \in open : \A l \in open : l <= j
Earlier(s, i) == {l \in Around(s, i) + 1 .. i - 1 : Depth(s, l) = Depth(s, i)}
Turn(s, i) ==
  LET j == Around(s, i)  n == Cardinality(Earlier(s, i))
  IN CASE j = 0 -> IF n = 0 THEN "value" ELSE "none"
       [] j > 0 /\ s[j] = Mark("[") -> <<"value", "comma">>[(n % 2) + 1]
       [] OTHER -> <<"key", "colon", "value", "comma">>[(n % 4) + 1]
InTurn(s, i) ==
  LET t == s[i]  j == Around(s, i)  turn == Turn(s, i)
  IN \/ turn = "value" /\ Depth(s, i) <= MaxNesting /\ (t \in Opening \/ (t.kind # "mark" /\ IsScalar(t)))
     \/ turn = "key" /\ t.kind = "string" /\ IsScalar(t)
     \/ turn = "colon" /\ t = Mark(":")
     \/ turn = "comma" /\ t = Mark(",")
     \/ j > 0 /\ t = Mark(IF s[j] = Mark("[") THEN "]" ELSE "}") /\ (turn = "comma" \/ Earlier(s, i) = {})
NoKeyTwice(s) ==
  LET keys == {i \in DOMAIN s : Turn(s, i) = "key" /\ s[i].kind = "string"}
  IN \A a, b \in keys : a # b /\ Around(s, a) = Around(s, b) => Decoded(s[a].units).points # Decoded(s[b].units).points
WellFormed(s) == (\A i \in DOMAIN s : InTurn(s, i)) /\ NoKeyTwice(s)
Complete(s) == s # <<>> /\ Depth(s, Len(s) + 1) = 0

(* What is found in a document is what was written in it: under every name *)
(* of its object, and at every place of its array, the value that stands   *)
(* there, and nothing under any other; an integer has neither a fraction   *)
(* nor an exponent, and fewer than 19 digits, or 19 below 91 * 10^17.      *)
Stands(v, i) ==
  IF text[i].kind = "mark" THEN v.kind = (IF text[i] = Mark("[") THEN "array" ELSE "object") ELSE v = ValueOf(text[i])
FoundWhereWritten ==
  LET at(turn) == {i \in DOMAIN text : Depth(text, i) = 1 /\ Turn(text, i) = turn /\ text[i] \notin Closing}
      values == {i \in at("value") : text[i] \in Opening \/ text[i].kind # "mark"}
  IN /\ document.kind = "object" =>
          /\ \A i \in at("key") : Stands(At(document, ValueOf(text[i]).units), i + 2)
          /\ Find(document, <<"nobody">>) = NoValue
          /\ AtIndex(document, 0) = Thrown
     /\ document.kind = "array" =>
          /\ \A i \in values : Stands(AtIndex(document, Cardinality({j \in values : j < i})), i)
          /\ AtIndex(document, Cardinality(values)) = Thrown /\ At(document, <<"a">>) = Thrown
     /\ document.kind = "number" =>
          LET u == document.units  first == IF u[1] = "-" THEN 2 ELSE 1  digits == Len(u) + 1 - first
          IN IsInteger(document) <=> AllDigits(u, first, Len(u)) /\ (digits < 19 \/ (digits = 19 /\ u[first + 1] = "0"))
     /\ \A kind \in {"array", "object", "number", "string"} : As(kind, document) # Thrown <=> document.kind = kind

(* What is accepted is a document, what is refused was not the beginning   *)
(* of one, and what is written of a document is what was read of it: the   *)
(* same marks and numbers, and strings that read the same.  Its values    *)
(* are found where they were written.                                      *)
ReadsDocuments ==
  /\ reading = "refused" => ~ WellFormed(text)
  /\ reading = "cut" => ~ Complete(text)
  /\ reading \in {"accepted", "written"} => WellFormed(text) /\ Complete(text)
  /\ reading = "accepted" /\ written = <<>> => FoundWhereWritten
  /\ reading = "written" =>
       /\ Len(written) = Len(text)
       /\ \A i \in DOMAIN text :
            IF text[i].kind # "string" THEN written[i] = text[i]
            ELSE Good(written[i]) /\ ValueOf(written[i]) = ValueOf(text[i])
=============================================================================
