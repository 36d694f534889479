--------------------------- MODULE RequestParser ----------------------------
(***************************************************************************)
(* The parser of request bodies (RestRequest.rl, and RestRequest.cpp that is *)
(* generated from it): an automaton that takes a body in pieces of any       *)
(* length, keeps the fields that it has seen and their values, and is used   *)
(* for one request after another.                                           *)
(*                                                                          *)
(* The text is a sequence of tokens.  A key with its colon, null and the     *)
(* names of sides and roles are one token each; numbers and strings are      *)
(* taken a character at a time, because that is where the actions are.       *)
(***************************************************************************)
EXTENDS Integers, Sequences, SequencesExt

CONSTANTS
  Fields,      \* the fields of requests
  Kind,        \* Kind[f]: "str", "long", "int", "state" or "name"
  Names,       \* what a field of kind "name" may say
  Digits,      \* digits that clients use
  MaxStr,      \* length that a string may have
  Long, Int32, \* bits of the types of numbers
  Spaces,      \* the tokens of space that clients use, at most one
  MaxTokens    \* bound on the length of a body

ASSUME ParserAssumption ==
  /\ Kind \in [Fields -> {"str", "long", "int", "state", "name"}]
  /\ Digits \subseteq 0..9
  /\ {MaxStr, Long, Int32, MaxTokens} \subseteq Nat \ {0}
  /\ Spaces \subseteq {<<"space">>}

\* What is used of powers of two, and that an int has no more bits than a long.
ASSUME PowersAssumption ==
  /\ \A bits \in {Long, Int32} :
       2^(bits - 1) \in Nat \ {0} /\ 2^bits = 2 * 2^(bits - 1)
  /\ 2^Long % 2^Int32 = 0

VARIABLES
  cs,      \* the state of the automaton: what is expected next
  scratch, \* the union of num_ and str_; a name is kept by the state itself
  fields,  \* fields_
  val,     \* the values
  text     \* history: the tokens fed since the reset

vars == <<cs, scratch, fields, val, text>>

----------------------------------------------------------------------------
(* Tokens and values.                                                      *)

Key(f) == <<"key", f>>
Digit(d) == <<"digit", d>>
Name(n) == <<"name", n>>
Keys == {Key(f) : f \in Fields}
DigitTokens == {Digit(d) : d \in Digits}
NameTokens == {Name(n) : n \in Names}
Quote == <<"quote">>
Escape == <<"escape">>
Char == <<"char">>
Null == <<"null">>
Minus == <<"minus">>
Plus == <<"plus">>
LBrace == <<"lbrace">>
RBrace == <<"rbrace">>
Comma == <<"comma">>

InString(s) == s[1] \in {"char", "escape"}

\* Inside a string one character stands for all that are not special there.
StringTokens == {Quote, Escape, Char} \cup Spaces

TokensAt(s) ==
  IF InString(s) THEN StringTokens
  ELSE Keys \cup DigitTokens \cup NameTokens \cup StringTokens
         \cup {Null, Minus, Plus, LBrace, RBrace, Comma}

IsNum(f) == Kind[f] \in {"long", "int", "state"}

Zero(f) == CASE Kind[f] = "str" -> <<>> [] IsNum(f) -> 0 [] OTHER -> "None"

\* Conversion to a signed or an unsigned type of this many bits.
Signed(n, bits) == ((n + 2^(bits - 1)) % 2^bits) - 2^(bits - 1)
Unsigned(n, bits) == n % 2^bits

\* A plausible slip: the number keeps what fits into the type of dates.
MutStored(f, n) ==
  IF Kind[f] = "state" THEN Unsigned(n, Int32) ELSE Signed(n, Int32)

\* num() is a long; dates are stored as an int and the state as an unsigned.
Stored(f, n) ==
  CASE Kind[f] = "long" -> Signed(n, Long)
    [] Kind[f] = "int" -> Signed(Signed(n, Long), Int32)
    [] Kind[f] = "state" -> Unsigned(Signed(n, Long), Int32)

----------------------------------------------------------------------------
(* The automaton.  A state is a name and, inside a pair, its field; "error"  *)
(* is left by a reset only.                                                 *)

At(name) == <<name>>
In(name, f) == <<name, f>>
Error == At("error")
Final == At("end")

States == {At(n) : n \in {"start", "first", "next", "after", "end", "error"}} \cup
          {In(n, f) : n \in {"value", "char", "escape", "reqDigit", "optDigit",
                             "string", "null"}, f \in Fields} \cup
          {<<"named", f, n>> : f \in Fields, n \in Names}

Enders == {Comma, RBrace} \cup Spaces

\* What the value of a field may begin with, other than null.
Begins(f) ==
  CASE IsNum(f) -> DigitTokens \cup {Minus, Plus}
    [] Kind[f] = "str" -> {Quote}
    [] Kind[f] = "name" -> NameTokens

\* What may come next in a state: the transitions of the automaton.
Expected(s) ==
  CASE s[1] = "start" -> {LBrace} \cup Spaces
    [] s[1] = "first" -> Keys \cup {RBrace} \cup Spaces
    [] s[1] = "next" -> Keys \cup Spaces
    [] s[1] = "after" -> Enders
    [] s[1] = "end" -> Spaces
    [] s[1] = "error" -> {}
    [] s[1] = "value" -> {Null} \cup Spaces \cup
         Begins(s[2])
    [] InString(s) -> StringTokens
    [] s[1] = "reqDigit" -> DigitTokens
    [] s[1] = "optDigit" -> DigitTokens \cup Enders
    [] s[1] \in {"string", "null", "named"} -> Enders

Init ==
  /\ cs = At("start")
  /\ scratch = [kind |-> "stale"]
  /\ fields = {}
  /\ val = [f \in Fields |-> Zero(f)]
  /\ text = <<>>

\* Only the state changes.
Goto(s) == cs' = s /\ UNCHANGED <<scratch, fields, val>>

\* Outside of values.
Structure(t) ==
  \/ t = LBrace /\ Goto(At("first"))
  \/ t \in Keys /\ Goto(In("value", t[2]))
  \/ t = RBrace /\ Goto(Final)
  \/ t = Comma /\ Goto(At("next"))
  \/ t \in Spaces /\ Goto(cs)

\* The first token of a value: beginNum, or the beginX of the field and then
\* beginStr, which empties the string at once.
BeginValue(f, t) ==
  \/ t \in Spaces /\ Goto(cs)
  \/ t = Null /\ Goto(In("null", f))
  \/ t \in NameTokens /\ Goto(<<"named", f, t[2]>>)
  \/ /\ t = Quote
     /\ cs' = In("char", f)
     /\ scratch' = [kind |-> "str", of |-> f]
     /\ val' = [val EXCEPT ![f] = <<>>]
     /\ UNCHANGED fields
  \/ /\ t \in {Minus, Plus}
     /\ cs' = In("reqDigit", f)
     /\ scratch' = [kind |-> "num", sign |-> IF t = Minus THEN -1 ELSE 1, digits |-> 0]
     /\ UNCHANGED <<fields, val>>
  \/ /\ t \in DigitTokens
     /\ cs' = In("optDigit", f)
     /\ scratch' = [kind |-> "num", sign |-> 1, digits |-> t[2]]
     /\ UNCHANGED <<fields, val>>

\* addDigit.  The digits are a size_t.
AddDigit(f, t) ==
  /\ cs' = In("optDigit", f)
  /\ scratch' = [scratch EXCEPT !.digits = Unsigned(10 * @ + t[2], Long)]
  /\ UNCHANGED <<fields, val>>

\* A plausible slip: the last character overruns the string by one.
MutAddChar(t) ==
  LET f == scratch.of IN
  \/ /\ Len(val[f]) <= MaxStr
     /\ cs' = In("char", f)
     /\ val' = [val EXCEPT ![f] = Append(@, t)]
     /\ UNCHANGED <<scratch, fields>>
  \/ Len(val[f]) > MaxStr /\ Goto(Error)

\* addChar, to the string that scratch points to.
AddChar(t) ==
  LET f == scratch.of IN
  \/ /\ Len(val[f]) < MaxStr
     /\ cs' = In("char", f)
     /\ val' = [val EXCEPT ![f] = Append(@, t)]
     /\ UNCHANGED <<scratch, fields>>
  \/ Len(val[f]) >= MaxStr /\ Goto(Error)

\* A plausible slip: a quote ends the string also behind an escape.
MutCharacters(f, t) ==
  IF t = Quote THEN Goto(In("string", f))
  ELSE IF cs[1] # "escape" /\ t = Escape THEN Goto(In("escape", f))
  ELSE AddChar(t)

\* The character after an escape is taken as it is.
Characters(f, t) ==
  IF cs[1] = "escape" THEN AddChar(t)
  ELSE CASE t = Quote -> Goto(In("string", f))
         [] t = Escape -> Goto(In("escape", f))
         [] OTHER -> AddChar(t)

\* The state after a value, by the token that follows it.
Leave(t) ==
  CASE t = Comma -> At("next") [] t = RBrace -> Final [] t \in Spaces -> At("after")

Keep(f, v, t) ==
  /\ cs' = Leave(t)
  /\ fields' = fields \cup {f}
  /\ val' = [val EXCEPT ![f] = v]
  /\ UNCHANGED scratch

\* nullX.
Drop(f, t) ==
  /\ cs' = Leave(t)
  /\ fields' = fields \ {f}
  /\ val' = [val EXCEPT ![f] = Zero(f)]
  /\ UNCHANGED scratch

\* nullX, endX and the names take effect at the token after the value.  A
\* negative state is an error.
EndValue(f, t) ==
  \/ cs[1] = "null" /\ Drop(f, t)
  \/ cs[1] = "string" /\ Keep(f, val[f], t)
  \/ cs[1] = "named" /\ Keep(f, cs[3], t)
  \/ /\ cs[1] = "optDigit"
     /\ IF Kind[f] = "state" /\ scratch.sign < 0 THEN Goto(Error)
        ELSE Keep(f, Stored(f, scratch.sign * scratch.digits), t)

\* One token of a buffer that is parsed.  Any number of them may come with one
\* call, which returns what Result says.  After an error nothing is looked at.
Consume(t) ==
  /\ Len(text) < MaxTokens
  /\ cs # Error
  /\ text' = Append(text, t)
  /\ IF t \notin Expected(cs) THEN Goto(Error)
     ELSE IF Len(cs) = 1 THEN Structure(t)
     ELSE LET f == cs[2] IN
          CASE cs[1] = "value" -> BeginValue(f, t)
            [] InString(cs) -> Characters(f, t)
            [] cs[1] \in {"reqDigit", "optDigit"} /\ t \in DigitTokens -> AddDigit(f, t)
            [] OTHER -> EndValue(f, t)

\* parse: an exception, false for a body that is incomplete, or true.
Result == CASE cs = Error -> "BadRequest" [] cs = Final -> "complete" [] OTHER -> "incomplete"

\* reset, before each request and whatever the state of the last one.  What it
\* leaves in the union is marked, so that nothing can read it unnoticed.
Reset ==
  /\ cs' = At("start")
  /\ fields' = {}
  /\ val' = [f \in Fields |-> Zero(f)]
  /\ scratch' = [kind |-> "stale"]
  /\ text' = <<>>

Next == Reset \/ \E t \in TokensAt(cs) : Consume(t)

Spec == Init /\ [][Next]_vars

----------------------------------------------------------------------------
(* Bodies as they are meant: a list of pairs, and what it says.            *)

NumberTexts ==
  {sign \o ds : sign \in {<<>>, <<Minus>>, <<Plus>>},
                ds \in UNION {[1..n -> DigitTokens] : n \in 1..MaxTokens - 3}}
CharTexts == {<<t>> : t \in {Char} \cup Spaces} \cup {<<Escape, t>> : t \in StringTokens}
StringTexts ==
  {<<Quote>> \o FlattenSeq(chars) \o <<Quote>> :
     chars \in UNION {[1..n -> CharTexts] : n \in 0..MaxStr}}

\* The texts that a field may have; a negative state, minus zero included, is
\* none.
TextsOf(f) ==
  {<<Null>>} \cup
  CASE Kind[f] = "str" -> StringTexts
    [] Kind[f] = "state" -> {ts \in NumberTexts : ts[1] # Minus}
    [] Kind[f] \in {"long", "int"} -> NumberTexts
    [] Kind[f] = "name" -> {<<n>> : n \in NameTokens}

\* The number that a text writes, in full.
Written(ts) ==
  (IF ts[1] = Minus THEN -1 ELSE 1) *
    FoldLeft(LAMBDA n, t : IF t \in DigitTokens THEN 10 * n + t[2] ELSE n, 0, ts)

\* The characters that a text stands for: an escape stands for what follows it.
Unescaped(ts) ==
  LET step(r, t) ==
        IF ~r.esc /\ t = Escape THEN [r EXCEPT !.esc = TRUE]
        ELSE [out |-> Append(r.out, t), esc |-> FALSE]
  IN FoldLeft(step, [out |-> <<>>, esc |-> FALSE], SubSeq(ts, 2, Len(ts) - 1)).out

\* A number stands for itself, or for the one of the field's type that it is
\* congruent to when it is too large.
Bits(f) == IF Kind[f] = "long" THEN Long ELSE Int32
TypeOf(f) ==
  IF Kind[f] = "state" THEN 0..2^Bits(f) - 1
  ELSE -(2^(Bits(f) - 1))..2^(Bits(f) - 1) - 1

Meaning(f, ts) ==
  IF ts = <<Null>> THEN Zero(f)
  ELSE CASE Kind[f] = "str" -> Unescaped(ts)
         [] IsNum(f) -> CHOOSE n \in TypeOf(f) : (n - Written(ts)) % 2^Bits(f) = 0
         [] Kind[f] = "name" -> ts[1][2]

Pairs == UNION {{<<f, ts>> : ts \in TextsOf(f)} : f \in Fields}
PairText(p) == <<Key(p[1])>> \o p[2]
PairsOfLength(n) == {p \in Pairs : Len(PairText(p)) = n}

\* These lists, each with one pair more.
Longer(ls, n) == {Append(l, p) : l \in ls, p \in PairsOfLength(n)}

\* The lists of pairs whose text, commas included, has k tokens.
ListsOf[k \in 0..MaxTokens] ==
  {<<p>> : p \in PairsOfLength(k)} \cup
  UNION {Longer(ListsOf[k - 1 - n], n) : n \in 2..k - 1}

Lists == {<<>>} \cup UNION {ListsOf[k] : k \in 0..MaxTokens - 2}

BodyText(l) ==
  <<LBrace>> \o FlattenSeq([k \in 1..Len(l) |->
    (IF k = 1 THEN <<>> ELSE <<Comma>>) \o PairText(l[k])]) \o <<RBrace>>

\* Of several pairs with one key the last counts, and null takes the field away.
LastPair(l, f) == {k \in 1..Len(l) : l[k][1] = f /\ \A n \in k + 1..Len(l) : l[n][1] # f}
BodyFields(l) == {f \in Fields : \E k \in LastPair(l, f) : l[k][2] # <<Null>>}
BodyValues(l) ==
  [f \in Fields |-> IF LastPair(l, f) = {} THEN Zero(f)
                    ELSE Meaning(f, l[CHOOSE k \in LastPair(l, f) : TRUE][2])]

Bodies == {<<BodyText(l), BodyFields(l), BodyValues(l)>> : l \in Lists}
BodyTexts == {BodyText(l) : l \in Lists}
BodyPrefixes == UNION {{SubSeq(b, 1, k) : k \in 0..Len(b)} : b \in BodyTexts}

\* A text without the spaces outside of strings.
Stripped(ts) ==
  LET step(r, t) ==
        IF r.esc THEN [r EXCEPT !.out = Append(@, t), !.esc = FALSE]
        ELSE IF r.str THEN [out |-> Append(r.out, t), esc |-> t = Escape, str |-> t # Quote]
        ELSE [out |-> IF t \in Spaces THEN r.out ELSE Append(r.out, t),
              esc |-> FALSE, str |-> t = Quote]
  IN FoldLeft(step, [out |-> <<>>, esc |-> FALSE, str |-> FALSE], ts).out

\* No number has spaces in it.
NumbersWhole(ts) ==
  /\ \A i \in 1..Len(ts) - 1 : ts[i] \in {Minus, Plus} => ts[i + 1] \notin Spaces
  /\ \A i, k \in 1..Len(ts) :
       k > i + 1 /\ ts[i] \in DigitTokens /\ ts[k] \in DigitTokens
         => \E x \in i + 1..k - 1 : ts[x] \notin Spaces

(* Properties.                                                             *)

\* A body that parse reports as complete is a list of pairs, and fields and
\* values are what that list says, whatever was parsed before the reset.
CompleteIsUnderstood ==
  Result = "complete" => <<Stripped(text), fields, val>> \in Bodies

\* Every list of pairs is accepted, in any order, with spaces between tokens,
\* and in pieces: what a body begins with is incomplete and never an error.
PairsAreAccepted ==
  Stripped(text) \in BodyPrefixes /\ NumbersWhole(text) =>
    Result = IF Stripped(text) \in BodyTexts THEN "complete" ELSE "incomplete"

\* Strings stay within their buffers, and the other values within their types.
Fits(f, v) ==
  /\ Kind[f] = "str" => v \in Seq(StringTokens) /\ Len(v) <= MaxStr
  /\ IsNum(f) => v \in TypeOf(f)
  /\ Kind[f] = "name" => v \in Names \cup {"None"}

TypeOK ==
  /\ cs \in States
  /\ scratch.kind \in {"num", "str", "stale"}
  /\ fields \subseteq Fields
  /\ DOMAIN val = Fields
  /\ \A f \in Fields : Fits(f, val[f])

=============================================================================
