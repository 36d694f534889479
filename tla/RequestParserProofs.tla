------------------------ MODULE RequestParserProofs -------------------------
(***************************************************************************)
(* Proofs about the parser of request bodies, for every list of fields, all  *)
(* widths of numbers and every length of a body.                            *)
(*                                                                          *)
(* ParserInv: the parser never writes past a string and never leaves a       *)
(* number outside of its type.  The union of num_ and str_ is what makes it  *)
(* hard: a character is added to the string that scratch points to, so the   *)
(* proof has to know that a state inside a string or a number finds there    *)
(* what it has put there itself.                                            *)
(*                                                                          *)
(* ReadInv: what has been fed, without its spaces, is a list of pairs and the *)
(* text of a value that is not complete, and the fields, the values and      *)
(* scratch are what these say.  A body that is complete is therefore a list  *)
(* of pairs, and is kept as what it says.                                    *)
(*                                                                          *)
(* AcceptInv: whatever completes what has been fed to a body can be read from *)
(* the state that the automaton is in.  No such text ends in an error.       *)
(***************************************************************************)
EXTENDS RequestParser, FoldProofs

\* Inside a string or a number scratch is of that string or number, and a name is
\* read for a field that has names.
ScratchOK ==
  /\ InString(cs) => /\ Kind[cs[2]] = "str"
                     /\ scratch = [kind |-> "str", of |-> cs[2]]
  /\ cs[1] \in {"reqDigit", "optDigit"} =>
       /\ IsNum(cs[2])
       /\ scratch \in [kind : {"num"}, sign : {-1, 1}, digits : Nat]
  /\ cs[1] = "named" => Kind[cs[2]] = "name"

\* The values are a function, which EXCEPT needs to change one of them.
ValuesOK == val = [f \in Fields |-> val[f]]

ParserInv == TypeOK /\ ScratchOK /\ ValuesOK

----------------------------------------------------------------------------
(* Numbers.                                                                *)

LEMMA ConstantTypes ==
  MaxStr \in Nat \ {0} /\ Digits \subseteq 0..9 /\ Spaces \subseteq {<<"space">>}
BY ParserAssumption

LEMMA PowerTypes ==
  ASSUME NEW bits \in {Long, Int32}
  PROVE  /\ 2^(bits - 1) \in Nat \ {0} /\ 2^bits \in Nat \ {0}
         /\ 2^bits = 2 * 2^(bits - 1)
<1>1. 2^(bits - 1) \in Nat \ {0} /\ 2^bits = 2 * 2^(bits - 1)
  BY PowersAssumption
<1>2. ASSUME NEW h \in Nat \ {0} PROVE 2 * h \in Nat \ {0}
  OBVIOUS
<1> QED BY <1>1, <1>2

\* What an unsigned type holds.
LEMMA UnsignedRange ==
  ASSUME NEW n \in Int, NEW bits \in {Long, Int32}
  PROVE  Unsigned(n, bits) \in 0..2^bits - 1
<1>1. ASSUME NEW p \in Nat \ {0} PROVE n % p \in 0..p - 1
  OBVIOUS
<1> QED BY <1>1, PowerTypes DEF Unsigned

\* What a signed type holds.
LEMMA SignedRange ==
  ASSUME NEW n \in Int, NEW bits \in {Long, Int32}
  PROVE  Signed(n, bits) \in -(2^(bits - 1))..2^(bits - 1) - 1
<1>1. ASSUME NEW h \in Nat \ {0}
      PROVE  ((n + h) % (2 * h)) - h \in -h..h - 1
  <2>1. (n + h) % (2 * h) \in 0..2 * h - 1
    <3>1. n + h \in Int /\ 2 * h \in Nat \ {0}
      OBVIOUS
    <3>2. ASSUME NEW m \in Int, NEW p \in Nat \ {0} PROVE m % p \in 0..p - 1
      OBVIOUS
    <3> QED BY <3>1, <3>2
  <2> QED BY <2>1
<1> QED BY <1>1, PowerTypes DEF Signed

\* What is kept of a number is of the field's type.
LEMMA StoredFits ==
  ASSUME NEW f \in Fields, IsNum(f), NEW n \in Int
  PROVE  Fits(f, Stored(f, n))
<1>1. /\ Signed(n, Long) \in -(2^(Long - 1))..2^(Long - 1) - 1
      /\ Signed(n, Long) \in Int
  BY SignedRange, PowerTypes
<1>2. Signed(Signed(n, Long), Int32) \in -(2^(Int32 - 1))..2^(Int32 - 1) - 1
  BY <1>1, SignedRange
<1>3. Unsigned(Signed(n, Long), Int32) \in 0..2^Int32 - 1
  BY <1>1, UnsignedRange
<1>4. CASE Kind[f] = "long"
  BY <1>1, <1>4 DEF Fits, Stored, TypeOf, Bits, IsNum
<1>5. CASE Kind[f] = "int"
  BY <1>2, <1>5 DEF Fits, Stored, TypeOf, Bits, IsNum
<1>6. CASE Kind[f] = "state"
  BY <1>3, <1>6 DEF Fits, Stored, TypeOf, Bits, IsNum
<1> QED BY <1>4, <1>5, <1>6 DEF IsNum

\* What a reset leaves in a field fits.
LEMMA ZeroFits ==
  ASSUME NEW f \in Fields
  PROVE  Fits(f, Zero(f))
<1>1. CASE Kind[f] = "str"
  <2>1. <<>> \in Seq(StringTokens) /\ Len(<<>>) = 0
    OBVIOUS
  <2>2. 0 <= MaxStr
    BY ConstantTypes
  <2> QED BY <1>1, <2>1, <2>2 DEF Fits, Zero, IsNum
<1>2. CASE IsNum(f)
  <2>1. 0 \in -(2^(Long - 1))..2^(Long - 1) - 1
    BY PowerTypes
  <2>2. 0 \in -(2^(Int32 - 1))..2^(Int32 - 1) - 1
    BY PowerTypes
  <2>3. 0 \in 0..2^Int32 - 1
    BY PowerTypes
  <2>4. 0 \in TypeOf(f)
    BY <1>2, <2>1, <2>2, <2>3 DEF TypeOf, Bits, IsNum
  <2> QED BY <1>2, <2>4 DEF Fits, Zero, IsNum
<1>3. CASE Kind[f] = "name"
  BY <1>3 DEF Fits, Zero, IsNum
<1> QED BY <1>1, <1>2, <1>3, ParserAssumption DEF IsNum

----------------------------------------------------------------------------
(* States and tokens.                                                      *)

\* A state is a name, or belongs to a pair and knows its field.
LEMMA StateForms ==
  ASSUME cs \in States
  PROVE  \/ Len(cs) = 1 /\ cs[1] \in {"start", "first", "next", "after", "end", "error"}
         \/ /\ Len(cs) = 2 /\ cs[2] \in Fields
            /\ cs[1] \in {"value", "char", "escape", "reqDigit", "optDigit", "string",
                           "null"}
         \/ Len(cs) = 3 /\ cs[1] = "named" /\ cs[2] \in Fields /\ cs[3] \in Names
BY DEF States, At, In

\* Where a step may go.
LEMMA StateTypes ==
  /\ \A n \in {"start", "first", "next", "after", "end", "error"} :
       <<n>> \in States /\ <<n>>[1] = n
  /\ \A n \in {"value", "char", "escape", "reqDigit", "optDigit", "string", "null"},
        f \in Fields : <<n, f>> \in States /\ <<n, f>>[1] = n /\ <<n, f>>[2] = f
  /\ \A f \in Fields, n \in Names :
       /\ <<"named", f, n>> \in States /\ <<"named", f, n>>[1] = "named"
       /\ <<"named", f, n>>[2] = f
BY DEF States, At, In

\* Tokens are told apart by their first part.
LEMMA TokenForms ==
  /\ \A t \in Keys : t[1] = "key" /\ t[2] \in Fields
  /\ \A t \in DigitTokens : t[1] = "digit" /\ t[2] \in 0..9
  /\ \A t \in NameTokens : t[1] = "name" /\ t[2] \in Names
  /\ \A t \in Spaces : t[1] = "space"
  /\ Quote[1] = "quote" /\ Escape[1] = "escape" /\ Char[1] = "char" /\ Null[1] = "null"
  /\ Minus[1] = "minus" /\ Plus[1] = "plus"
  /\ LBrace[1] = "lbrace" /\ RBrace[1] = "rbrace" /\ Comma[1] = "comma"
<1>1. \A t \in Keys : t[1] = "key" /\ t[2] \in Fields
  BY DEF Keys, Key
<1>2. \A t \in DigitTokens : t[1] = "digit" /\ t[2] \in 0..9
  BY ConstantTypes DEF DigitTokens, Digit
<1>3. \A t \in NameTokens : t[1] = "name" /\ t[2] \in Names
  BY DEF NameTokens, Name
<1>4. \A t \in Spaces : t[1] = "space"
  BY ConstantTypes
<1>5. /\ Quote[1] = "quote" /\ Escape[1] = "escape" /\ Char[1] = "char" /\ Null[1] = "null"
      /\ Minus[1] = "minus" /\ Plus[1] = "plus"
      /\ LBrace[1] = "lbrace" /\ RBrace[1] = "rbrace" /\ Comma[1] = "comma"
  BY DEF Quote, Escape, Char, Null, Minus, Plus, LBrace, RBrace, Comma
<1> QED BY <1>1, <1>2, <1>3, <1>4, <1>5

----------------------------------------------------------------------------
(* What the steps have in common.                                          *)

\* Going to a state that looks at neither scratch nor a name.
LEMMA GotoKeeps ==
  ASSUME ParserInv, NEW s \in States, Goto(s),
         s = cs \/ s[1] \notin {"char", "escape", "reqDigit", "optDigit", "named"}
  PROVE  ParserInv'
BY DEF ParserInv, TypeOK, ScratchOK, ValuesOK, Goto, InString

\* A value that fits is stored and the automaton leaves the pair.
LEMMA StoreKeeps ==
  ASSUME ParserInv, NEW f \in Fields, NEW v, Fits(f, v),
         cs' \in {At("next"), At("after"), Final},
         scratch' = scratch, fields' \subseteq Fields,
         val' = [val EXCEPT ![f] = v]
  PROVE  ParserInv'
<1>1. cs' \in States /\ cs'[1] \in {"next", "after", "end"}
  BY StateTypes DEF At, Final
<1>2. val' = [g \in Fields |-> IF g = f THEN v ELSE val[g]]
  BY DEF ParserInv, ValuesOK
<1>3. \A g \in Fields : Fits(g, val'[g])
  BY <1>2 DEF ParserInv, TypeOK
<1>4. TypeOK'
  BY <1>1, <1>2, <1>3 DEF ParserInv, TypeOK, Fits
<1>5. ScratchOK' /\ ValuesOK'
  BY <1>1, <1>2 DEF ScratchOK, ValuesOK, InString
<1> QED BY <1>4, <1>5 DEF ParserInv

----------------------------------------------------------------------------
(* The steps.                                                              *)

\* The value of a name or of a string begins, or the sign or digit of a number.
LEMMA BeginKeeps ==
  ASSUME ParserInv, cs[1] = "value", NEW t \in Expected(cs), BeginValue(cs[2], t)
  PROVE  ParserInv'
<1> DEFINE f == cs[2]
<1>0. f \in Fields /\ cs \in States
  BY StateForms DEF ParserInv, TypeOK
<1>1. t \in {Null} \cup Spaces \cup Begins(f)
  BY DEF Expected, Begins, InString
<1>2. /\ t \in NameTokens => Kind[f] = "name"
      /\ t = Quote => Kind[f] = "str"
      /\ t \in {Minus, Plus} \cup DigitTokens => IsNum(f)
  <2>1. CASE IsNum(f)
    BY <1>1, <2>1, TokenForms DEF IsNum, Begins
  <2>2. CASE Kind[f] = "str"
    BY <1>1, <2>2, TokenForms DEF IsNum, Begins
  <2>3. CASE Kind[f] = "name"
    BY <1>1, <2>3, TokenForms DEF IsNum, Begins
  <2> QED BY <1>0, <2>1, <2>2, <2>3, ParserAssumption DEF IsNum
<1>3. CASE t \in Spaces /\ Goto(cs)
  BY <1>0, <1>3, GotoKeeps
<1>4. CASE t = Null /\ Goto(In("null", f))
  BY <1>0, <1>4, GotoKeeps, StateTypes DEF In
<1>5. CASE t \in NameTokens /\ Goto(<<"named", f, t[2]>>)
  <2>1. t[2] \in Names
    BY <1>5, TokenForms
  <2>2. cs' \in States /\ cs'[1] = "named" /\ cs'[2] = f
    BY <1>0, <1>5, <2>1, StateTypes DEF Goto
  <2> QED BY <1>2, <1>5, <2>2 DEF ParserInv, TypeOK, ScratchOK, ValuesOK, Goto, InString
<1>6. CASE /\ t = Quote
           /\ cs' = In("char", f)
           /\ scratch' = [kind |-> "str", of |-> f]
           /\ val' = [val EXCEPT ![f] = <<>>]
           /\ UNCHANGED fields
  <2>1. cs' \in States /\ cs'[1] = "char" /\ cs'[2] = f
    BY <1>0, <1>6, StateTypes DEF In
  <2>2. val' = [g \in Fields |-> IF g = f THEN <<>> ELSE val[g]]
    BY <1>6 DEF ParserInv, ValuesOK
  <2>3. Fits(f, <<>>)
    BY <1>0, <1>2, <1>6, ZeroFits DEF Zero, IsNum
  <2>4. \A g \in Fields : Fits(g, val'[g])
    BY <2>2, <2>3 DEF ParserInv, TypeOK
  <2>5. TypeOK'
    BY <1>6, <2>1, <2>2, <2>4 DEF ParserInv, TypeOK, Fits
  <2>6. ScratchOK'
    BY <1>2, <1>6, <2>1 DEF ScratchOK, InString
  <2> QED BY <2>2, <2>5, <2>6 DEF ParserInv, ValuesOK
<1>7. CASE /\ t \in {Minus, Plus}
           /\ cs' = In("reqDigit", f)
           /\ scratch' = [kind |-> "num", sign |-> IF t = Minus THEN -1 ELSE 1, digits |-> 0]
           /\ UNCHANGED <<fields, val>>
  <2>1. cs' \in States /\ cs'[1] = "reqDigit" /\ cs'[2] = f
    BY <1>0, <1>7, StateTypes DEF In
  <2> QED BY <1>2, <1>7, <2>1 DEF ParserInv, TypeOK, ScratchOK, ValuesOK, InString
<1>8. CASE /\ t \in DigitTokens
           /\ cs' = In("optDigit", f)
           /\ scratch' = [kind |-> "num", sign |-> 1, digits |-> t[2]]
           /\ UNCHANGED <<fields, val>>
  <2>1. cs' \in States /\ cs'[1] = "optDigit" /\ cs'[2] = f
    BY <1>0, <1>8, StateTypes DEF In
  <2>2. t[2] \in Nat
    BY <1>8, TokenForms
  <2> QED BY <1>2, <1>8, <2>1, <2>2 DEF ParserInv, TypeOK, ScratchOK, ValuesOK, InString
<1> QED BY <1>3, <1>4, <1>5, <1>6, <1>7, <1>8 DEF BeginValue

\* A character goes to the string of this very field, and only while it fits.
LEMMA AddCharKeeps ==
  ASSUME ParserInv, InString(cs), NEW t \in StringTokens, AddChar(t)
  PROVE  ParserInv'
<1> DEFINE f == cs[2]
<1>0. f \in Fields /\ Kind[f] = "str" /\ scratch = [kind |-> "str", of |-> f]
  BY StateForms DEF ParserInv, TypeOK, ScratchOK, InString
<1>1. scratch.of = f
  BY <1>0
<1>2. CASE /\ Len(val[f]) < MaxStr
           /\ cs' = In("char", f)
           /\ val' = [val EXCEPT ![f] = Append(@, t)]
           /\ UNCHANGED <<scratch, fields>>
  <2>1. cs' \in States /\ cs'[1] = "char" /\ cs'[2] = f
    BY <1>0, <1>2, StateTypes DEF In
  <2>2. val' = [g \in Fields |-> IF g = f THEN Append(val[f], t) ELSE val[g]]
    BY <1>2 DEF ParserInv, ValuesOK
  <2>3. val[f] \in Seq(StringTokens) /\ Len(val[f]) < MaxStr
    BY <1>0, <1>2 DEF ParserInv, TypeOK, Fits
  <2>4. /\ Append(val[f], t) \in Seq(StringTokens)
        /\ Len(Append(val[f], t)) <= MaxStr
    BY <2>3, ConstantTypes
  <2>5. Fits(f, Append(val[f], t))
    BY <1>0, <2>4 DEF Fits, IsNum
  <2>6. \A g \in Fields : Fits(g, val'[g])
    BY <2>2, <2>5 DEF ParserInv, TypeOK
  <2>7. TypeOK'
    BY <1>2, <2>1, <2>2, <2>6 DEF ParserInv, TypeOK, Fits
  <2>8. ScratchOK'
    BY <1>0, <1>2, <2>1 DEF ScratchOK, InString
  <2> QED BY <2>2, <2>7, <2>8 DEF ParserInv, ValuesOK
<1>3. CASE Len(val[f]) >= MaxStr /\ Goto(Error)
  BY <1>3, GotoKeeps, StateTypes DEF Error, At
<1> QED BY <1>1, <1>2, <1>3 DEF AddChar

LEMMA CharactersKeeps ==
  ASSUME ParserInv, InString(cs), NEW t \in Expected(cs), Characters(cs[2], t)
  PROVE  ParserInv'
<1> DEFINE f == cs[2]
<1>0. f \in Fields /\ Kind[f] = "str" /\ scratch = [kind |-> "str", of |-> f]
  BY StateForms DEF ParserInv, TypeOK, ScratchOK, InString
<1>1. t \in StringTokens
  BY DEF Expected, InString
<1>2. CASE AddChar(t)
  BY <1>1, <1>2, AddCharKeeps
<1>3. CASE Goto(In("string", f))
  BY <1>0, <1>3, GotoKeeps, StateTypes DEF In
<1>4. CASE Goto(In("escape", f))
  <2>1. cs' \in States /\ cs'[1] = "escape" /\ cs'[2] = f
    BY <1>0, <1>4, StateTypes DEF In, Goto
  <2> QED BY <1>0, <1>4, <2>1 DEF ParserInv, TypeOK, ScratchOK, ValuesOK, Goto, InString
<1> QED BY <1>2, <1>3, <1>4 DEF Characters

LEMMA AddDigitKeeps ==
  ASSUME ParserInv, cs[1] \in {"reqDigit", "optDigit"}, NEW t \in DigitTokens,
         AddDigit(cs[2], t)
  PROVE  ParserInv'
<1> DEFINE f == cs[2]
<1>0. /\ f \in Fields /\ IsNum(f)
      /\ scratch \in [kind : {"num"}, sign : {-1, 1}, digits : Nat]
  BY StateForms DEF ParserInv, TypeOK, ScratchOK
<1>1. cs' \in States /\ cs'[1] = "optDigit" /\ cs'[2] = f
  BY <1>0, StateTypes DEF In, AddDigit
<1>2. 10 * scratch.digits + t[2] \in Int
  BY <1>0, TokenForms
<1>3. Unsigned(10 * scratch.digits + t[2], Long) \in Nat
  BY <1>2, UnsignedRange, PowerTypes
<1>4. scratch' \in [kind : {"num"}, sign : {-1, 1}, digits : Nat]
  BY <1>0, <1>3 DEF AddDigit
<1>5. fields' = fields /\ val' = val
  BY DEF AddDigit
<1>6. TypeOK'
  BY <1>1, <1>4, <1>5 DEF ParserInv, TypeOK, Fits
<1>7. ScratchOK' /\ ValuesOK'
  BY <1>0, <1>1, <1>4, <1>5 DEF ParserInv, ScratchOK, ValuesOK, InString
<1> QED BY <1>6, <1>7 DEF ParserInv

LEMMA EndKeeps ==
  ASSUME ParserInv, cs[2] \in Fields, cs \in States, NEW t \in Enders, EndValue(cs[2], t)
  PROVE  ParserInv'
<1> DEFINE f == cs[2]
<1>1. Leave(t) \in {At("next"), At("after"), Final}
  BY DEF Leave, Enders
<1>2. CASE Drop(f, t)
  BY <1>1, <1>2, ZeroFits, StoreKeeps DEF Drop, ParserInv, TypeOK
<1>3. ASSUME NEW v, Fits(f, v), Keep(f, v, t) PROVE ParserInv'
  BY <1>1, <1>3, StoreKeeps DEF Keep, ParserInv, TypeOK
<1>4. CASE cs[1] = "string" /\ Keep(f, val[f], t)
  BY <1>3, <1>4 DEF ParserInv, TypeOK
<1>5. CASE cs[1] = "named" /\ Keep(f, cs[3], t)
  <2>1. Fits(f, cs[3])
    BY <1>5, StateForms DEF ParserInv, ScratchOK, Fits, IsNum
  <2> QED BY <1>3, <1>5, <2>1
<1>6. CASE cs[1] = "optDigit" /\ Keep(f, Stored(f, scratch.sign * scratch.digits), t)
  <2>1. IsNum(f) /\ scratch.sign * scratch.digits \in Int
    BY <1>6 DEF ParserInv, ScratchOK
  <2>2. Fits(f, Stored(f, scratch.sign * scratch.digits))
    BY <2>1, StoredFits
  <2> QED BY <1>3, <1>6, <2>2
<1>7. CASE Goto(Error)
  BY <1>7, GotoKeeps, StateTypes DEF Error, At
<1> QED BY <1>2, <1>4, <1>5, <1>6, <1>7 DEF EndValue

LEMMA StructureKeeps ==
  ASSUME ParserInv, NEW t, Structure(t)
  PROVE  ParserInv'
<1>1. CASE t = LBrace /\ Goto(At("first"))
  BY <1>1, GotoKeeps, StateTypes DEF At
<1>2. CASE t \in Keys /\ Goto(In("value", t[2]))
  BY <1>2, GotoKeeps, StateTypes, TokenForms DEF In
<1>3. CASE t = RBrace /\ Goto(Final)
  BY <1>3, GotoKeeps, StateTypes DEF At, Final
<1>4. CASE t = Comma /\ Goto(At("next"))
  BY <1>4, GotoKeeps, StateTypes DEF At
<1>5. CASE t \in Spaces /\ Goto(cs)
  BY <1>5, GotoKeeps DEF ParserInv, TypeOK
<1> QED BY <1>1, <1>2, <1>3, <1>4, <1>5 DEF Structure

LEMMA ConsumeKeeps ==
  ASSUME ParserInv, NEW t, Consume(t)
  PROVE  ParserInv'
<1>0. cs \in States
  BY DEF ParserInv, TypeOK
<1>1. CASE t \notin Expected(cs)
  BY <1>1, GotoKeeps, StateTypes DEF Consume, Error, At
<1>2. CASE t \in Expected(cs) /\ Len(cs) = 1
  BY <1>2, StructureKeeps DEF Consume
<1>3. CASE t \in Expected(cs) /\ Len(cs) # 1
  <2>0. cs[2] \in Fields
    BY <1>0, <1>3, StateForms
  <2>1. CASE cs[1] = "value"
    <3>1. BeginValue(cs[2], t)
      BY <1>3, <2>1 DEF Consume, InString
    <3> QED BY <1>3, <2>1, <3>1, BeginKeeps
  <2>2. CASE InString(cs)
    <3>1. Characters(cs[2], t)
      BY <1>3, <2>2 DEF Consume, InString
    <3> QED BY <1>3, <2>2, <3>1, CharactersKeeps
  <2>3. CASE cs[1] \in {"reqDigit", "optDigit"} /\ t \in DigitTokens
    <3>1. AddDigit(cs[2], t)
      BY <1>3, <2>3 DEF Consume, InString
    <3> QED BY <2>3, <3>1, AddDigitKeeps
  <2>4. CASE /\ cs[1] # "value" /\ ~InString(cs)
             /\ ~(cs[1] \in {"reqDigit", "optDigit"} /\ t \in DigitTokens)
    <3>1. EndValue(cs[2], t)
      BY <1>3, <2>4 DEF Consume
    <3>2. t \in Enders
      BY <1>0, <1>3, <2>4, StateForms DEF Expected, InString
    <3> QED BY <1>0, <2>0, <3>1, <3>2, EndKeeps
  <2> QED BY <2>1, <2>2, <2>3, <2>4
<1> QED BY <1>1, <1>2, <1>3

LEMMA ResetKeeps ==
  ASSUME cs \in {At("start")}, scratch = [kind |-> "stale"], fields = {},
         val = [f \in Fields |-> Zero(f)]
  PROVE  ParserInv
BY ZeroFits, StateTypes DEF ParserInv, TypeOK, ScratchOK, ValuesOK, InString, At

\* Strings stay within their buffers and numbers within their types, for every
\* list of fields, every length of strings and every width of numbers.
THEOREM ValuesFit == Spec => []TypeOK
<1>1. Init => ParserInv
  BY ResetKeeps DEF Init
<1>2. ParserInv /\ [Next]_vars => ParserInv'
  <2> SUFFICES ASSUME ParserInv, [Next]_vars PROVE ParserInv'
    OBVIOUS
  <2>1. CASE Reset
    BY <2>1, ZeroFits, StateTypes
       DEF Reset, ParserInv, TypeOK, ScratchOK, ValuesOK, InString, At, Fits
  <2>2. ASSUME NEW t \in TokensAt(cs), Consume(t) PROVE ParserInv'
    BY <2>2, ConsumeKeeps
  <2>3. CASE UNCHANGED vars
    BY <2>3 DEF vars, ParserInv, TypeOK, ScratchOK, ValuesOK, InString, Fits
  <2> QED BY <2>1, <2>2, <2>3 DEF Next
<1>3. ParserInv => TypeOK
  BY DEF ParserInv
<1> QED BY <1>1, <1>2, <1>3, PTL DEF Spec

----------------------------------------------------------------------------
(* The folds of the meaning of a body, a token at a time.                   *)

\* Every token there is.
Alphabet ==
  Keys \cup DigitTokens \cup NameTokens \cup StringTokens
    \cup {Null, Minus, Plus, LBrace, RBrace, Comma}

\* Leaving out spaces outside of strings.
StripStep(r, t) ==
  IF r.esc THEN [r EXCEPT !.out = Append(@, t), !.esc = FALSE]
  ELSE IF r.str THEN [out |-> Append(r.out, t), esc |-> t = Escape, str |-> t # Quote]
  ELSE [out |-> IF t \in Spaces THEN r.out ELSE Append(r.out, t),
        esc |-> FALSE, str |-> t = Quote]

\* Taking what follows an escape for itself.
RawStep(r, t) ==
  IF ~r.esc /\ t = Escape THEN [r EXCEPT !.esc = TRUE]
  ELSE [out |-> Append(r.out, t), esc |-> FALSE]

\* One more digit.
NumberStep(n, t) == IF t \in DigitTokens THEN 10 * n + t[2] ELSE n

StripBase == [out |-> <<>>, esc |-> FALSE, str |-> FALSE]
RawBase == [out |-> <<>>, esc |-> FALSE]

\* The three folds by their names.
FoldStep(k, r, t) ==
  IF k = "strip" THEN StripStep(r, t) ELSE IF k = "raw" THEN RawStep(r, t)
  ELSE NumberStep(r, t)
FoldBase(k) == IF k = "strip" THEN StripBase ELSE IF k = "raw" THEN RawBase ELSE 0
FoldType(k) ==
  IF k = "strip" THEN [out : Seq(Alphabet), esc : BOOLEAN, str : BOOLEAN]
  ELSE IF k = "raw" THEN [out : Seq(Alphabet), esc : BOOLEAN] ELSE Nat

\* f folds the prefixes of a text.
IsFold(k, f, ts) ==
  f = [T \in SUBSET DOMAIN ts |->
         IF T = {} THEN FoldBase(k) ELSE FoldStep(k, f[T \ {Max(T)}], ts[Max(T)])]

\* What each of the three folds gives.
LEMMA FoldTypes ==
  ASSUME NEW k \in {"strip", "raw", "number"}
  PROVE  /\ FoldBase(k) \in FoldType(k)
         /\ \A r \in FoldType(k), t \in Alphabet : FoldStep(k, r, t) \in FoldType(k)
<1>0. <<>> \in Seq(Alphabet)
  BY EmptySeq
<1>1. CASE k = "strip"
  <2>1. StripBase \in [out : Seq(Alphabet), esc : BOOLEAN, str : BOOLEAN]
    BY <1>0 DEF StripBase
  <2>2. ASSUME NEW r \in [out : Seq(Alphabet), esc : BOOLEAN, str : BOOLEAN],
               NEW t \in Alphabet
        PROVE  StripStep(r, t) \in [out : Seq(Alphabet), esc : BOOLEAN, str : BOOLEAN]
    <3>1. r.out \in Seq(Alphabet) /\ Append(r.out, t) \in Seq(Alphabet)
      BY AppendProperties
    <3>2. CASE r.esc
      BY <3>1, <3>2 DEF StripStep
    <3>3. CASE ~r.esc /\ r.str
      BY <3>1, <3>3 DEF StripStep
    <3>4. CASE ~r.esc /\ ~r.str
      BY <3>1, <3>4 DEF StripStep
    <3> QED BY <3>2, <3>3, <3>4
  <2> QED BY <1>1, <2>1, <2>2 DEF FoldBase, FoldType, FoldStep
<1>2. CASE k = "raw"
  <2>1. RawBase \in [out : Seq(Alphabet), esc : BOOLEAN]
    BY <1>0 DEF RawBase
  <2>2. ASSUME NEW r \in [out : Seq(Alphabet), esc : BOOLEAN], NEW t \in Alphabet
        PROVE  RawStep(r, t) \in [out : Seq(Alphabet), esc : BOOLEAN]
    <3>1. r.out \in Seq(Alphabet) /\ Append(r.out, t) \in Seq(Alphabet)
      BY AppendProperties
    <3> QED BY <3>1 DEF RawStep
  <2> QED BY <1>2, <2>1, <2>2 DEF FoldBase, FoldType, FoldStep
<1>3. CASE k = "number"
  <2>1. \A t \in DigitTokens : t[2] \in 0 .. 9
    BY TokenForms
  <2>2. ASSUME NEW r \in Nat, NEW t \in Alphabet PROVE NumberStep(r, t) \in Nat
    BY <2>1 DEF NumberStep
  <2> QED BY <1>3, <2>2 DEF FoldBase, FoldType, FoldStep
<1> QED BY <1>1, <1>2, <1>3

\* The function that a fold chooses exists: it is built for one prefix after another.
LEMMA FoldThere ==
  ASSUME NEW k \in {"strip", "raw", "number"}, NEW ts \in Seq(Alphabet)
  PROVE  \E f : IsFold(k, f, ts)
<1> DEFINE m == Len(ts)
           Acc == FoldType(k)
           base == FoldBase(k)
           step == [i \in 1 .. m |-> [a \in Acc |-> FoldStep(k, a, ts[i])]]
<1>1. m \in Nat /\ DOMAIN ts = 1 .. m /\ \A i \in 1 .. m : ts[i] \in Alphabet
  OBVIOUS
<1>2. base \in Acc /\ \A a \in Acc, i \in 1 .. m : FoldStep(k, a, ts[i]) \in Acc
  BY <1>1, FoldTypes
<1>3. step \in [1 .. m -> [Acc -> Acc]]
  <2> HIDE DEF Acc, m
  <2> QED BY <1>2
<1>4. PICK f \in [SUBSET (1 .. m) -> Acc] : FoldsOver(f, base, step, m)
  <2> HIDE DEF step, m, Acc, base
  <2> QED BY <1>1, <1>2, <1>3, FoldExists
<1>5. ASSUME NEW T \in SUBSET (1 .. m), T # {}
      PROVE  f[T] = FoldStep(k, f[T \ {Max(T)}], ts[Max(T)])
  <2>1. Max(T) \in 1 .. m
    <3> HIDE DEF m
    <3> QED BY <1>1, <1>5, MaxIn
  <2>2. f[T] = step[Max(T)][f[T \ {Max(T)}]] /\ f[T \ {Max(T)}] \in Acc
    BY <1>4, <1>5 DEF FoldsOver
  <2> HIDE DEF m, Acc
  <2> QED BY <2>1, <2>2
<1>6. f[{}] = base
  BY <1>4 DEF FoldsOver
<1>7. \A T \in SUBSET (1 .. m) :
        f[T] = IF T = {} THEN FoldBase(k) ELSE FoldStep(k, f[T \ {Max(T)}], ts[Max(T)])
  BY <1>5, <1>6
<1>8. IsFold(k, f, ts)
  <2> HIDE DEF m, Acc
  <2> QED BY <1>1, <1>4, <1>7 DEF IsFold
<1> QED BY <1>8

\* What such a function gives for a prefix, by the last token of it.
LEMMA FoldPrefix ==
  ASSUME NEW k, NEW ts \in Seq(Alphabet), NEW f, IsFold(k, f, ts)
  PROVE  /\ f[1 .. 0] = FoldBase(k)
         /\ \A n \in Nat : n + 1 <= Len(ts) =>
              f[1 .. n + 1] = FoldStep(k, f[1 .. n], ts[n + 1])
<1>1. DOMAIN ts = 1 .. Len(ts) /\ Len(ts) \in Nat
  OBVIOUS
<1>2. f[1 .. 0] = FoldBase(k)
  <2>1. 1 .. 0 = {} /\ {} \in SUBSET DOMAIN ts
    OBVIOUS
  <2> QED BY <2>1 DEF IsFold
<1>3. ASSUME NEW n \in Nat, n + 1 <= Len(ts)
      PROVE  f[1 .. n + 1] = FoldStep(k, f[1 .. n], ts[n + 1])
  <2>1. 1 .. n + 1 \in SUBSET DOMAIN ts
    BY <1>1, <1>3
  <2>2. /\ 1 .. n + 1 # {} /\ Max(1 .. n + 1) = n + 1 /\ (1 .. n + 1) \ {n + 1} = 1 .. n
    BY Upto
  <2> DEFINE T == 1 .. n + 1
  <2>3. f[T] = FoldStep(k, f[T \ {Max(T)}], ts[Max(T)])
    <3> HIDE DEF T
    <3> QED BY <2>1, <2>2 DEF IsFold, T
  <2> QED BY <2>2, <2>3
<1> QED BY <1>2, <1>3

\* A fold of a longer text is one step more.
LEMMA FoldLonger ==
  ASSUME NEW k, NEW ts \in Seq(Alphabet), NEW t \in Alphabet,
         NEW f, IsFold(k, f, ts), NEW g, IsFold(k, g, Append(ts, t))
  PROVE  g[DOMAIN Append(ts, t)] = FoldStep(k, f[DOMAIN ts], t)
<1> DEFINE us == Append(ts, t)
           m == Len(ts)
<1>1. /\ us \in Seq(Alphabet) /\ Len(us) = m + 1 /\ m \in Nat
      /\ DOMAIN ts = 1 .. m /\ DOMAIN us = 1 .. m + 1
      /\ us[m + 1] = t /\ \A i \in 1 .. m : us[i] = ts[i]
  OBVIOUS
<1>2. IsFold(k, g, us)
  OBVIOUS
<1> HIDE DEF us, m
<1>4. /\ f[1 .. 0] = FoldBase(k)
      /\ \A n \in Nat : n + 1 <= m => f[1 .. n + 1] = FoldStep(k, f[1 .. n], ts[n + 1])
  BY FoldPrefix DEF m
<1>5. /\ g[1 .. 0] = FoldBase(k)
      /\ \A n \in Nat : n + 1 <= m + 1 => g[1 .. n + 1] = FoldStep(k, g[1 .. n], us[n + 1])
  BY <1>1, <1>2, FoldPrefix
<1> DEFINE G == {n \in Nat : n <= m => f[1 .. n] = g[1 .. n]}
<1>6. 0 \in G
  BY <1>4, <1>5
<1>7. ASSUME NEW n \in G PROVE n + 1 \in G
  <2> SUFFICES ASSUME n + 1 <= m PROVE f[1 .. n + 1] = g[1 .. n + 1]
    OBVIOUS
  <2>1. n \in Nat /\ n <= m /\ n + 1 <= m + 1 /\ n + 1 \in 1 .. m
    BY <1>1
  <2>2. f[1 .. n] = g[1 .. n] /\ us[n + 1] = ts[n + 1]
    BY <1>1, <2>1
  <2> QED BY <1>4, <1>5, <2>1, <2>2
<1>8. G = Nat
  <2> HIDE DEF G
  <2>1. G \in SUBSET Nat
    BY DEF G
  <2> QED BY <1>6, <1>7, <2>1, Induction
<1>9. f[1 .. m] = g[1 .. m]
  BY <1>1, <1>8
<1>10. g[1 .. m + 1] = FoldStep(k, g[1 .. m], t)
  BY <1>1, <1>5
<1> QED BY <1>1, <1>9, <1>10 DEF us

\* What a text is without spaces, unescaped, and as a number.
Strip(ts) == (CHOOSE f :
  f = [T \in SUBSET DOMAIN ts |->
         IF T = {} THEN StripBase ELSE StripStep(f[T \ {Max(T)}], ts[Max(T)])])[DOMAIN ts]
Raw(ts) == (CHOOSE f :
  f = [T \in SUBSET DOMAIN ts |->
         IF T = {} THEN RawBase ELSE RawStep(f[T \ {Max(T)}], ts[Max(T)])])[DOMAIN ts]
Number(ts) == (CHOOSE f :
  f = [T \in SUBSET DOMAIN ts |->
         IF T = {} THEN 0 ELSE NumberStep(f[T \ {Max(T)}], ts[Max(T)])])[DOMAIN ts]

\* The text without spaces, as a fold.
LEMMA StrippedIs == \A ts : Stripped(ts) = Strip(ts).out
BY Zenon DEF Stripped, Strip, StripBase, StripStep, FoldLeft, MapThenFoldSet

\* The characters of a string, as a fold.
LEMMA UnescapedIs == \A ts : Unescaped(ts) = Raw(SubSeq(ts, 2, Len(ts) - 1)).out
BY Zenon DEF Unescaped, Raw, RawBase, RawStep, FoldLeft, MapThenFoldSet

\* The number that a text writes, as a fold.
LEMMA WrittenIs ==
  \A ts : Written(ts) = (IF ts[1] = Minus THEN -1 ELSE 1) * Number(ts)
BY Zenon DEF Written, Number, NumberStep, FoldLeft, MapThenFoldSet

\* Each of the three is what its fold chooses.
LEMMA FoldNames ==
  ASSUME NEW ts \in Seq(Alphabet)
  PROVE  /\ \E f : IsFold("strip", f, ts) /\ Strip(ts) = f[DOMAIN ts]
         /\ \E f : IsFold("raw", f, ts) /\ Raw(ts) = f[DOMAIN ts]
         /\ \E f : IsFold("number", f, ts) /\ Number(ts) = f[DOMAIN ts]
<1> DEFINE S(f) == f = [T \in SUBSET DOMAIN ts |->
             IF T = {} THEN StripBase ELSE StripStep(f[T \ {Max(T)}], ts[Max(T)])]
           R(f) == f = [T \in SUBSET DOMAIN ts |->
             IF T = {} THEN RawBase ELSE RawStep(f[T \ {Max(T)}], ts[Max(T)])]
           N(f) == f = [T \in SUBSET DOMAIN ts |->
             IF T = {} THEN 0 ELSE NumberStep(f[T \ {Max(T)}], ts[Max(T)])]
<1>1. \A f : /\ S(f) <=> IsFold("strip", f, ts)
             /\ R(f) <=> IsFold("raw", f, ts)
             /\ N(f) <=> IsFold("number", f, ts)
  BY DEF IsFold, FoldStep, FoldBase
<1>2. S(CHOOSE f : S(f)) /\ R(CHOOSE f : R(f)) /\ N(CHOOSE f : N(f))
  <2> HIDE DEF S, R, N
  <2>1. (\E f : S(f)) /\ (\E f : R(f)) /\ (\E f : N(f))
    BY <1>1, FoldThere
  <2> QED BY <2>1
<1>3. /\ Strip(ts) = (CHOOSE f : S(f))[DOMAIN ts]
      /\ Raw(ts) = (CHOOSE f : R(f))[DOMAIN ts]
      /\ Number(ts) = (CHOOSE f : N(f))[DOMAIN ts]
  BY Zenon DEF Strip, Raw, Number
<1> HIDE DEF S, R, N
<1> QED BY <1>1, <1>2, <1>3

\* The folds over the empty text.
LEMMA FoldOfNothing ==
  Strip(<<>>) = StripBase /\ Raw(<<>>) = RawBase /\ Number(<<>>) = 0
<1> DEFINE E == << >>
<1>1. E \in Seq(Alphabet) /\ DOMAIN E = 1 .. 0
  OBVIOUS
<1> HIDE DEF E
<1>2. /\ \E f : IsFold("strip", f, E) /\ Strip(E) = f[DOMAIN E]
      /\ \E f : IsFold("raw", f, E) /\ Raw(E) = f[DOMAIN E]
      /\ \E f : IsFold("number", f, E) /\ Number(E) = f[DOMAIN E]
  BY <1>1, FoldNames
<1>3. \A k, f : IsFold(k, f, E) => f[1 .. 0] = FoldBase(k)
  BY <1>1, FoldPrefix
<1>4. Strip(E) = FoldBase("strip") /\ Raw(E) = FoldBase("raw") /\ Number(E) = FoldBase("number")
  BY <1>1, <1>2, <1>3
<1> QED BY <1>4 DEF FoldBase, E

\* The folds over one token more.
LEMMA FoldOfMore ==
  ASSUME NEW ts \in Seq(Alphabet), NEW t \in Alphabet
  PROVE  /\ Strip(Append(ts, t)) = StripStep(Strip(ts), t)
         /\ Raw(Append(ts, t)) = RawStep(Raw(ts), t)
         /\ Number(Append(ts, t)) = NumberStep(Number(ts), t)
<1> DEFINE us == Append(ts, t)
<1>1. us \in Seq(Alphabet)
  BY AppendProperties
<1>2. \A k, f, g : IsFold(k, f, ts) /\ IsFold(k, g, us) =>
        g[DOMAIN us] = FoldStep(k, f[DOMAIN ts], t)
  BY FoldLonger
<1> HIDE DEF us
<1>3. Strip(us) = FoldStep("strip", Strip(ts), t)
  BY <1>1, <1>2, FoldNames
<1>4. Raw(us) = FoldStep("raw", Raw(ts), t)
  BY <1>1, <1>2, FoldNames
<1>5. Number(us) = FoldStep("number", Number(ts), t)
  BY <1>1, <1>2, FoldNames
<1> QED BY <1>3, <1>4, <1>5 DEF FoldStep, us

\* The types of what the folds give.
LEMMA FoldResults ==
  ASSUME NEW ts \in Seq(Alphabet)
  PROVE  /\ Strip(ts) \in [out : Seq(Alphabet), esc : BOOLEAN, str : BOOLEAN]
         /\ Raw(ts) \in [out : Seq(Alphabet), esc : BOOLEAN]
         /\ Number(ts) \in Nat
<1> DEFINE G == {us \in Seq(Alphabet) :
                   /\ Strip(us) \in FoldType("strip")
                   /\ Raw(us) \in FoldType("raw")
                   /\ Number(us) \in FoldType("number")}
<1>1. << >> \in G
  <2>1. /\ StripBase \in FoldType("strip") /\ RawBase \in FoldType("raw")
        /\ 0 \in FoldType("number")
    BY FoldTypes DEF FoldBase
  <2> QED BY <2>1, FoldOfNothing, EmptySeq
<1>2. ASSUME NEW us \in G, NEW t \in Alphabet PROVE Append(us, t) \in G
  <2>1. us \in Seq(Alphabet) /\ Append(us, t) \in Seq(Alphabet)
    BY AppendProperties
  <2>2. /\ StripStep(Strip(us), t) \in FoldType("strip")
        /\ RawStep(Raw(us), t) \in FoldType("raw")
        /\ NumberStep(Number(us), t) \in FoldType("number")
    BY <1>2, FoldTypes DEF FoldStep
  <2> QED BY <2>1, <2>2, FoldOfMore
<1>3. G = Seq(Alphabet)
  <2> HIDE DEF G
  <2>1. G \in SUBSET Seq(Alphabet)
    BY DEF G
  <2> QED BY <1>1, <1>2, <2>1, SequenceInduction
<1> QED BY <1>3 DEF FoldType

----------------------------------------------------------------------------
(* Texts of any length.                                                    *)

\* The texts of fields, without the bound on the length of a body.
Signs == {<<>>, <<Minus>>, <<Plus>>}

\* The texts of numbers and of fields, of whatever length.
AnyNumbers == {sign \o ds : sign \in Signs, ds \in Seq(DigitTokens) \ {<<>>}}
AnyText(f) ==
  {<<Null>>} \cup
  CASE Kind[f] = "str" -> StringTexts
    [] Kind[f] = "state" -> {ts \in AnyNumbers : ts[1] # Minus}
    [] Kind[f] \in {"long", "int"} -> AnyNumbers
    [] Kind[f] = "name" -> {<<n>> : n \in NameTokens}

\* The pairs, of whatever length.
AnyPairs == UNION {{<<f, ts>> : ts \in AnyText(f)} : f \in Fields}

\* The kinds that there are.
LEMMA KindForms ==
  ASSUME NEW f \in Fields
  PROVE  Kind[f] \in {"str", "long", "int", "state", "name"}
BY ParserAssumption

\* The texts of a field by its kind.
LEMMA TextForms ==
  ASSUME NEW f \in Fields
  PROVE  /\ Kind[f] = "str" => AnyText(f) = {<<Null>>} \cup StringTexts
         /\ Kind[f] = "state" => AnyText(f) = {<<Null>>} \cup {ts \in AnyNumbers : ts[1] # Minus}
         /\ Kind[f] \in {"long", "int"} => AnyText(f) = {<<Null>>} \cup AnyNumbers
         /\ Kind[f] = "name" => AnyText(f) = {<<Null>>} \cup {<<n>> : n \in NameTokens}
         /\ Kind[f] = "str" => TextsOf(f) = {<<Null>>} \cup StringTexts
         /\ Kind[f] = "state" =>
              TextsOf(f) = {<<Null>>} \cup {ts \in NumberTexts : ts[1] # Minus}
         /\ Kind[f] \in {"long", "int"} => TextsOf(f) = {<<Null>>} \cup NumberTexts
         /\ Kind[f] = "name" => TextsOf(f) = {<<Null>>} \cup {<<n>> : n \in NameTokens}
<1>1. CASE Kind[f] = "str"
  BY <1>1 DEF AnyText, TextsOf
<1>2. CASE Kind[f] = "state"
  BY <1>2 DEF AnyText, TextsOf
<1>3. CASE Kind[f] \in {"long", "int"}
  BY <1>3 DEF AnyText, TextsOf
<1>4. CASE Kind[f] = "name"
  BY <1>4 DEF AnyText, TextsOf
<1> QED BY <1>1, <1>2, <1>3, <1>4, KindForms

\* The tokens of texts.
LEMMA TokenTypes ==
  /\ Keys \subseteq Alphabet /\ DigitTokens \subseteq Alphabet /\ NameTokens \subseteq Alphabet
  /\ StringTokens \subseteq Alphabet /\ Spaces \subseteq Alphabet
  /\ {Null, Minus, Plus, LBrace, RBrace, Comma, Quote, Escape, Char} \subseteq Alphabet
  /\ \A f \in Fields : Key(f) \in Keys /\ Key(f) \in Alphabet
BY DEF Alphabet, StringTokens, Keys

\* Texts of one token and of none.
LEMMA Singles ==
  /\ \A t \in Alphabet : <<t>> \in Seq(Alphabet) /\ Len(<<t>>) = 1 /\ <<t>>[1] = t
  /\ << >> \in Seq(Alphabet) /\ Len(<< >>) = 0
OBVIOUS

\* Signs are texts.
LEMMA SignTypes ==
  ASSUME NEW sign \in Signs
  PROVE  /\ sign \in Seq(Alphabet) /\ Len(sign) \in Nat
         /\ sign = <<>> \/ (Len(sign) = 1 /\ sign[1] \in {Minus, Plus})
<1> DEFINE E == << >>
           M == <<Minus>>
           P == <<Plus>>
<1>1. Minus \in Alphabet /\ Plus \in Alphabet
  BY TokenTypes
<1>2. /\ E \in Seq(Alphabet) /\ Len(E) = 0
      /\ M \in Seq(Alphabet) /\ Len(M) = 1 /\ M[1] = Minus
      /\ P \in Seq(Alphabet) /\ Len(P) = 1 /\ P[1] = Plus
  BY <1>1, Singles
<1>3. sign \in {E, M, P}
  BY DEF Signs
<1> HIDE DEF E, M, P
<1>4. sign \in Seq(Alphabet) /\ Len(sign) \in Nat
  <2>1. sign \in Seq(Alphabet)
    BY <1>2, <1>3
  <2> QED BY <2>1, LenProperties
<1>5. sign = E \/ (Len(sign) = 1 /\ sign[1] \in {Minus, Plus})
  BY <1>2, <1>3
<1> QED BY <1>4, <1>5 DEF E

\* A number is a sign, which may be none, and digits.
LEMMA SignAndDigits ==
  ASSUME NEW ts \in AnyNumbers
  PROVE  \E sign \in Signs, ds \in Seq(DigitTokens) \ {<<>>} : ts = sign \o ds
BY DEF AnyNumbers

\* The texts of numbers are texts and not empty.
LEMMA NumberTypes ==
  ASSUME NEW ts \in AnyNumbers
  PROVE  ts \in Seq(Alphabet) /\ Len(ts) >= 1
<1>1. PICK sign \in Signs, ds \in Seq(DigitTokens) \ {<<>>} : ts = sign \o ds
  BY DEF AnyNumbers
<1>2. ds \in Seq(Alphabet) /\ Len(ds) >= 1
  <2>1. ds \in Seq(Alphabet)
    BY TokenTypes, SeqMonotonic
  <2> QED BY <2>1
<1>3. sign \in Seq(Alphabet) /\ Len(sign) \in Nat
  BY SignTypes
<1> QED BY <1>1, <1>2, <1>3, ConcatProperties

\* The characters of a string as texts.
LEMMA CharTextTypes ==
  /\ CharTexts \subseteq Seq(Alphabet)
  /\ \A chars \in Seq(CharTexts) :
       chars \in Seq(Seq(Alphabet)) /\ FlattenSeq(chars) \in Seq(Alphabet)
<1>1. ASSUME NEW c \in CharTexts PROVE c \in Seq(Alphabet)
  <2>1. CASE c \in {<<t>> : t \in {Char} \cup Spaces}
    BY <2>1, TokenTypes, Singles
  <2>2. CASE c \in {<<Escape, t>> : t \in StringTokens}
    <3>1. PICK t \in StringTokens : c = <<Escape, t>>
      BY <2>2
    <3>2. t \in Alphabet /\ Escape \in Alphabet
      BY TokenTypes
    <3>3. \A x, y \in Alphabet : <<x, y>> \in Seq(Alphabet)
      OBVIOUS
    <3> QED BY <3>1, <3>2, <3>3
  <2> QED BY <2>1, <2>2 DEF CharTexts
<1>2. \A chars \in Seq(CharTexts) : chars \in Seq(Seq(Alphabet))
  <2>1. CharTexts \subseteq Seq(Alphabet)
    BY <1>1
  <2> QED BY <2>1, SeqMonotonic
<1>3. \A chars \in Seq(Seq(Alphabet)) : FlattenSeq(chars) \in Seq(Alphabet)
  BY FlattenType
<1> QED BY <1>1, <1>2, <1>3

\* The texts of strings are characters between quotes.
LEMMA StringForms ==
  ASSUME NEW ts
  PROVE  ts \in StringTexts <=>
           \E chars \in Seq(CharTexts) :
             Len(chars) <= MaxStr /\ ts = (<<Quote>> \o FlattenSeq(chars)) \o <<Quote>>
<1>1. ASSUME ts \in StringTexts
      PROVE  \E chars \in Seq(CharTexts) :
               Len(chars) <= MaxStr /\ ts = (<<Quote>> \o FlattenSeq(chars)) \o <<Quote>>
  <2>0. PICK n \in 0 .. MaxStr : \E chars \in [1 .. n -> CharTexts] :
          ts = (<<Quote>> \o FlattenSeq(chars)) \o <<Quote>>
    BY <1>1 DEF StringTexts
  <2>1. PICK chars \in [1 .. n -> CharTexts] :
          ts = (<<Quote>> \o FlattenSeq(chars)) \o <<Quote>>
    BY <2>0
  <2>2. chars \in Seq(CharTexts) /\ Len(chars) = n
    BY <2>1
  <2> QED BY <2>1, <2>2
<1>2. ASSUME NEW chars \in Seq(CharTexts), Len(chars) <= MaxStr,
             ts = (<<Quote>> \o FlattenSeq(chars)) \o <<Quote>>
      PROVE  ts \in StringTexts
  <2>1. Len(chars) \in 0 .. MaxStr /\ chars \in [1 .. Len(chars) -> CharTexts]
    BY <1>2, ConstantTypes
  <2> QED BY <1>2, <2>1 DEF StringTexts
<1> QED BY <1>1, <1>2

\* The texts of fields are texts, and are not empty.
LEMMA TextTypes ==
  ASSUME NEW f \in Fields, NEW ts \in AnyText(f)
  PROVE  ts \in Seq(Alphabet) /\ Len(ts) >= 1
<1>1. <<Null>> \in Seq(Alphabet) /\ Len(<<Null>>) >= 1
  BY TokenTypes
<1>2. ASSUME ts \in StringTexts PROVE ts \in Seq(Alphabet) /\ Len(ts) >= 1
  <2>1. PICK chars \in Seq(CharTexts) : ts = (<<Quote>> \o FlattenSeq(chars)) \o <<Quote>>
    BY <1>2, StringForms
  <2>2. FlattenSeq(chars) \in Seq(Alphabet)
    BY CharTextTypes
  <2> DEFINE q == <<Quote>>
  <2>3. q \in Seq(Alphabet) /\ Len(q) = 1
    BY TokenTypes
  <2> HIDE DEF q
  <2>4. q \o FlattenSeq(chars) \in Seq(Alphabet) /\ Len(q \o FlattenSeq(chars)) \in Nat
    BY <2>2, <2>3
  <2>5. ts = (q \o FlattenSeq(chars)) \o q
    BY <2>1 DEF q
  <2>6. /\ (q \o FlattenSeq(chars)) \o q \in Seq(Alphabet)
        /\ Len((q \o FlattenSeq(chars)) \o q) = Len(q \o FlattenSeq(chars)) + Len(q)
    BY <2>3, <2>4, ConcatProperties
  <2> QED BY <2>3, <2>4, <2>5, <2>6
<1>3. ASSUME NEW n \in NameTokens PROVE <<n>> \in Seq(Alphabet) /\ Len(<<n>>) >= 1
  BY TokenTypes, Singles
<1>4. \/ ts = <<Null>> \/ ts \in StringTexts \/ ts \in AnyNumbers
      \/ \E n \in NameTokens : ts = <<n>>
  BY TextForms, KindForms
<1> QED BY <1>1, <1>2, <1>3, <1>4, NumberTypes

\* Numbers have a sign or none, and digits.
LEMMA NumberForms ==
  /\ \A ts : ts \in AnyNumbers <=>
       \E sign \in Signs, ds \in Seq(DigitTokens) \ {<<>>} : ts = sign \o ds
  /\ \A ts \in NumberTexts : ts \in AnyNumbers
  /\ \A sign \in Signs, ds \in Seq(DigitTokens) \ {<<>>} :
       Len(ds) \in 1 .. MaxTokens - 3 => sign \o ds \in NumberTexts
<1>1. \A ts : ts \in AnyNumbers <=>
        \E sign \in Signs, ds \in Seq(DigitTokens) \ {<<>>} : ts = sign \o ds
  BY DEF AnyNumbers
<1>2. \A ts : ts \in NumberTexts <=>
        \E sign \in Signs, ds \in UNION {[1..n -> DigitTokens] : n \in 1..MaxTokens - 3} :
          ts = sign \o ds
  BY DEF NumberTexts, Signs
<1>3. ASSUME NEW ts \in NumberTexts PROVE ts \in AnyNumbers
  <2>1. PICK sign \in Signs, ds \in UNION {[1..n -> DigitTokens] : n \in 1..MaxTokens - 3} :
          ts = sign \o ds
    BY <1>2
  <2>2. PICK n \in 1 .. MaxTokens - 3 : ds \in [1 .. n -> DigitTokens]
    BY <2>1
  <2>3. n \in Nat /\ n >= 1
    BY ParserAssumption
  <2>4. ds \in Seq(DigitTokens) /\ Len(ds) = n
    BY <2>2, <2>3
  <2>5. ds \in Seq(DigitTokens) \ {<<>>}
    BY <2>3, <2>4
  <2> QED BY <1>1, <2>1, <2>5
<1>4. ASSUME NEW sign \in Signs, NEW ds \in Seq(DigitTokens) \ {<<>>},
             Len(ds) \in 1 .. MaxTokens - 3
      PROVE  sign \o ds \in NumberTexts
  <2>1. ds \in [1 .. Len(ds) -> DigitTokens]
    OBVIOUS
  <2>2. ds \in UNION {[1..n -> DigitTokens] : n \in 1..MaxTokens - 3}
    BY <1>4, <2>1
  <2> QED BY <1>2, <2>2
<1> QED BY <1>1, <1>3, <1>4

\* A text that is short enough is one of the bounded ones, which are all texts.
LEMMA BoundedTexts ==
  ASSUME NEW f \in Fields
  PROVE  /\ TextsOf(f) \subseteq AnyText(f)
         /\ \A ts \in AnyText(f) : Len(ts) <= MaxTokens - 3 => ts \in TextsOf(f)
<1>0. MaxTokens \in Nat
  BY ParserAssumption
<1>1. NumberTexts \subseteq AnyNumbers
  BY NumberForms
<1>2. ASSUME NEW ts \in AnyNumbers, Len(ts) <= MaxTokens - 3 PROVE ts \in NumberTexts
  <2>1. PICK sign \in Signs, ds \in Seq(DigitTokens) \ {<<>>} : ts = sign \o ds
    BY NumberForms
  <2>2. Len(ts) = Len(sign) + Len(ds) /\ Len(sign) \in Nat
    <3>1. sign \in Seq(Alphabet) /\ ds \in Seq(DigitTokens)
      BY SignTypes
    <3>2. ds \in Seq(Alphabet)
      BY TokenTypes, SeqMonotonic
    <3> QED BY <2>1, <3>1, <3>2
  <2>3. Len(ds) \in Nat /\ Len(ds) # 0
    BY <2>1
  <2>4. Len(ds) \in 1 .. MaxTokens - 3
    BY <1>0, <1>2, <2>2, <2>3
  <2> QED BY <2>1, <2>4, NumberForms
<1> QED BY <1>1, <1>2, TextForms, KindForms

\* A pair is a field and one of its texts.
LEMMA PairForms ==
  ASSUME NEW p \in AnyPairs
  PROVE  /\ p[1] \in Fields /\ p[2] \in AnyText(p[1]) /\ p = <<p[1], p[2]>>
         /\ p[2] \in Seq(Alphabet) /\ Len(p[2]) >= 1
         /\ PairText(p) = <<Key(p[1])>> \o p[2]
         /\ PairText(p) \in Seq(Alphabet) /\ Len(PairText(p)) = 1 + Len(p[2])
<1>0. PICK f \in Fields : \E ts \in AnyText(f) : p = <<f, ts>>
  BY DEF AnyPairs
<1>1. PICK ts \in AnyText(f) : p = <<f, ts>>
  BY <1>0
<1>2. ts \in Seq(Alphabet) /\ Len(ts) >= 1
  BY TextTypes
<1>3. <<Key(f)>> \in Seq(Alphabet) /\ Len(<<Key(f)>>) = 1
  BY TokenTypes
<1> QED BY <1>1, <1>2, <1>3, ConcatProperties DEF PairText

----------------------------------------------------------------------------
(* Lists of pairs as texts.                                                *)

Separator(l) == IF l = <<>> THEN <<>> ELSE <<Comma>>
Items(l) == [k \in 1 .. Len(l) |-> (IF k = 1 THEN <<>> ELSE <<Comma>>) \o PairText(l[k])]
Joined(l) == FlattenSeq(Items(l))

\* A body with these pairs that goes on, behind the last or ready for the next.
Begun(l) == <<LBrace>> \o Joined(l)
Open(l) == Begun(l) \o Separator(l)

\* Pairs behind a first one.
Commas(l) == [k \in 1 .. Len(l) |-> <<Comma>> \o PairText(l[k])]
After(l) == FlattenSeq(Commas(l)) \o <<RBrace>>

\* A body is its beginning and a brace.
LEMMA BodyIs == \A l : BodyText(l) = Begun(l) \o <<RBrace>>
BY DEF BodyText, Begun, Joined, Items

\* What bodies are built from are texts.
LEMMA ItemTypes ==
  ASSUME NEW l \in Seq(AnyPairs)
  PROVE  /\ Items(l) \in Seq(Seq(Alphabet)) /\ Len(Items(l)) = Len(l)
         /\ Commas(l) \in Seq(Seq(Alphabet)) /\ Len(Commas(l)) = Len(l)
         /\ Joined(l) \in Seq(Alphabet) /\ FlattenSeq(Commas(l)) \in Seq(Alphabet)
         /\ Begun(l) \in Seq(Alphabet) /\ Open(l) \in Seq(Alphabet)
         /\ After(l) \in Seq(Alphabet) /\ BodyText(l) \in Seq(Alphabet)
         /\ Separator(l) \in Seq(Alphabet)
<1> DEFINE E == << >>
           C == <<Comma>>
           L == <<LBrace>>
           R == <<RBrace>>
<1>1. {E, C, L, R} \subseteq Seq(Alphabet)
  BY TokenTypes
<1> HIDE DEF E, C, L, R
<1>2. \A k \in 1 .. Len(l) : PairText(l[k]) \in Seq(Alphabet)
  <2>1. \A k \in 1 .. Len(l) : l[k] \in AnyPairs
    OBVIOUS
  <2> QED BY <2>1, PairForms
<1>3. \A k \in 1 .. Len(l) : /\ (IF k = 1 THEN E ELSE C) \o PairText(l[k]) \in Seq(Alphabet)
                             /\ C \o PairText(l[k]) \in Seq(Alphabet)
  BY <1>1, <1>2, ConcatProperties
<1>4. /\ Items(l) = [k \in 1 .. Len(l) |-> (IF k = 1 THEN E ELSE C) \o PairText(l[k])]
      /\ Commas(l) = [k \in 1 .. Len(l) |-> C \o PairText(l[k])]
  BY DEF Items, Commas, E, C
<1>5. /\ Items(l) \in Seq(Seq(Alphabet)) /\ Len(Items(l)) = Len(l)
      /\ Commas(l) \in Seq(Seq(Alphabet)) /\ Len(Commas(l)) = Len(l)
  <2>1. Len(l) \in Nat
    OBVIOUS
  <2> QED BY <1>3, <1>4, <2>1
<1>6. Joined(l) \in Seq(Alphabet) /\ FlattenSeq(Commas(l)) \in Seq(Alphabet)
  BY <1>5, FlattenType DEF Joined
<1>7. Separator(l) \in Seq(Alphabet)
  BY <1>1 DEF Separator, E, C
<1>8. Begun(l) \in Seq(Alphabet)
  BY <1>1, <1>6, ConcatProperties DEF Begun, L
<1>9. /\ Open(l) \in Seq(Alphabet) /\ After(l) \in Seq(Alphabet)
      /\ BodyText(l) \in Seq(Alphabet)
  BY <1>1, <1>6, <1>7, <1>8, BodyIs, ConcatProperties DEF Open, After, R
<1> QED BY <1>5, <1>6, <1>7, <1>8, <1>9

\* One pair more.
LEMMA JoinedOfMore ==
  ASSUME NEW l \in Seq(AnyPairs), NEW p \in AnyPairs
  PROVE  Joined(Append(l, p)) = Joined(l) \o (Separator(l) \o PairText(p))
<1> DEFINE s == Separator(l) \o PairText(p)
           m == Append(l, p)
<1>1. s \in Seq(Alphabet)
  BY ItemTypes, PairForms, ConcatProperties
<1>2. Items(m) = Append(Items(l), s)
  <2>1. /\ m \in Seq(AnyPairs) /\ Len(m) = Len(l) + 1 /\ Len(l) \in Nat /\ m[Len(l) + 1] = p
        /\ \A k \in 1 .. Len(l) : m[k] = l[k]
    OBVIOUS
  <2>2. Items(l) \in Seq(Seq(Alphabet)) /\ Len(Items(l)) = Len(l)
    BY ItemTypes
  <2>3. l = <<>> <=> Len(l) + 1 = 1
    OBVIOUS
  <2> HIDE DEF m
  <2>4. \A k \in 1 .. Len(l) + 1 : Items(m)[k] = Append(Items(l), s)[k]
    <3> SUFFICES ASSUME NEW k \in 1 .. Len(l) + 1 PROVE Items(m)[k] = Append(Items(l), s)[k]
      OBVIOUS
    <3>1. Items(m)[k] = (IF k = 1 THEN <<>> ELSE <<Comma>>) \o PairText(m[k])
      BY <2>1 DEF Items
    <3>2. CASE k = Len(l) + 1
      <4>1. (IF k = 1 THEN <<>> ELSE <<Comma>>) = Separator(l)
        BY <2>3, <3>2 DEF Separator
      <4>2. Append(Items(l), s)[k] = s
        <5> HIDE DEF s
        <5> QED BY <1>1, <2>2, <3>2, AppendProperties
      <4> QED BY <2>1, <3>1, <3>2, <4>1, <4>2
    <3>3. CASE k \in 1 .. Len(l)
      <4>1. Append(Items(l), s)[k] = Items(l)[k]
        BY <1>1, <2>2, <3>3, AppendProperties
      <4>2. Items(l)[k] = (IF k = 1 THEN <<>> ELSE <<Comma>>) \o PairText(l[k])
        BY <3>3 DEF Items
      <4> QED BY <2>1, <3>1, <3>3, <4>1, <4>2
    <3>4. k = Len(l) + 1 \/ k \in 1 .. Len(l)
      BY <2>1
    <3> QED BY <3>2, <3>3, <3>4
  <2>5. Items(m) \in Seq(Seq(Alphabet)) /\ Len(Items(m)) = Len(l) + 1
    BY <2>1, ItemTypes
  <2>6. Append(Items(l), s) \in Seq(Seq(Alphabet)) /\ Len(Append(Items(l), s)) = Len(l) + 1
    BY <1>1, <2>2, AppendProperties
  <2> QED BY <2>4, <2>5, <2>6, SeqEqual
<1>3. FlattenSeq(Append(Items(l), s)) = FlattenSeq(Items(l)) \o s
  <2> HIDE DEF s
  <2> QED BY <1>1, ItemTypes, FlattenOfMore
<1> QED BY <1>2, <1>3 DEF Joined

\* Texts in a row need no parentheses.
FiveInARow(a, b, c, d, e) ==
  a \o (b \o (c \o (d \o e))) = (((a \o b) \o c) \o d) \o e

ThreeInARow(a, b, c) == (a \o b) \o c = a \o (b \o c)

\* Of three texts.
LEMMA Associative ==
  ASSUME NEW S, NEW a \in Seq(S), NEW b \in Seq(S), NEW c \in Seq(S)
  PROVE  ThreeInARow(a, b, c)
BY ConcatAssociative DEF ThreeInARow

\* Of five texts.
LEMMA Regrouped ==
  ASSUME NEW S, NEW a \in Seq(S), NEW b \in Seq(S), NEW c \in Seq(S), NEW d \in Seq(S),
         NEW e \in Seq(S)
  PROVE  FiveInARow(a, b, c, d, e)
<1> DEFINE de == d \o e
           cde == c \o de
           ab == a \o b
           abc == ab \o c
<1>1. de \in Seq(S) /\ ab \in Seq(S)
  BY ConcatProperties
<1>2. cde \in Seq(S) /\ abc \in Seq(S)
  <2> HIDE DEF de, ab
  <2> QED BY <1>1, ConcatProperties
<1> HIDE DEF de, cde, ab, abc
<1>3. /\ ThreeInARow(a, b, cde) /\ ThreeInARow(ab, c, de) /\ ThreeInARow(abc, d, e)
  BY <1>1, <1>2, Associative
<1> QED BY <1>3, Zenon DEF ThreeInARow, FiveInARow, de, cde, ab, abc

\* A body up to a pair is the body up to its key and the text of its value.
LEMMA HeadOfMore ==
  ASSUME NEW l \in Seq(AnyPairs), NEW f \in Fields, NEW ts \in AnyText(f)
  PROVE  /\ Append(l, <<f, ts>>) \in Seq(AnyPairs)
         /\ Begun(Append(l, <<f, ts>>)) = Append(Open(l), Key(f)) \o ts
<1> DEFINE p == <<f, ts>>
           L == <<LBrace>>
           K == <<Key(f)>>
<1>1. p \in AnyPairs
  BY DEF AnyPairs
<1>2. PairText(p) = K \o ts /\ ts \in Seq(Alphabet) /\ K \in Seq(Alphabet) /\ L \in Seq(Alphabet)
  BY TextTypes, TokenTypes DEF PairText
<1>3. Joined(l) \in Seq(Alphabet) /\ Separator(l) \in Seq(Alphabet) /\ Open(l) \in Seq(Alphabet)
  BY ItemTypes
<1>4. Append(Open(l), Key(f)) = Open(l) \o K
  BY <1>3, AppendIsConcat, TokenTypes
<1> HIDE DEF p, L, K
<1>5. Joined(Append(l, p)) = Joined(l) \o (Separator(l) \o (K \o ts))
  BY <1>1, <1>2, JoinedOfMore
<1>6. L \o (Joined(l) \o (Separator(l) \o (K \o ts)))
        = (((L \o Joined(l)) \o Separator(l)) \o K) \o ts
  <2> DEFINE J == Joined(l)
             P == Separator(l)
  <2>1. J \in Seq(Alphabet) /\ P \in Seq(Alphabet)
    BY <1>3
  <2> HIDE DEF J, P
  <2>2. FiveInARow(L, J, P, K, ts)
    BY <1>2, <2>1, Regrouped
  <2> QED BY <2>2, Zenon DEF FiveInARow, J, P
<1>7. Append(l, p) \in Seq(AnyPairs)
  BY <1>1, AppendProperties
<1> QED BY <1>4, <1>5, <1>6, <1>7 DEF Begun, Open, L, p

----------------------------------------------------------------------------
(* Numbers that differ by a multiple of what a type can hold.               *)

\* Numbers that differ by a multiple of m.
Congruent(a, b, m) == \E k \in Int : a = b + k * m

\* Congruence is reflexive.
LEMMA CongruentSelf ==
  ASSUME NEW a \in Int, NEW m \in Int
  PROVE  Congruent(a, a, m)
<1>1. a = a + 0 * m /\ 0 \in Int
  OBVIOUS
<1> QED BY <1>1 DEF Congruent

\* Congruence is transitive.
LEMMA CongruentChain ==
  ASSUME NEW a \in Int, NEW b \in Int, NEW c \in Int, NEW m \in Int,
         Congruent(a, b, m), Congruent(b, c, m)
  PROVE  Congruent(a, c, m)
<1>1. PICK k \in Int : a = b + k * m
  BY DEF Congruent
<1>2. PICK j \in Int : b = c + j * m
  BY DEF Congruent
<1>3. (k + j) * m = k * m + j * m /\ k * m \in Int /\ j * m \in Int /\ k + j \in Int
  OBVIOUS
<1>4. a = c + (k + j) * m
  BY <1>1, <1>2, <1>3
<1> QED BY <1>3, <1>4 DEF Congruent

\* They stay so when both are multiplied by x and moved by y.
StayCongruent(a, b, m, x, y) == Congruent(x * a + y, x * b + y, m)

\* Congruence is kept when both are multiplied and moved by the same.
LEMMA CongruentTimes ==
  ASSUME NEW a \in Int, NEW b \in Int, NEW m \in Int, NEW x \in Int, NEW y \in Int,
         Congruent(a, b, m)
  PROVE  StayCongruent(a, b, m, x, y)
<1>1. PICK k \in Int : a = b + k * m
  BY DEF Congruent
<1>2. x * (b + k * m) = x * b + (x * k) * m
  <2>1. ASSUME NEW u \in Int PROVE x * (b + u) = x * b + x * u
    OBVIOUS
  <2>2. x * (k * m) = (x * k) * m /\ k * m \in Int
    OBVIOUS
  <2> QED BY <2>1, <2>2
<1>3. x * k \in Int /\ x * b \in Int /\ (x * k) * m \in Int
  OBVIOUS
<1>4. x * a + y = (x * b + y) + (x * k) * m
  BY <1>1, <1>2, <1>3
<1> QED BY <1>3, <1>4 DEF Congruent, StayCongruent

\* A remainder is congruent to its number.
LEMMA CongruentModulo ==
  ASSUME NEW a \in Int, NEW m \in Nat \ {0}
  PROVE  Congruent(a % m, a, m)
<1>1. a = m * (a \div m) + (a % m) /\ a \div m \in Int /\ a % m \in Int
  OBVIOUS
<1>2. PICK q \in Int : a = m * q + (a % m)
  BY <1>1
<1>3. (-q) * m = -(m * q) /\ m * q \in Int /\ -q \in Int
  OBVIOUS
<1>4. a % m = a + (-q) * m
  BY <1>1, <1>2, <1>3
<1> QED BY <1>3, <1>4 DEF Congruent

\* A summand may be taken to the other side.
LEMMA CongruentShift ==
  ASSUME NEW a \in Int, NEW b \in Int, NEW m \in Int, NEW h \in Int, Congruent(a, b + h, m)
  PROVE  Congruent(a - h, b, m)
<1>1. PICK k \in Int : a = (b + h) + k * m
  BY DEF Congruent
<1>2. k * m \in Int
  OBVIOUS
<1>3. a - h = b + k * m
  BY <1>1, <1>2
<1> QED BY <1>3 DEF Congruent

\* What is divided without a rest.
LEMMA CongruentZero ==
  ASSUME NEW a \in Int, NEW b \in Int, NEW m \in Nat \ {0}
  PROVE  (a - b) % m = 0 <=> Congruent(a, b, m)
<1>1. ASSUME (a - b) % m = 0 PROVE Congruent(a, b, m)
  <2>1. Congruent((a - b) % m, a - b, m)
    BY CongruentModulo
  <2>2. PICK k \in Int : 0 = (a - b) + k * m
    BY <1>1, <2>1 DEF Congruent
  <2>3. (-k) * m = -(k * m) /\ k * m \in Int /\ -k \in Int
    OBVIOUS
  <2>4. a = b + (-k) * m
    BY <2>2, <2>3
  <2> QED BY <2>3, <2>4 DEF Congruent
<1>2. ASSUME Congruent(a, b, m) PROVE (a - b) % m = 0
  <2>1. PICK k \in Int : a = b + k * m
    BY <1>2 DEF Congruent
  <2>2. a - b = k * m
    <3>1. k * m \in Int
      OBVIOUS
    <3> QED BY <2>1, <3>1
  <2>3. (k * m) % m = 0
    <3>1. /\ k * m \in Int /\ (k * m) % m \in 0 .. m - 1
          /\ k * m = m * ((k * m) \div m) + ((k * m) % m) /\ (k * m) \div m \in Int
      <4>1. \A u \in Int : u % m \in 0 .. m - 1 /\ u = m * (u \div m) + (u % m) /\ u \div m \in Int
        OBVIOUS
      <4>2. k * m \in Int
        OBVIOUS
      <4> QED BY <4>1, <4>2
    <3>2. PICK q \in Int, r \in 0 .. m - 1 : k * m = m * q + r /\ (k * m) % m = r
      BY <3>1
    <3>3. (k - q) * m = k * m - m * q /\ k * m \in Int /\ m * q \in Int /\ k - q \in Int
      OBVIOUS
    <3>4. (k - q) * m = r
      BY <3>2, <3>3
    <3>5. ASSUME NEW d \in Int, d * m = r PROVE r = 0
      <4>1. CASE d = 0
        BY <3>5, <4>1
      <4>2. CASE d >= 1
        <5>1. d * m >= m
          BY <4>2
        <5> QED BY <3>5, <5>1
      <4>3. CASE d <= -1
        <5>1. d * m <= -m
          BY <4>3
        <5> QED BY <3>5, <5>1
      <4> QED BY <4>1, <4>2, <4>3
    <3> QED BY <3>2, <3>3, <3>4, <3>5
  <2> QED BY <2>2, <2>3
<1> QED BY <1>1, <1>2

\* Two such numbers less than m apart are one.
LEMMA CongruentUnique ==
  ASSUME NEW a \in Int, NEW b \in Int, NEW c \in Int, NEW m \in Nat \ {0},
         Congruent(a, c, m), Congruent(b, c, m), a - b < m, b - a < m
  PROVE  a = b
<1>1. PICK k \in Int : a = c + k * m
  BY DEF Congruent
<1>2. PICK j \in Int : b = c + j * m
  BY DEF Congruent
<1>3. (k - j) * m = k * m - j * m /\ k * m \in Int /\ j * m \in Int /\ k - j \in Int
  OBVIOUS
<1>4. a - b = (k - j) * m
  BY <1>1, <1>2, <1>3
<1>5. ASSUME NEW d \in Int, a - b = d * m PROVE a = b
  <2>1. CASE d = 0
    BY <1>5, <2>1
  <2>2. CASE d >= 1
    <3>1. d * m >= m
      BY <2>2
    <3> QED BY <1>5, <3>1
  <2>3. CASE d <= -1
    <3>1. d * m <= -m
      BY <2>3
    <3> QED BY <1>5, <3>1
  <2> QED BY <2>1, <2>2, <2>3
<1> QED BY <1>3, <1>4, <1>5

----------------------------------------------------------------------------
(* What is stored of a number.                                             *)

\* What a signed type keeps is congruent.
LEMMA SignedCongruent ==
  ASSUME NEW n \in Int, NEW bits \in {Long, Int32}
  PROVE  Congruent(Signed(n, bits), n, 2^bits)
<1>1. PICK h \in Nat \ {0}, m \in Nat \ {0} : h = 2^(bits - 1) /\ m = 2^bits
  BY PowerTypes
<1>2. n + h \in Int /\ (n + h) % m \in Int
  OBVIOUS
<1>3. Congruent((n + h) % m, n + h, m)
  BY <1>2, CongruentModulo
<1>4. Congruent(((n + h) % m) - h, n, m)
  BY <1>2, <1>3, CongruentShift
<1> QED BY <1>1, <1>4 DEF Signed

\* What an unsigned type keeps is congruent.
LEMMA UnsignedCongruent ==
  ASSUME NEW n \in Int, NEW bits \in {Long, Int32}
  PROVE  Congruent(Unsigned(n, bits), n, 2^bits)
BY CongruentModulo, PowerTypes DEF Unsigned

\* What agrees in all bits of a long agrees in those of an int.
LEMMA LongIsWider ==
  ASSUME NEW a \in Int, NEW b \in Int, Congruent(a, b, 2^Long)
  PROVE  Congruent(a, b, 2^Int32)
<1>1. PICK l \in Nat \ {0}, m \in Nat \ {0} : l = 2^Long /\ m = 2^Int32
  BY PowerTypes
<1>2. l % m = 0
  BY <1>1, PowersAssumption
<1>3. PICK q \in Int : l = q * m
  <2>1. (l - 0) % m = 0
    BY <1>2
  <2>2. Congruent(l, 0, m)
    BY <2>1, CongruentZero
  <2>3. PICK q \in Int : l = 0 + q * m
    BY <2>2 DEF Congruent
  <2> QED BY <2>3
<1>4. PICK k \in Int : a = b + k * l
  BY <1>1 DEF Congruent
<1>5. k * (q * m) = (k * q) * m /\ k * q \in Int
  OBVIOUS
<1>6. a = b + (k * q) * m
  BY <1>3, <1>4, <1>5
<1>7. Congruent(a, b, m)
  BY <1>5, <1>6 DEF Congruent
<1> QED BY <1>1, <1>7

\* What a field keeps is congruent to what was read, in the type of the field.
LEMMA StoredCongruent ==
  ASSUME NEW f \in Fields, IsNum(f), NEW n \in Int
  PROVE  Stored(f, n) \in Int /\ Congruent(Stored(f, n), n, 2^Bits(f))
<1>0. /\ 2^Long \in Nat \ {0} /\ 2^Int32 \in Nat \ {0}
      /\ 2^(Long - 1) \in Nat \ {0} /\ 2^(Int32 - 1) \in Nat \ {0}
  BY PowerTypes
<1> DEFINE s == Signed(n, Long)
<1>1. s \in Int /\ Congruent(s, n, 2^Long)
  BY <1>0, SignedRange, SignedCongruent
<1>2. Congruent(s, n, 2^Int32)
  <2> HIDE DEF s
  <2> QED BY <1>1, LongIsWider
<1>3. CASE Kind[f] = "long"
  BY <1>1, <1>3 DEF Stored, Bits
<1>4. CASE Kind[f] = "int"
  <2> HIDE DEF s
  <2> DEFINE v == Signed(s, Int32)
  <2>1. v \in Int /\ Congruent(v, s, 2^Int32)
    BY <1>0, <1>1, SignedRange, SignedCongruent
  <2> HIDE DEF v
  <2>2. Congruent(v, n, 2^Int32)
    BY <1>0, <1>1, <1>2, <2>1, CongruentChain
  <2>3. Stored(f, n) = v /\ Bits(f) = Int32
    BY <1>4 DEF Stored, Bits, v, s
  <2> QED BY <2>1, <2>2, <2>3
<1>5. CASE Kind[f] = "state"
  <2> HIDE DEF s
  <2> DEFINE v == Unsigned(s, Int32)
  <2>1. v \in Int /\ Congruent(v, s, 2^Int32)
    BY <1>0, <1>1, UnsignedRange, UnsignedCongruent
  <2> HIDE DEF v
  <2>2. Congruent(v, n, 2^Int32)
    BY <1>0, <1>1, <1>2, <2>1, CongruentChain
  <2>3. Stored(f, n) = v /\ Bits(f) = Int32
    BY <1>5 DEF Stored, Bits, v, s
  <2> QED BY <2>1, <2>2, <2>3
<1> QED BY <1>3, <1>4, <1>5 DEF IsNum

----------------------------------------------------------------------------
(* What texts mean.                                                        *)

\* null means what a reset leaves.
LEMMA MeaningOfNull ==
  ASSUME NEW f
  PROVE  Meaning(f, <<Null>>) = Zero(f)
BY DEF Meaning

\* A number that the parser read stands for what the text writes.
LEMMA MeaningOfNumber ==
  ASSUME NEW f \in Fields, IsNum(f), NEW ts \in AnyNumbers, NEW n \in Int,
         Congruent(n, Written(ts), 2^Long), Written(ts) \in Int
  PROVE  ts # <<Null>> => Meaning(f, ts) = Stored(f, n)
<1> DEFINE w == Written(ts)
           v == Stored(f, n)
           m == 2^Bits(f)
           P(x) == x \in TypeOf(f) /\ (x - w) % m = 0
<1>0. /\ m \in Nat \ {0} /\ 2^Long \in Nat \ {0}
      /\ \A x, y \in TypeOf(f) : x \in Int /\ x - y < m
  <2>1. Bits(f) \in {Long, Int32}
    BY DEF Bits
  <2>2. PICK h \in Nat \ {0} : h = 2^(Bits(f) - 1) /\ m = 2 * h
    BY <2>1, PowerTypes
  <2>3. 2^Bits(f) = 2 * h
    BY <2>2
  <2>4. TypeOf(f) = 0 .. (2 * h) - 1 \/ TypeOf(f) = -h .. h - 1
    BY <2>2, <2>3 DEF TypeOf
  <2>5. \A x, y \in TypeOf(f) : x \in Int /\ x - y < 2 * h
    BY <2>4
  <2>6. m \in Nat \ {0} /\ 2^Long \in Nat \ {0}
    BY <2>1, PowerTypes
  <2> QED BY <2>2, <2>5, <2>6
<1>1. v \in TypeOf(f)
  BY StoredFits DEF Fits
<1>2. v \in Int /\ Congruent(v, n, m)
  BY StoredCongruent
<1>3. w \in Int /\ Congruent(n, w, m)
  <2>1. Congruent(n, w, 2^Long) /\ w \in Int
    OBVIOUS
  <2>2. Congruent(n, w, 2^Int32)
    <3> HIDE DEF w
    <3> QED BY <2>1, LongIsWider
  <2> QED BY <2>1, <2>2 DEF Bits
<1>4. Congruent(v, w, m)
  <2> HIDE DEF v, w, m
  <2> QED BY <1>0, <1>2, <1>3, CongruentChain
<1>5. P(v)
  <2> HIDE DEF v, w, m
  <2> QED BY <1>0, <1>1, <1>2, <1>3, <1>4, CongruentZero
<1>6. ASSUME NEW x, P(x) PROVE x = v
  <2> HIDE DEF v, w, m
  <2>1. x \in Int /\ x - v < m /\ v - x < m
    BY <1>0, <1>1, <1>6
  <2>2. Congruent(x, w, m)
    BY <1>0, <1>3, <1>6, <2>1, CongruentZero
  <2> QED BY <1>0, <1>2, <1>3, <1>4, <2>1, <2>2, CongruentUnique
<1>7. (CHOOSE x \in TypeOf(f) : (x - w) % m = 0) = v
  <2> HIDE DEF v, w, m
  <2> QED BY <1>5, <1>6
<1> SUFFICES ASSUME ts # <<Null>> PROVE Meaning(f, ts) = v
  OBVIOUS
<1>8. Kind[f] # "str" /\ Kind[f] # "name"
  BY DEF IsNum
<1>9. Meaning(f, ts) = CHOOSE x \in TypeOf(f) : (x - w) % m = 0
  BY <1>8 DEF Meaning
<1> QED BY <1>7, <1>9

----------------------------------------------------------------------------
(* The lists of pairs that a body may have.                                 *)

\* The lists of length k, given the shorter ones.
ListsStep(F, k) ==
  {<<p>> : p \in PairsOfLength(k)} \cup UNION {Longer(F[k - 1 - n], n) : n \in 2..k - 1}

IsLists(F, m) == F = [k \in 0..m |-> ListsStep(F, k)]

\* What is needed of the shorter ones.
LEMMA ShorterLists ==
  ASSUME NEW k \in Nat, NEW F, NEW H, \A j \in 0 .. k - 1 : F[j] = H[j]
  PROVE  ListsStep(F, k) = ListsStep(H, k)
<1>1. \A n \in 2 .. k - 1 : F[k - 1 - n] = H[k - 1 - n]
  <2>1. \A n \in 2 .. k - 1 : k - 1 - n \in 0 .. k - 1
    OBVIOUS
  <2> QED BY <2>1
<1>2. {Longer(F[k - 1 - n], n) : n \in 2 .. k - 1} = {Longer(H[k - 1 - n], n) : n \in 2 .. k - 1}
  BY <1>1
<1> QED BY <1>2 DEF ListsStep

\* The function of the lists by their length exists.
LEMMA ListsExist ==
  ASSUME NEW m \in Nat
  PROVE  \E F : IsLists(F, m)
<1> DEFINE Has(n) == \E F : IsLists(F, n)
           G == {n \in Nat : Has(n)}
<1>1. 0 \in G
  <2> DEFINE F == [k \in 0 .. 0 |-> ListsStep(<< >>, k)]
  <2>1. ListsStep(<< >>, 0) = ListsStep(F, 0)
    <3>1. \A j \in 0 .. 0 - 1 : << >>[j] = F[j]
      OBVIOUS
    <3> HIDE DEF F
    <3> QED BY <3>1, ShorterLists
  <2>2. F = [k \in 0 .. 0 |-> ListsStep(F, k)]
    <3>1. F = [k \in 0 .. 0 |-> F[k]] /\ \A k \in 0 .. 0 : F[k] = ListsStep(<< >>, k) /\ k = 0
      OBVIOUS
    <3> HIDE DEF F
    <3> QED BY <2>1, <3>1
  <2> HIDE DEF F
  <2> QED BY <2>2 DEF IsLists
<1>2. ASSUME NEW n \in G PROVE n + 1 \in G
  <2>0. n \in Nat /\ Has(n)
    <3> HIDE DEF Has
    <3> QED OBVIOUS
  <2>1. PICK F : IsLists(F, n)
    BY <2>0
  <2> DEFINE H == [k \in 0 .. n + 1 |-> IF k = n + 1 THEN ListsStep(F, n + 1) ELSE F[k]]
  <2>2. \A k \in 0 .. n : H[k] = F[k]
    BY <2>0
  <2>3. ASSUME NEW k \in 0 .. n + 1 PROVE H[k] = ListsStep(H, k)
    <3>1. ListsStep(F, k) = ListsStep(H, k)
      <4>1. k \in Nat /\ \A j \in 0 .. k - 1 : j \in 0 .. n
        BY <2>0
      <4> HIDE DEF H
      <4> QED BY <2>2, <4>1, ShorterLists
    <3>2. CASE k = n + 1
      <4>1. H[k] = ListsStep(F, k)
        BY <3>2
      <4> HIDE DEF H
      <4> QED BY <3>1, <4>1
    <3>3. CASE k \in 0 .. n
      <4>1. F[k] = ListsStep(F, k)
        BY <2>1, <3>3 DEF IsLists
      <4> HIDE DEF H
      <4> QED BY <2>2, <3>1, <3>3, <4>1
    <3>4. k = n + 1 \/ k \in 0 .. n
      BY <2>0
    <3> QED BY <3>2, <3>3, <3>4
  <2>4. H = [k \in 0 .. n + 1 |-> H[k]]
    OBVIOUS
  <2>5. IsLists(H, n + 1)
    <3> HIDE DEF H
    <3> QED BY <2>3, <2>4 DEF IsLists
  <2>6. n + 1 \in Nat /\ Has(n + 1)
    <3> HIDE DEF H
    <3> QED BY <2>0, <2>5
  <2> HIDE DEF Has
  <2> QED BY <2>6
<1>3. G = Nat
  <2> HIDE DEF G
  <2>1. G \in SUBSET Nat
    BY DEF G
  <2> QED BY <1>1, <1>2, <2>1, Induction
<1>4. m \in G
  <2> HIDE DEF G
  <2> QED BY <1>3
<1>5. Has(m)
  <2> HIDE DEF Has
  <2> QED BY <1>4
<1> QED BY <1>5

\* It is what its definition says.
LEMMA ListsAre ==
  \A k \in 0 .. MaxTokens : ListsOf[k] = ListsStep(ListsOf, k)
<1> DEFINE Is(H) ==
      H = [k \in 0..MaxTokens |->
             {<<p>> : p \in PairsOfLength(k)} \cup
             UNION {Longer(H[k - 1 - n], n) : n \in 2..k - 1}]
<1>1. \A H : Is(H) <=> IsLists(H, MaxTokens)
  BY DEF IsLists, ListsStep
<1>2. ListsOf = CHOOSE H : Is(H)
  BY Zenon DEF ListsOf
<1>3. Is(ListsOf)
  <2> HIDE DEF Is
  <2>1. \E H : Is(H)
    BY <1>1, ListsExist, ParserAssumption
  <2> QED BY <1>2, <2>1
<1>4. IsLists(ListsOf, MaxTokens)
  <2> HIDE DEF Is
  <2> QED BY <1>1, <1>3
<1> QED BY <1>4 DEF IsLists

\* The bound on a body leaves out pairs and adds none.
LEMMA PairsAreAny == Pairs \subseteq AnyPairs
<1> SUFFICES ASSUME NEW p \in Pairs PROVE p \in AnyPairs
  OBVIOUS
<1>1. PICK f \in Fields : \E ts \in TextsOf(f) : p = <<f, ts>>
  BY DEF Pairs
<1>2. PICK ts \in TextsOf(f) : p = <<f, ts>>
  BY <1>1
<1>3. ts \in AnyText(f)
  BY BoundedTexts
<1> QED BY <1>2, <1>3 DEF AnyPairs

\* The lists within the bound are lists of pairs.
LEMMA ListTypes ==
  ASSUME NEW l \in Lists
  PROVE  l \in Seq(AnyPairs)
<1> DEFINE Good(k) == k \in 0 .. MaxTokens => ListsOf[k] \subseteq Seq(Pairs)
           G == {m \in Nat : \A k \in 0 .. m : Good(k)}
<1>0. MaxTokens \in Nat
  BY ParserAssumption
<1>1. ASSUME NEW k \in Nat, \A j \in 0 .. k - 1 : Good(j) PROVE Good(k)
  <2> SUFFICES ASSUME k \in 0 .. MaxTokens, NEW s \in ListsOf[k] PROVE s \in Seq(Pairs)
    OBVIOUS
  <2>1. s \in ListsStep(ListsOf, k)
    BY ListsAre
  <2>2. CASE s \in {<<p>> : p \in PairsOfLength(k)}
    <3>1. PICK p \in Pairs : s = <<p>>
      BY <2>2 DEF PairsOfLength
    <3>2. <<p>> \in Seq(Pairs)
      OBVIOUS
    <3> QED BY <3>1, <3>2
  <2>3. CASE s \in UNION {Longer(ListsOf[k - 1 - n], n) : n \in 2..k - 1}
    <3>1. PICK n \in 2 .. k - 1 : s \in Longer(ListsOf[k - 1 - n], n)
      BY <2>3
    <3>2. PICK r \in ListsOf[k - 1 - n], p \in PairsOfLength(n) : s = Append(r, p)
      BY <3>1 DEF Longer
    <3>3. k - 1 - n \in 0 .. k - 1 /\ k - 1 - n \in 0 .. MaxTokens
      BY <1>0
    <3>4. r \in Seq(Pairs) /\ p \in Pairs
      BY <1>1, <3>3 DEF PairsOfLength
    <3> QED BY <3>2, <3>4
  <2> QED BY <2>1, <2>2, <2>3 DEF ListsStep
<1>2. 0 \in G
  <2>1. Good(0)
    <3>1. \A j \in 0 .. 0 - 1 : Good(j)
      OBVIOUS
    <3> HIDE DEF Good
    <3> QED BY <1>1, <3>1
  <2>2. \A k \in 0 .. 0 : k = 0
    OBVIOUS
  <2> HIDE DEF Good
  <2> QED BY <2>1, <2>2
<1>3. ASSUME NEW m \in G PROVE m + 1 \in G
  <2> HIDE DEF Good
  <2>1. m \in Nat /\ \A k \in 0 .. m : Good(k)
    OBVIOUS
  <2>2. Good(m + 1)
    <3>1. m + 1 \in Nat /\ (m + 1) - 1 = m
      BY <2>1
    <3> QED BY <1>1, <2>1, <3>1
  <2>3. \A k \in 0 .. m + 1 : k = m + 1 \/ k \in 0 .. m
    BY <2>1
  <2> QED BY <2>1, <2>2, <2>3
<1>4. G = Nat
  <2> HIDE DEF G
  <2>1. G \in SUBSET Nat
    BY DEF G
  <2> QED BY <1>2, <1>3, <2>1, Induction
<1>5. \A k \in 0 .. MaxTokens : ListsOf[k] \subseteq Seq(Pairs)
  <2>1. MaxTokens \in G
    <3> HIDE DEF G
    <3> QED BY <1>0, <1>4
  <2> QED BY <2>1
<1>6. l = <<>> \/ \E k \in 0 .. MaxTokens - 2 : l \in ListsOf[k]
  BY DEF Lists
<1>7. l \in Seq(Pairs)
  <2>1. \A k \in 0 .. MaxTokens - 2 : k \in 0 .. MaxTokens
    BY <1>0
  <2>2. <<>> \in Seq(Pairs)
    OBVIOUS
  <2> HIDE DEF G
  <2> QED BY <1>5, <1>6, <2>1, <2>2
<1> QED BY <1>7, PairsAreAny, SeqMonotonic

\* How long a body becomes by one pair more.
LEMMA LengthOfMore ==
  ASSUME NEW l \in Seq(AnyPairs), NEW p \in AnyPairs
  PROVE  /\ Len(Joined(l)) \in Nat
         /\ Len(Joined(Append(l, p)))
              = Len(Joined(l)) + (IF l = <<>> THEN 0 ELSE 1) + Len(PairText(p))
         /\ Len(PairText(p)) \in Nat /\ Len(PairText(p)) >= 2
         /\ Len(PairText(p)) <= MaxTokens - 2 => p \in Pairs
<1> DEFINE J == Joined(l)
           P == Separator(l)
           T == PairText(p)
<1>1. J \in Seq(Alphabet) /\ P \in Seq(Alphabet) /\ T \in Seq(Alphabet)
  BY ItemTypes, PairForms
<1>2. Len(P) = IF l = <<>> THEN 0 ELSE 1
  BY TokenTypes, Singles DEF Separator
<1>3. Len(T) = 1 + Len(p[2]) /\ Len(p[2]) >= 1 /\ Len(p[2]) \in Nat
  BY PairForms, LenProperties
<1>4. Joined(Append(l, p)) = J \o (P \o T)
  BY JoinedOfMore
<1> HIDE DEF J, P, T
<1>5. Len(J \o (P \o T)) = Len(J) + (Len(P) + Len(T)) /\ Len(J) \in Nat /\ Len(P) \in Nat
  BY <1>1, ConcatProperties, LenProperties
<1>6. ASSUME Len(T) <= MaxTokens - 2 PROVE p \in Pairs
  <2>1. Len(p[2]) <= MaxTokens - 3 /\ MaxTokens \in Nat
    BY <1>3, <1>6, ParserAssumption
  <2>2. p[1] \in Fields /\ p[2] \in AnyText(p[1]) /\ p = <<p[1], p[2]>>
    BY PairForms
  <2>3. p[2] \in TextsOf(p[1])
    BY <2>1, <2>2, BoundedTexts
  <2> QED BY <2>2, <2>3 DEF Pairs
<1>7. /\ Len(J) \in Nat /\ Len(T) \in Nat /\ Len(T) >= 2
      /\ Len(Joined(Append(l, p))) = Len(J) + (IF l = <<>> THEN 0 ELSE 1) + Len(T)
  <2>1. Len(Joined(Append(l, p))) = Len(J) + (Len(P) + Len(T))
    BY <1>4, <1>5
  <2>2. Len(T) \in Nat /\ Len(T) >= 2 /\ Len(J) \in Nat
    BY <1>3, <1>5
  <2>3. Len(J) + (Len(P) + Len(T)) = Len(J) + (IF l = <<>> THEN 0 ELSE 1) + Len(T)
    BY <1>2, <2>2
  <2> QED BY <2>1, <2>2, <2>3
<1> QED BY <1>6, <1>7 DEF J, T

\* Every list whose body is short enough is one of Lists.
LEMMA ListsHave ==
  ASSUME NEW l \in Seq(AnyPairs), Len(BodyText(l)) <= MaxTokens
  PROVE  l \in Lists
<1>0. MaxTokens \in Nat
  BY ParserAssumption
<1> DEFINE Good(s) == s # <<>> /\ Len(Joined(s)) <= MaxTokens - 2 => s \in ListsOf[Len(Joined(s))]
           G == {s \in Seq(AnyPairs) : Good(s)}
<1>1. << >> \in G
  BY EmptySeq
<1>2. ASSUME NEW s \in G, NEW p \in AnyPairs PROVE Append(s, p) \in G
  <2>0. s \in Seq(AnyPairs) /\ Good(s)
    <3> HIDE DEF Good
    <3> QED OBVIOUS
  <2> DEFINE k == Len(Joined(Append(s, p)))
             n == Len(PairText(p))
  <2>1. /\ Len(Joined(s)) \in Nat /\ n \in Nat /\ n >= 2
        /\ k = Len(Joined(s)) + (IF s = <<>> THEN 0 ELSE 1) + n
        /\ n <= MaxTokens - 2 => p \in Pairs
    BY <2>0, LengthOfMore
  <2>2. Append(s, p) \in Seq(AnyPairs)
    BY <2>0
  <2> SUFFICES ASSUME k <= MaxTokens - 2 PROVE Append(s, p) \in ListsOf[k]
    BY <2>2
  <2> HIDE DEF k, n
  <2>3. k \in 0 .. MaxTokens /\ n <= MaxTokens - 2
    BY <1>0, <2>1
  <2>4. p \in PairsOfLength(n)
    BY <2>1, <2>3 DEF PairsOfLength, n
  <2>5. ListsOf[k] = ListsStep(ListsOf, k)
    BY <2>3, ListsAre
  <2>6. CASE s = <<>>
    <3>1. Len(Joined(<<>>)) = 0
      <4>1. Items(<<>>) = <<>>
        BY DEF Items
      <4> QED BY <4>1, FlattenOfNothing DEF Joined
    <3>2. k = n /\ Append(s, p) = <<p>>
      BY <2>1, <2>6, <3>1
    <3> QED BY <2>4, <2>5, <3>2 DEF ListsStep
  <2>7. CASE s # <<>>
    <3>1. k - 1 - n = Len(Joined(s)) /\ Len(Joined(s)) <= MaxTokens - 2 /\ n \in 2 .. k - 1
      BY <1>0, <2>1, <2>3, <2>7
    <3>2. s \in ListsOf[k - 1 - n]
      BY <2>0, <2>7, <3>1
    <3>3. Append(s, p) \in Longer(ListsOf[k - 1 - n], n)
      BY <2>4, <3>2 DEF Longer
    <3> QED BY <2>5, <3>1, <3>3 DEF ListsStep
  <2> QED BY <2>6, <2>7
<1>3. G = Seq(AnyPairs)
  <2> HIDE DEF G
  <2>1. G \in SUBSET Seq(AnyPairs)
    BY DEF G
  <2> QED BY <1>1, <1>2, <2>1, SequenceInduction
<1>4. Good(l)
  <2> HIDE DEF Good
  <2> QED BY <1>3
<1>5. Len(BodyText(l)) = Len(Joined(l)) + 2 /\ Len(Joined(l)) \in Nat
  <2> DEFINE J == Joined(l)
             L == <<LBrace>>
             R == <<RBrace>>
  <2>1. J \in Seq(Alphabet) /\ L \in Seq(Alphabet) /\ R \in Seq(Alphabet) /\ Len(L) = 1 /\ Len(R) = 1
    BY ItemTypes, TokenTypes, Singles
  <2>2. BodyText(l) = (L \o J) \o R
    BY BodyIs DEF Begun
  <2> HIDE DEF J, L, R
  <2>3. Len((L \o J) \o R) = (Len(L) + Len(J)) + Len(R) /\ Len(J) \in Nat
    <3>1. L \o J \in Seq(Alphabet) /\ Len(L \o J) = Len(L) + Len(J) /\ Len(J) \in Nat
      BY <2>1, ConcatProperties, LenProperties
    <3> DEFINE LJ == L \o J
    <3>2. LJ \in Seq(Alphabet) /\ Len(LJ) = Len(L) + Len(J)
      BY <3>1
    <3> HIDE DEF LJ
    <3>3. Len(LJ \o R) = Len(LJ) + Len(R)
      BY <2>1, <3>2, ConcatProperties
    <3> QED BY <3>1, <3>2, <3>3 DEF LJ
  <2>4. Len(BodyText(l)) = Len(J) + 2 /\ Len(J) \in Nat
    BY <2>1, <2>2, <2>3
  <2> QED BY <2>4 DEF J
<1>6. CASE l = <<>>
  BY <1>6 DEF Lists
<1>7. CASE l # <<>>
  <2>1. Len(Joined(l)) <= MaxTokens - 2 /\ Len(Joined(l)) \in 0 .. MaxTokens - 2
    BY <1>0, <1>5
  <2> DEFINE k == Len(Joined(l))
  <2>2. l \in ListsOf[k] /\ k \in 0 .. MaxTokens - 2
    BY <1>4, <1>7, <2>1
  <2> HIDE DEF k
  <2> QED BY <2>2 DEF Lists
<1> QED BY <1>6, <1>7

----------------------------------------------------------------------------
(* What a list of pairs says when it is one longer.                         *)

\* The last pair with a key, when a pair is added.
LastOf(m, l, p, f) ==
  /\ p[1] = f => LastPair(m, f) = {Len(l) + 1}
  /\ p[1] # f => LastPair(m, f) = LastPair(l, f)
  /\ m[Len(l) + 1] = p
  /\ \A k \in LastPair(l, f) : m[k] = l[k]

\* A pair that is added is the last of its field and no other.
LEMMA LastOfMore ==
  ASSUME NEW l \in Seq(AnyPairs), NEW p \in AnyPairs, NEW f \in Fields
  PROVE  LastOf(Append(l, p), l, p, f)
<1> DEFINE m == Append(l, p)
           n == Len(l)
<1>1. n \in Nat /\ Len(m) = n + 1 /\ m[n + 1] = p /\ \A k \in 1 .. n : m[k] = l[k]
  OBVIOUS
<1>2. /\ LastPair(m, f) = {k \in 1 .. n + 1 : m[k][1] = f /\ \A j \in k + 1 .. n + 1 : m[j][1] # f}
      /\ LastPair(l, f) = {k \in 1 .. n : l[k][1] = f /\ \A j \in k + 1 .. n : l[j][1] # f}
  <2> HIDE DEF m
  <2> QED BY <1>1 DEF LastPair
<1> HIDE DEF m, n
<1>3. ASSUME p[1] = f PROVE LastPair(m, f) = {n + 1}
  <2>1. n + 1 \in LastPair(m, f)
    BY <1>1, <1>2, <1>3
  <2>2. ASSUME NEW k \in LastPair(m, f) PROVE k = n + 1
    <3>1. k \in 1 .. n + 1 /\ \A j \in k + 1 .. n + 1 : m[j][1] # f
      BY <1>2
    <3>2. k # n + 1 => n + 1 \in k + 1 .. n + 1
      BY <1>1, <3>1
    <3> QED BY <1>1, <1>3, <3>1, <3>2
  <2> QED BY <2>1, <2>2
<1>4. ASSUME p[1] # f PROVE LastPair(m, f) = LastPair(l, f)
  <2>1. ASSUME NEW k \in LastPair(m, f) PROVE k \in LastPair(l, f)
    <3>1. k \in 1 .. n + 1 /\ m[k][1] = f /\ \A j \in k + 1 .. n + 1 : m[j][1] # f
      BY <1>2
    <3>2. k \in 1 .. n
      BY <1>1, <1>4, <3>1
    <3>3. \A j \in k + 1 .. n : j \in k + 1 .. n + 1 /\ m[j] = l[j]
      BY <1>1, <3>2
    <3> QED BY <1>1, <1>2, <3>1, <3>2, <3>3
  <2>2. ASSUME NEW k \in LastPair(l, f) PROVE k \in LastPair(m, f)
    <3>1. k \in 1 .. n /\ l[k][1] = f /\ \A j \in k + 1 .. n : l[j][1] # f
      BY <1>2
    <3>2. \A j \in k + 1 .. n + 1 : m[j][1] # f
      <4> SUFFICES ASSUME NEW j \in k + 1 .. n + 1 PROVE m[j][1] # f
        OBVIOUS
      <4>1. CASE j = n + 1
        BY <1>1, <1>4, <4>1
      <4>2. CASE j # n + 1
        <5>1. j \in k + 1 .. n /\ j \in 1 .. n
          BY <1>1, <3>1, <4>2
        <5> QED BY <1>1, <3>1, <5>1
      <4> QED BY <4>1, <4>2
    <3>3. k \in 1 .. n + 1 /\ m[k] = l[k]
      BY <1>1, <3>1
    <3> QED BY <1>2, <3>1, <3>2, <3>3
  <2> QED BY <2>1, <2>2
<1>5. \A k \in LastPair(l, f) : m[k] = l[k]
  BY <1>1, <1>2
<1>6. LastOf(m, l, p, f)
  BY <1>1, <1>3, <1>4, <1>5 DEF LastOf, n
<1> QED BY <1>6 DEF m

\* What a list says with one pair more.
SaysMore(m, l, f, ts) ==
  /\ BodyFields(m) = IF ts = <<Null>> THEN BodyFields(l) \ {f} ELSE BodyFields(l) \cup {f}
  /\ BodyValues(m) = [g \in Fields |-> IF g = f THEN Meaning(f, ts) ELSE BodyValues(l)[g]]

LEMMA SaysOfMore ==
  ASSUME NEW l \in Seq(AnyPairs), NEW f \in Fields, NEW ts \in AnyText(f)
  PROVE  SaysMore(Append(l, <<f, ts>>), l, f, ts)
<1> DEFINE p == <<f, ts>>
           m == Append(l, p)
<1>1. p \in AnyPairs /\ p[1] = f /\ p[2] = ts
  BY DEF AnyPairs
<1> HIDE DEF p
<1>2. /\ LastPair(m, f) = {Len(l) + 1} /\ m[Len(l) + 1] = p
      /\ \A g \in Fields : g # f => LastPair(m, g) = LastPair(l, g)
      /\ \A g \in Fields : \A k \in LastPair(l, g) : m[k] = l[k]
  <2>1. \A g \in Fields : LastOf(m, l, p, g)
    BY <1>1, LastOfMore
  <2> HIDE DEF m
  <2> QED BY <1>1, <2>1 DEF LastOf
<1> HIDE DEF m
<1>3. BodyFields(m) = IF ts = <<Null>> THEN BodyFields(l) \ {f} ELSE BodyFields(l) \cup {f}
  <2>1. f \in BodyFields(m) <=> ts # <<Null>>
    BY <1>1, <1>2 DEF BodyFields
  <2>2. \A g \in Fields : g # f => (g \in BodyFields(m) <=> g \in BodyFields(l))
    <3> SUFFICES ASSUME NEW g \in Fields, g # f PROVE g \in BodyFields(m) <=> g \in BodyFields(l)
      OBVIOUS
    <3>1. LastPair(m, g) = LastPair(l, g) /\ \A k \in LastPair(l, g) : m[k] = l[k]
      BY <1>2
    <3> QED BY <3>1 DEF BodyFields
  <2>3. BodyFields(m) \subseteq Fields /\ BodyFields(l) \subseteq Fields
    BY DEF BodyFields
  <2> QED BY <2>1, <2>2, <2>3
<1>4. ASSUME NEW g \in Fields
      PROVE  BodyValues(m)[g] = IF g = f THEN Meaning(f, ts) ELSE BodyValues(l)[g]
  <2>1. BodyValues(m)[g] = IF LastPair(m, g) = {} THEN Zero(g)
                           ELSE Meaning(g, m[CHOOSE k \in LastPair(m, g) : TRUE][2])
    BY DEF BodyValues
  <2>2. CASE g = f
    <3>1. (CHOOSE k \in LastPair(m, g) : TRUE) = Len(l) + 1
      BY <1>2, <2>2
    <3>2. LastPair(m, g) # {}
      BY <1>2, <2>2
    <3> QED BY <1>1, <1>2, <2>1, <2>2, <3>1, <3>2
  <2>3. CASE g # f
    <3> DEFINE k == CHOOSE x \in LastPair(l, g) : TRUE
    <3>1. BodyValues(l)[g] = IF LastPair(l, g) = {} THEN Zero(g) ELSE Meaning(g, l[k][2])
      BY DEF BodyValues
    <3>2. LastPair(m, g) = LastPair(l, g)
      BY <1>2, <2>3
    <3>3. LastPair(l, g) # {} => m[k] = l[k]
      BY <1>2
    <3>4. BodyValues(m)[g] = IF LastPair(l, g) = {} THEN Zero(g) ELSE Meaning(g, m[k][2])
      BY <2>1, <3>2
    <3> HIDE DEF k
    <3> QED BY <2>3, <3>1, <3>3, <3>4
  <2> QED BY <2>2, <2>3
<1>5. BodyValues(m) = [g \in Fields |-> BodyValues(m)[g]]
  BY DEF BodyValues
<1>6. BodyValues(m) = [g \in Fields |-> IF g = f THEN Meaning(f, ts) ELSE BodyValues(l)[g]]
  BY <1>4, <1>5
<1> QED BY <1>3, <1>6 DEF SaysMore, m, p

\* What the empty list says is what a reset leaves.
LEMMA NothingSaid ==
  BodyFields(<<>>) = {} /\ BodyValues(<<>>) = [f \in Fields |-> Zero(f)]
<1>1. \A f : LastPair(<<>>, f) = {}
  BY DEF LastPair
<1> QED BY <1>1 DEF BodyFields, BodyValues

----------------------------------------------------------------------------
(* The transitions of the automaton, one by one.                            *)

\* What most transitions do.
Stays == UNCHANGED <<scratch, fields, val>>
Into(n) == cs' = <<n>> /\ cs'[1] = n /\ Len(cs') = 1
Inside(n, f) == cs' = <<n, f>> /\ cs'[1] = n /\ cs'[2] = f /\ Len(cs') = 2

\* Between pairs.
StructureStep(t) ==
  /\ Len(cs) = 1 /\ Stays
  /\ \/ cs[1] = "start" /\ t = LBrace /\ Into("first")
     \/ cs[1] \in {"first", "next"} /\ t \in Keys /\ Inside("value", t[2])
     \/ cs[1] \in {"first", "after"} /\ t = RBrace /\ Into("end")
     \/ cs[1] = "after" /\ t = Comma /\ Into("next")
     \/ t \in Spaces /\ cs' = cs

\* Into the value of a field.
BeginStep(f, t) ==
  /\ cs[1] = "value" /\ Len(cs) = 2
  /\ \/ t \in Spaces /\ Stays /\ cs' = cs
     \/ t = Null /\ Stays /\ Inside("null", f)
     \/ /\ Kind[f] = "name" /\ t \in NameTokens /\ Stays
        /\ cs' = <<"named", f, t[2]>> /\ cs'[1] = "named" /\ cs'[2] = f /\ cs'[3] = t[2]
        /\ Len(cs') = 3
     \/ /\ Kind[f] = "str" /\ t = Quote /\ Inside("char", f)
        /\ fields' = fields /\ val' = [val EXCEPT ![f] = <<>>]
     \/ /\ IsNum(f) /\ t \in {Minus, Plus} /\ Inside("reqDigit", f)
        /\ scratch' = [kind |-> "num", sign |-> IF t = Minus THEN -1 ELSE 1, digits |-> 0]
        /\ fields' = fields /\ val' = val
     \/ /\ IsNum(f) /\ t \in DigitTokens /\ Inside("optDigit", f)
        /\ scratch' = [kind |-> "num", sign |-> 1, digits |-> t[2]]
        /\ fields' = fields /\ val' = val

\* Within a number.
DigitStep(f, t) ==
  /\ cs[1] \in {"reqDigit", "optDigit"} /\ Len(cs) = 2 /\ IsNum(f)
  /\ t \in DigitTokens /\ Inside("optDigit", f)
  /\ scratch' = [scratch EXCEPT !.digits = Unsigned(10 * @ + t[2], Long)]
  /\ fields' = fields /\ val' = val

\* A character of a string that has to be kept.
IsCharacter(t) == t \in StringTokens /\ (cs[1] = "char" => t \notin {Quote, Escape})

\* Within a string.
StringStep(f, t) ==
  /\ InString(cs) /\ Len(cs) = 2 /\ Kind[f] = "str"
  /\ \/ cs[1] = "char" /\ t = Quote /\ Stays /\ Inside("string", f)
     \/ cs[1] = "char" /\ t = Escape /\ Stays /\ Inside("escape", f)
     \/ /\ IsCharacter(t) /\ Len(val[f]) < MaxStr /\ Inside("char", f)
        /\ val' = [val EXCEPT ![f] = Append(@, t)]
        /\ scratch' = scratch /\ fields' = fields

\* At the token after a value.
NextPlace(t) ==
  \/ t = Comma /\ Into("next")
  \/ t = RBrace /\ Into("end")
  \/ t \in Spaces /\ Into("after")

\* A negative state.
IsRefused(f) == Kind[f] = "state" /\ scratch.sign < 0

\* Out of a value.
EndStep(f, t) ==
  /\ t \in Enders /\ NextPlace(t) /\ scratch' = scratch
  /\ \/ /\ cs[1] = "null" /\ Len(cs) = 2
        /\ fields' = fields \ {f} /\ val' = [val EXCEPT ![f] = Zero(f)]
     \/ /\ cs[1] = "string" /\ Len(cs) = 2
        /\ fields' = fields \cup {f} /\ val' = [val EXCEPT ![f] = val[f]]
     \/ /\ cs[1] = "named" /\ Len(cs) = 3 /\ cs[3] \in Names /\ Kind[f] = "name"
        /\ fields' = fields \cup {f} /\ val' = [val EXCEPT ![f] = cs[3]]
     \/ /\ cs[1] = "optDigit" /\ Len(cs) = 2 /\ IsNum(f) /\ ~ IsRefused(f)
        /\ fields' = fields \cup {f}
        /\ val' = [val EXCEPT ![f] = Stored(f, scratch.sign * scratch.digits)]

\* What ends in an error.
ErrorStep(t) ==
  /\ cs' = Error /\ Stays
  /\ \/ t \notin Expected(cs)
     \/ InString(cs) /\ IsCharacter(t) /\ Len(val[cs[2]]) >= MaxStr
     \/ cs[1] = "optDigit" /\ t \in Enders /\ IsRefused(cs[2])

\* What it is to be in a state.
LEMMA Gone ==
  /\ \A n : cs' = At(n) => Into(n)
  /\ \A n, f : cs' = In(n, f) => Inside(n, f)
BY DEF At, In, Into, Inside

\* Where a value is left to.
LEMMA Left ==
  ASSUME NEW t \in Enders, cs' = Leave(t)
  PROVE  NextPlace(t)
<1>0. Comma # RBrace /\ Comma \notin Spaces /\ RBrace \notin Spaces
  BY TokenForms
<1>1. CASE t = Comma
  <2>1. Leave(t) = At("next")
    BY <1>0, <1>1 DEF Leave
  <2> QED BY <1>1, <2>1, Gone DEF NextPlace
<1>2. CASE t = RBrace
  <2>1. Leave(t) = At("end")
    BY <1>0, <1>2 DEF Leave, Final
  <2> QED BY <1>2, <2>1, Gone DEF NextPlace
<1>3. CASE t \in Spaces
  <2>1. Leave(t) = At("after")
    BY <1>0, <1>3 DEF Leave
  <2> QED BY <1>3, <2>1, Gone DEF NextPlace
<1> QED BY <1>1, <1>2, <1>3 DEF Enders

\* Which tokens a value may begin with tells the kind of the field.
LEMMA BeginKinds ==
  ASSUME NEW f \in Fields, NEW t \in Begins(f)
  PROVE  /\ t \in NameTokens => Kind[f] = "name"
         /\ t = Quote => Kind[f] = "str"
         /\ t \in {Minus, Plus} \cup DigitTokens => IsNum(f)
         /\ t \in NameTokens \cup {Quote, Minus, Plus} \cup DigitTokens
<1>1. CASE IsNum(f)
  BY <1>1, TokenForms DEF IsNum, Begins
<1>2. CASE Kind[f] = "str"
  BY <1>2, TokenForms DEF IsNum, Begins
<1>3. CASE Kind[f] = "name"
  BY <1>3, TokenForms DEF IsNum, Begins
<1> QED BY <1>1, <1>2, <1>3, KindForms DEF IsNum

\* The transitions between pairs.
LEMMA StructureMoves ==
  ASSUME ParserInv, Len(cs) = 1, NEW t \in Expected(cs), Structure(t)
  PROVE  StructureStep(t)
<1>1. /\ cs[1] \in {"start", "first", "next", "after", "end", "error"}
  BY StateForms DEF ParserInv, TypeOK
<1>2. /\ t = LBrace => cs[1] = "start"
      /\ t \in Keys => cs[1] \in {"first", "next"}
      /\ t = RBrace => cs[1] \in {"first", "after"}
      /\ t = Comma => cs[1] = "after"
  BY <1>1, TokenForms DEF Expected, Enders, InString
<1>3. CASE t = LBrace /\ Goto(At("first"))
  BY <1>2, <1>3, Gone DEF StructureStep, Stays, Goto
<1>4. CASE t \in Keys /\ Goto(In("value", t[2]))
  BY <1>2, <1>4, Gone DEF StructureStep, Stays, Goto
<1>5. CASE t = RBrace /\ Goto(Final)
  BY <1>2, <1>5, Gone DEF StructureStep, Stays, Goto, Final
<1>6. CASE t = Comma /\ Goto(At("next"))
  BY <1>2, <1>6, Gone DEF StructureStep, Stays, Goto
<1>7. CASE t \in Spaces /\ Goto(cs)
  BY <1>7 DEF StructureStep, Stays, Goto
<1> QED BY <1>3, <1>4, <1>5, <1>6, <1>7 DEF Structure

\* The transitions into a value.
LEMMA BeginMoves ==
  ASSUME ParserInv, cs[1] = "value", NEW t \in Expected(cs), NEW f, cs[2] = f,
         BeginValue(f, t)
  PROVE  BeginStep(f, t)
<1>0. f \in Fields /\ Len(cs) = 2
  BY StateForms DEF ParserInv, TypeOK
<1>1. t \in {Null} \cup Spaces \cup Begins(f)
  BY DEF Expected, Begins, InString
<1>2. /\ t \in NameTokens => Kind[f] = "name"
      /\ t = Quote => Kind[f] = "str"
      /\ t \in {Minus, Plus} \cup DigitTokens => IsNum(f)
  <2>1. CASE t \in Begins(f)
    BY <1>0, <2>1, BeginKinds
  <2>2. CASE t \in {Null} \cup Spaces
    BY <2>2, TokenForms
  <2> QED BY <1>1, <2>1, <2>2
<1>3. CASE t \in Spaces /\ Goto(cs)
  BY <1>0, <1>3 DEF BeginStep, Stays, Goto
<1>4. CASE t = Null /\ Goto(In("null", f))
  BY <1>0, <1>4, Gone DEF BeginStep, Stays, Goto
<1>5. CASE t \in NameTokens /\ Goto(<<"named", f, t[2]>>)
  BY <1>0, <1>2, <1>5 DEF BeginStep, Stays, Goto
<1>6. CASE /\ t = Quote
           /\ cs' = In("char", f)
           /\ scratch' = [kind |-> "str", of |-> f]
           /\ val' = [val EXCEPT ![f] = <<>>]
           /\ UNCHANGED fields
  BY <1>0, <1>2, <1>6, Gone DEF BeginStep
<1>7. CASE /\ t \in {Minus, Plus}
           /\ cs' = In("reqDigit", f)
           /\ scratch' = [kind |-> "num", sign |-> IF t = Minus THEN -1 ELSE 1, digits |-> 0]
           /\ UNCHANGED <<fields, val>>
  BY <1>0, <1>2, <1>7, Gone DEF BeginStep
<1>8. CASE /\ t \in DigitTokens
           /\ cs' = In("optDigit", f)
           /\ scratch' = [kind |-> "num", sign |-> 1, digits |-> t[2]]
           /\ UNCHANGED <<fields, val>>
  BY <1>0, <1>2, <1>8, Gone DEF BeginStep
<1> QED BY <1>3, <1>4, <1>5, <1>6, <1>7, <1>8 DEF BeginValue

\* The transitions within a string.
LEMMA StringMoves ==
  ASSUME ParserInv, InString(cs), NEW t \in Expected(cs), NEW f, cs[2] = f,
         Characters(f, t)
  PROVE  StringStep(f, t) \/ ErrorStep(t)
<1>0. /\ f \in Fields /\ Kind[f] = "str" /\ scratch = [kind |-> "str", of |-> f]
      /\ Len(cs) = 2 /\ cs[1] \in {"char", "escape"} /\ scratch.of = f
  BY StateForms DEF ParserInv, TypeOK, ScratchOK, InString
<1>1. t \in StringTokens
  BY DEF Expected, InString
<1>2. ASSUME AddChar(t), cs[1] = "char" => t \notin {Quote, Escape}
      PROVE  StringStep(f, t) \/ ErrorStep(t)
  <2>1. IsCharacter(t)
    BY <1>1, <1>2 DEF IsCharacter
  <2>2. CASE /\ Len(val[f]) < MaxStr
             /\ cs' = In("char", f)
             /\ val' = [val EXCEPT ![f] = Append(@, t)]
             /\ UNCHANGED <<scratch, fields>>
    BY <1>0, <2>1, <2>2, Gone DEF StringStep
  <2>3. CASE Len(val[f]) >= MaxStr /\ Goto(Error)
    BY <1>0, <2>1, <2>3 DEF ErrorStep, Stays, Goto
  <2> QED BY <1>0, <1>2, <2>2, <2>3 DEF AddChar
<1>3. CASE cs[1] = "escape"
  <2>1. AddChar(t)
    BY <1>3 DEF Characters
  <2> QED BY <1>2, <1>3, <2>1
<1>4. CASE cs[1] = "char"
  <2>1. CASE t = Quote
    <3>1. Goto(In("string", f))
      <4>1. t # Escape
        BY <2>1, TokenForms
      <4> QED BY <1>4, <2>1, <4>1 DEF Characters
    <3> QED BY <1>0, <1>4, <2>1, <3>1, Gone DEF StringStep, Stays, Goto
  <2>2. CASE t = Escape
    <3>1. Goto(In("escape", f))
      <4>1. t # Quote
        BY <2>2, TokenForms
      <4> QED BY <1>4, <2>2, <4>1 DEF Characters
    <3> QED BY <1>0, <1>4, <2>2, <3>1, Gone DEF StringStep, Stays, Goto
  <2>3. CASE t \notin {Quote, Escape}
    <3>1. AddChar(t)
      BY <1>4, <2>3 DEF Characters
    <3> QED BY <1>2, <2>3, <3>1
  <2> QED BY <2>1, <2>2, <2>3
<1> QED BY <1>0, <1>3, <1>4

\* The transitions out of a value.
LEMMA EndMoves ==
  ASSUME ParserInv, NEW t \in Enders, Len(cs) # 1, NEW f, cs[2] = f, EndValue(f, t)
  PROVE  EndStep(f, t) \/ ErrorStep(t)
<1>0. /\ f \in Fields /\ cs \in States
      /\ cs[1] \in {"null", "string", "optDigit"} => Len(cs) = 2
      /\ cs[1] = "named" => Len(cs) = 3 /\ cs[3] \in Names /\ Kind[f] = "name"
      /\ cs[1] = "optDigit" => IsNum(f)
  BY StateForms DEF ParserInv, TypeOK, ScratchOK
<1>1. CASE cs[1] = "null" /\ Drop(f, t)
  BY <1>0, <1>1, Left DEF EndStep, Drop
<1>2. CASE cs[1] = "string" /\ Keep(f, val[f], t)
  BY <1>0, <1>2, Left DEF EndStep, Keep
<1>3. CASE cs[1] = "named" /\ Keep(f, cs[3], t)
  BY <1>0, <1>3, Left DEF EndStep, Keep
<1>4. CASE cs[1] = "optDigit" /\ IsRefused(f) /\ Goto(Error)
  BY <1>4 DEF ErrorStep, Goto, Stays
<1>5. CASE /\ cs[1] = "optDigit" /\ ~ IsRefused(f)
           /\ Keep(f, Stored(f, scratch.sign * scratch.digits), t)
  BY <1>0, <1>5, Left DEF EndStep, Keep
<1> QED BY <1>1, <1>2, <1>3, <1>4, <1>5 DEF EndValue, IsRefused

\* A token is taken by one of the transitions or ends in an error.
LEMMA Transitions ==
  ASSUME ParserInv, NEW t, Consume(t)
  PROVE  \/ StructureStep(t)
         \/ ErrorStep(t)
         \/ /\ cs[2] \in Fields /\ Len(cs) # 1
            /\ \/ BeginStep(cs[2], t) \/ DigitStep(cs[2], t)
               \/ StringStep(cs[2], t) \/ EndStep(cs[2], t)
<1>0. cs \in States
  BY DEF ParserInv, TypeOK
<1>1. CASE t \notin Expected(cs)
  BY <1>1 DEF Consume, ErrorStep, Goto, Stays
<1>2. CASE t \in Expected(cs) /\ Len(cs) = 1
  BY <1>2, StructureMoves DEF Consume
<1>3. CASE t \in Expected(cs) /\ Len(cs) # 1
  <2>0. cs[2] \in Fields
    BY <1>0, <1>3, StateForms
  <2>1. CASE cs[1] = "value"
    <3>1. BeginValue(cs[2], t)
      BY <1>3, <2>1 DEF Consume, InString
    <3> QED BY <1>3, <2>0, <2>1, <3>1, BeginMoves
  <2>2. CASE InString(cs)
    <3>1. Characters(cs[2], t)
      BY <1>3, <2>2 DEF Consume, InString
    <3> QED BY <1>3, <2>0, <2>2, <3>1, StringMoves
  <2>3. CASE cs[1] \in {"reqDigit", "optDigit"} /\ t \in DigitTokens
    <3>1. AddDigit(cs[2], t)
      BY <1>3, <2>3 DEF Consume, InString
    <3>2. IsNum(cs[2]) /\ Len(cs) = 2
      BY <1>0, <2>3, StateForms DEF ParserInv, ScratchOK
    <3> QED BY <1>3, <2>0, <2>3, <3>1, <3>2, Gone DEF DigitStep, AddDigit
  <2>4. CASE /\ cs[1] # "value" /\ ~InString(cs)
             /\ ~(cs[1] \in {"reqDigit", "optDigit"} /\ t \in DigitTokens)
    <3>1. EndValue(cs[2], t)
      BY <1>3, <2>4 DEF Consume
    <3>2. t \in Enders
      BY <1>0, <1>3, <2>4, StateForms DEF Expected, InString
    <3> QED BY <1>3, <2>0, <3>1, <3>2, EndMoves
  <2> QED BY <2>1, <2>2, <2>3, <2>4
<1> QED BY <1>1, <1>2, <1>3

----------------------------------------------------------------------------
(* What has been read.                                                     *)

\* The fields and the values are those of the pairs in l; the string that is read
\* has changed its field already.
IsSaid(l, s, fs, vl) ==
  /\ fs = BodyFields(l)
  /\ \A g \in Fields : \/ s[1] \in {"char", "escape", "string"} /\ s[2] = g
                       \/ vl[g] = BodyValues(l)[g]

\* A string up to here, and what it stands for.
CharsSoFar(ts, v) ==
  \E chars \in Seq(CharTexts) :
    /\ Len(chars) = Len(v) /\ Len(v) <= MaxStr
    /\ ts = <<Quote>> \o FlattenSeq(chars)
    /\ Raw(FlattenSeq(chars)) = [out |-> v, esc |-> FALSE]

\* A number up to here, and what scratch has of it.
NumberSoFar(ts, sc, sign, ds) ==
  /\ sign \in Signs /\ ds \in Seq(DigitTokens)
  /\ ts = sign \o ds
  /\ sc.sign = IF sign = <<Minus>> THEN -1 ELSE 1
  /\ Congruent(sc.digits, Number(ts), 2^Long)

\* The text of a value up to here.
ValueSoFar(ts, s, sc, vl) ==
  /\ s[1] = "value" => ts = <<>>
  /\ s[1] = "null" => ts = <<Null>>
  /\ s[1] = "named" => ts = <<Name(s[3])>>
  /\ s[1] = "char" => CharsSoFar(ts, vl[s[2]])
  /\ s[1] = "escape" => \E us \in Seq(Alphabet) :
                          CharsSoFar(us, vl[s[2]]) /\ ts = Append(us, Escape)
  /\ s[1] = "string" => /\ Kind[s[2]] = "str"
                        /\ \E us \in Seq(Alphabet) :
                             CharsSoFar(us, vl[s[2]]) /\ ts = Append(us, Quote)
  /\ s[1] = "reqDigit" => \E sign : NumberSoFar(ts, sc, sign, <<>>)
  /\ s[1] = "optDigit" => \E sign, ds : NumberSoFar(ts, sc, sign, ds) /\ ds # <<>>

\* The text up to here: pairs, and the text of a value.
TextSoFar(l, ts, s, out) ==
  /\ s[1] = "start" => l = <<>> /\ out = <<>>
  /\ s[1] = "first" => l = <<>> /\ out = Open(l)
  /\ s[1] = "next" => l # <<>> /\ out = Open(l)
  /\ s[1] = "after" => l # <<>> /\ out = Begun(l)
  /\ s[1] = "end" => out = BodyText(l)
  /\ Len(s) # 1 => out = Append(Open(l), Key(s[2])) \o ts

\* All of this together.
IsRead(l, ts, s, sc, fs, vl, out) ==
  /\ l \in Seq(AnyPairs) /\ ts \in Seq(Alphabet)
  /\ IsSaid(l, s, fs, vl) /\ TextSoFar(l, ts, s, out) /\ ValueSoFar(ts, s, sc, vl)

\* Unless there is an error, what was fed is pairs and a value that is not complete.
ReadOK ==
  cs # Error =>
    \E l, ts : IsRead(l, ts, cs, scratch, fields, val, Strip(text).out)

\* Strings are where the automaton takes them to be.
PlacesOK ==
  cs # Error => /\ Strip(text).esc <=> cs[1] = "escape"
                /\ Strip(text).str <=> InString(cs)

\* Leaving spaces out makes no text longer.
LengthOK ==
  /\ text \in Seq(Alphabet) /\ Len(text) <= MaxTokens
  /\ Len(Strip(text).out) <= Len(text)

ReadInv == ParserInv /\ LengthOK /\ PlacesOK /\ ReadOK

\* What a token is to the text without spaces: nothing, or a token more.
Kept(t) == Strip(text').out = Append(Strip(text).out, t)
Skipped == Strip(text').out = Strip(text).out

\* A token is skipped only when it is a space outside of a string.
LEMMA StripMoves ==
  ASSUME LengthOK, NEW t \in Alphabet, text' = Append(text, t)
  PROVE  /\ Strip(text).out \in Seq(Alphabet) /\ Strip(text').out \in Seq(Alphabet)
         /\ ~ Strip(text).esc /\ ~ Strip(text).str /\ t \in Spaces =>
              Skipped /\ ~ Strip(text').esc /\ ~ Strip(text').str
         /\ ~ Strip(text).esc /\ ~ Strip(text).str /\ t \notin Spaces =>
              Kept(t) /\ ~ Strip(text').esc /\ (Strip(text').str <=> t = Quote)
         /\ ~ Strip(text).esc /\ Strip(text).str =>
              /\ Kept(t) /\ (Strip(text').esc <=> t = Escape)
              /\ (Strip(text').str <=> t # Quote)
         /\ Strip(text).esc =>
              Kept(t) /\ ~ Strip(text').esc /\ (Strip(text').str <=> Strip(text).str)
         /\ Skipped \/ Kept(t)
<1> DEFINE r == Strip(text)
           q == Strip(Append(text, t))
<1>1. q = StripStep(r, t)
  BY FoldOfMore DEF LengthOK
<1>2. r \in [out : Seq(Alphabet), esc : BOOLEAN, str : BOOLEAN]
  BY FoldResults DEF LengthOK
<1>3. t \in Spaces => t # Quote
  BY TokenForms
<1>4. Append(r.out, t) \in Seq(Alphabet)
  BY <1>2, AppendProperties
<1> HIDE DEF r, q
<1>5. CASE r.esc
  BY <1>1, <1>2, <1>4, <1>5 DEF StripStep, Kept, Skipped, r, q
<1>6. CASE ~ r.esc /\ r.str
  BY <1>1, <1>2, <1>4, <1>6 DEF StripStep, Kept, Skipped, r, q
<1>7. CASE ~ r.esc /\ ~ r.str /\ t \in Spaces
  BY <1>1, <1>2, <1>3, <1>4, <1>7 DEF StripStep, Kept, Skipped, r, q
<1>8. CASE ~ r.esc /\ ~ r.str /\ t \notin Spaces
  <2>1. q = [out |-> Append(r.out, t), esc |-> FALSE, str |-> t = Quote]
    BY <1>1, <1>8 DEF StripStep
  <2>2. q.out = Append(r.out, t) /\ ~ q.esc /\ (q.str <=> t = Quote)
    BY <2>1
  <2> QED BY <1>2, <1>4, <1>8, <2>2 DEF Kept, Skipped, r, q
<1> QED BY <1>5, <1>6, <1>7, <1>8 DEF r

\* The length stays within its bound.
LEMMA LengthKept ==
  ASSUME LengthOK, NEW t \in Alphabet, Len(text) < MaxTokens, text' = Append(text, t)
  PROVE  LengthOK'
<1> DEFINE o == Strip(text).out
<1>1. /\ o \in Seq(Alphabet) /\ (Skipped \/ Kept(t))
  BY StripMoves
<1>2. /\ Append(text, t) \in Seq(Alphabet) /\ Len(Append(text, t)) = Len(text) + 1
      /\ Len(text) \in Nat /\ MaxTokens \in Nat
  BY ParserAssumption, AppendProperties, LenProperties DEF LengthOK
<1>3. Len(Append(o, t)) = Len(o) + 1 /\ Len(o) \in Nat /\ Len(o) <= Len(text)
  BY <1>1, AppendProperties, LenProperties DEF LengthOK
<1>4. Len(Strip(text').out) <= Len(o) + 1
  BY <1>1, <1>3 DEF Kept, Skipped
<1>5. Len(Strip(text').out) \in Nat
  BY StripMoves, LenProperties
<1>6. Len(Strip(text').out) <= Len(text')
  BY <1>2, <1>3, <1>4, <1>5
<1> QED BY <1>2, <1>6 DEF LengthOK

\* The automaton and the text agree on what a string is, token by token.
LEMMA PlacesKept ==
  ASSUME ParserInv, LengthOK, PlacesOK, NEW t \in Alphabet, Consume(t)
  PROVE  /\ PlacesOK'
         /\ ~ InString(cs) /\ t \in Spaces => Skipped
         /\ InString(cs) \/ t \notin Spaces => Kept(t)
<1>0. text' = Append(text, t) /\ cs # Error
  BY DEF Consume
<1>1. /\ Strip(text).esc <=> cs[1] = "escape"
      /\ Strip(text).str <=> InString(cs)
  BY <1>0 DEF PlacesOK
<1>2. \/ cs' = Error
      \/ /\ ~ InString(cs) /\ cs[1] # "escape" /\ cs'[1] # "escape"
         /\ (InString(cs') <=> t = Quote)
      \/ /\ cs[1] = "escape" /\ InString(cs) /\ InString(cs') /\ cs'[1] # "escape"
      \/ /\ cs[1] = "char" /\ InString(cs)
         /\ (cs'[1] = "escape" <=> t = Escape) /\ (InString(cs') <=> t # Quote)
  <2>1. CASE StructureStep(t)
    <3>1. cs[1] \in {"start", "first", "next", "after", "end", "error"}
      BY <2>1, StateForms DEF StructureStep, ParserInv, TypeOK
    <3> QED BY <2>1, <3>1, TokenForms DEF StructureStep, InString, Into, Inside
  <2>2. CASE ErrorStep(t)
    BY <2>2 DEF ErrorStep
  <2>3. ASSUME NEW f, BeginStep(f, t) PROVE <1>2!2
    BY <2>3, TokenForms DEF BeginStep, InString, Into, Inside
  <2>4. ASSUME NEW f, DigitStep(f, t) PROVE <1>2!2
    BY <2>4, TokenForms DEF DigitStep, InString, Into, Inside
  <2>5. ASSUME NEW f, StringStep(f, t) PROVE <1>2!2 \/ <1>2!3 \/ <1>2!4
    BY <2>5, TokenForms DEF StringStep, InString, Inside, IsCharacter
  <2>6. ASSUME NEW f, EndStep(f, t) PROVE <1>2!2
    BY <2>6, TokenForms DEF EndStep, InString, NextPlace, Into, Enders
  <2> QED BY <2>1, <2>2, <2>3, <2>4, <2>5, <2>6, Transitions
<1>3. CASE cs' = Error
  BY <1>0, <1>1, <1>3, StripMoves DEF PlacesOK, InString
<1>4. CASE cs' # Error /\ <1>2!2
  <2>1. t \in Spaces => t # Quote
    BY TokenForms
  <2> QED BY <1>0, <1>1, <1>4, <2>1, StripMoves DEF PlacesOK, InString
<1>5. CASE cs' # Error /\ <1>2!3
  BY <1>0, <1>1, <1>5, StripMoves DEF PlacesOK, InString
<1>6. CASE cs' # Error /\ <1>2!4
  BY <1>0, <1>1, <1>6, StripMoves DEF PlacesOK, InString
<1> QED BY <1>2, <1>3, <1>4, <1>5, <1>6

----------------------------------------------------------------------------
(* The text, one token longer.                                              *)

\* A token behind two texts is behind the second of them.
IsBehind(a, b, t) == Append(a \o b, t) = a \o Append(b, t)

LEMMA AppendInside ==
  ASSUME NEW S, NEW a \in Seq(S), NEW b \in Seq(S), NEW t \in S
  PROVE  IsBehind(a, b, t)
<1> DEFINE one == <<t>>
<1>1. one \in Seq(S) /\ a \o b \in Seq(S)
  BY ConcatProperties
<1>2. Append(a \o b, t) = (a \o b) \o one /\ Append(b, t) = b \o one
  BY <1>1, AppendIsConcat
<1> HIDE DEF one
<1>3. ThreeInARow(a, b, one)
  BY <1>1, Associative
<1> QED BY <1>2, <1>3 DEF IsBehind, ThreeInARow

\* A body, by its last token.
LEMMA Layout ==
  ASSUME NEW l \in Seq(AnyPairs)
  PROVE  /\ BodyText(l) = Append(Begun(l), RBrace)
         /\ l = <<>> => Open(l) = Begun(l)
         /\ l = <<>> => Append(<<>>, LBrace) = Open(l)
         /\ l # <<>> => Open(l) = Append(Begun(l), Comma)
<1> DEFINE B == Begun(l)
           E == << >>
           L == <<LBrace>>
           C == <<Comma>>
           R == <<RBrace>>
<1>1. B \in Seq(Alphabet) /\ {E, L, C, R} \subseteq Seq(Alphabet)
  BY ItemTypes, TokenTypes
<1>2. Append(B, RBrace) = B \o R /\ Append(B, Comma) = B \o C /\ Append(E, LBrace) = L
  <2>1. RBrace \in Alphabet /\ Comma \in Alphabet
    BY TokenTypes
  <2> HIDE DEF B
  <2>2. Append(B, RBrace) = B \o R /\ Append(B, Comma) = B \o C
    BY <1>1, <2>1, AppendIsConcat
  <2>3. Append(E, LBrace) = L
    OBVIOUS
  <2> QED BY <2>2, <2>3
<1>3. B \o E = B /\ L \o E = L
  BY <1>1, ConcatEmptySeq
<1>4. l = <<>> => Joined(l) = E
  BY FlattenOfNothing DEF Joined, Items
<1>5. BodyText(l) = B \o R
  BY BodyIs
<1>6. /\ l = <<>> => Open(l) = B \o E
      /\ l # <<>> => Open(l) = B \o C
  BY DEF Open, Separator
<1>7. l = <<>> => B = L \o E
  BY <1>4 DEF Begun
<1> HIDE DEF B, E, L, C, R
<1> QED BY <1>2, <1>3, <1>5, <1>6, <1>7 DEF B, E

\* One token more of a value.
Heading(l, f) == Append(Open(l), Key(f))

\* A body up to a key is a text.
LEMMA HeadingTypes ==
  ASSUME NEW l \in Seq(AnyPairs), NEW f \in Fields
  PROVE  /\ Heading(l, f) \in Seq(Alphabet) /\ Heading(l, f) = Append(Open(l), Key(f))
         /\ Heading(l, f) \o <<>> = Heading(l, f)
         /\ \A ts \in Seq(Alphabet), t \in Alphabet :
              Append(Heading(l, f) \o ts, t) = Heading(l, f) \o Append(ts, t)
<1>1. Heading(l, f) \in Seq(Alphabet) /\ Heading(l, f) = Append(Open(l), Key(f))
  BY ItemTypes, TokenTypes, AppendProperties DEF Heading
<1>2. ASSUME NEW h \in Seq(Alphabet), NEW ts \in Seq(Alphabet), NEW t \in Alphabet
      PROVE  Append(h \o ts, t) = h \o Append(ts, t)
  <2>1. IsBehind(h, ts, t)
    BY AppendInside
  <2> QED BY <2>1 DEF IsBehind
<1>3. \A h \in Seq(Alphabet) : h \o <<>> = h
  BY ConcatEmptySeq
<1> QED BY <1>1, <1>2, <1>3

----------------------------------------------------------------------------
(* Strings and numbers, one token longer.                                   *)

\* A character more, as it is or behind an escape.
LEMMA CharsMore ==
  ASSUME NEW ts \in Seq(Alphabet), NEW v \in Seq(StringTokens), CharsSoFar(ts, v),
         Len(v) < MaxStr, NEW t \in StringTokens
  PROVE  /\ t \notin {Quote, Escape} => CharsSoFar(Append(ts, t), Append(v, t))
         /\ CharsSoFar(Append(Append(ts, Escape), t), Append(v, t))
<1>1. PICK chars \in Seq(CharTexts) :
        /\ Len(chars) = Len(v) /\ Len(v) <= MaxStr
        /\ ts = <<Quote>> \o FlattenSeq(chars)
        /\ Raw(FlattenSeq(chars)) = [out |-> v, esc |-> FALSE]
  BY DEF CharsSoFar
<1> DEFINE w == FlattenSeq(chars)
           q == <<Quote>>
           one == <<t>>
           two == <<Escape, t>>
           v2 == Append(v, t)
<1>2. /\ w \in Seq(Alphabet) /\ q \in Seq(Alphabet) /\ one \in Seq(Alphabet)
      /\ two \in Seq(Alphabet) /\ chars \in Seq(Seq(Alphabet))
      /\ t \in Alphabet /\ Escape \in Alphabet
  BY CharTextTypes, TokenTypes
<1>3. Len(v2) = Len(v) + 1 /\ Len(v) \in Nat /\ Len(v2) <= MaxStr
  BY ConstantTypes
<1>4. two \in CharTexts /\ (t \notin {Quote, Escape} => one \in CharTexts)
  BY DEF CharTexts, StringTokens
<1>5. /\ Append(w, t) = w \o one
      /\ Append(Append(w, Escape), t) = w \o two
  <2>1. Append(w, t) = w \o one
    BY <1>2, AppendIsConcat
  <2>2. two = Append(<<Escape>>, t) /\ <<Escape>> \in Seq(Alphabet)
    BY <1>2
  <2>3. Append(w, Escape) = w \o <<Escape>>
    BY <1>2, AppendIsConcat
  <2>4. Append(w \o <<Escape>>, t) = w \o Append(<<Escape>>, t)
    <3> DEFINE esc == <<Escape>>
    <3> HIDE DEF esc
    <3>1. IsBehind(w, esc, t)
      BY <1>2, <2>2, AppendInside DEF esc
    <3> QED BY <3>1 DEF IsBehind, esc
  <2> QED BY <2>1, <2>2, <2>3, <2>4
<1>6. Append(w, Escape) \in Seq(Alphabet) /\ Append(ts, Escape) \in Seq(Alphabet)
  BY <1>2, AppendProperties
<1>7. /\ Append(ts, t) = q \o Append(w, t)
      /\ Append(Append(ts, Escape), t) = q \o Append(Append(w, Escape), t)
  <2>1. ASSUME NEW u \in Alphabet PROVE Append(q \o w, u) = q \o Append(w, u)
    <3>1. IsBehind(q, w, u)
      BY <1>2, AppendInside
    <3> QED BY <3>1 DEF IsBehind
  <2>2. ASSUME NEW u \in Seq(Alphabet) PROVE Append(q \o u, t) = q \o Append(u, t)
    <3>1. IsBehind(q, u, t)
      BY <1>2, AppendInside
    <3> QED BY <3>1 DEF IsBehind
  <2>3. ts = q \o w
    BY <1>1
  <2> HIDE DEF q, w
  <2> QED BY <1>2, <1>6, <2>1, <2>2, <2>3
<1>8. /\ FlattenSeq(Append(chars, one)) = w \o one
      /\ FlattenSeq(Append(chars, two)) = w \o two
  BY <1>2, FlattenOfMore
<1>9. /\ Raw(Append(w, t)) = RawStep(Raw(w), t)
      /\ Raw(Append(w, Escape)) = RawStep(Raw(w), Escape)
      /\ Raw(Append(Append(w, Escape), t)) = RawStep(Raw(Append(w, Escape)), t)
  BY <1>2, <1>6, FoldOfMore
<1>10. /\ t # Escape => Raw(Append(w, t)) = [out |-> v2, esc |-> FALSE]
       /\ Raw(Append(Append(w, Escape), t)) = [out |-> v2, esc |-> FALSE]
  <2>1. Raw(w) = [out |-> v, esc |-> FALSE]
    BY <1>1
  <2>2. t # Escape => RawStep(Raw(w), t) = [out |-> v2, esc |-> FALSE]
    BY <2>1 DEF RawStep
  <2>3. RawStep(Raw(w), Escape) = [out |-> v, esc |-> TRUE]
    <3> DEFINE r == [out |-> v, esc |-> FALSE]
    <3>1. ~ r.esc /\ [r EXCEPT !.esc = TRUE] = [out |-> v, esc |-> TRUE]
      <4>1. \A a : [r EXCEPT !.esc = a] = [out |-> v, esc |-> a]
        OBVIOUS
      <4> QED BY <4>1
    <3> HIDE DEF r
    <3>2. RawStep(r, Escape) = [r EXCEPT !.esc = TRUE]
      BY <3>1 DEF RawStep
    <3> QED BY <2>1, <3>1, <3>2 DEF r
  <2>4. RawStep([out |-> v, esc |-> TRUE], t) = [out |-> v2, esc |-> FALSE]
    BY DEF RawStep
  <2> QED BY <1>9, <2>2, <2>3, <2>4
<1> DEFINE c1 == Append(chars, one)
           c2 == Append(chars, two)
<1>11. /\ c2 \in Seq(CharTexts) /\ Len(c2) = Len(v2)
       /\ t \notin {Quote, Escape} => c1 \in Seq(CharTexts) /\ Len(c1) = Len(v2)
  BY <1>1, <1>3, <1>4
<1>12. /\ FlattenSeq(c2) = Append(Append(w, Escape), t)
       /\ FlattenSeq(c1) = Append(w, t)
  BY <1>5, <1>8
<1> HIDE DEF c1, c2, one, two, v2, w
<1>13. CharsSoFar(Append(Append(ts, Escape), t), v2)
  BY <1>3, <1>7, <1>10, <1>11, <1>12 DEF CharsSoFar, q
<1>14. ASSUME t \notin {Quote, Escape} PROVE CharsSoFar(Append(ts, t), v2)
  BY <1>3, <1>7, <1>10, <1>11, <1>12, <1>14 DEF CharsSoFar, q
<1> QED BY <1>13, <1>14 DEF v2

\* A string begins.
LEMMA CharsBegin == CharsSoFar(<<Quote>>, <<>>)
<1> DEFINE E == << >>
           q == <<Quote>>
<1>1. E \in Seq(CharTexts) /\ Len(E) = 0 /\ 0 <= MaxStr
  BY ConstantTypes
<1>2. FlattenSeq(E) = E /\ Raw(E) = [out |-> E, esc |-> FALSE]
  BY FlattenOfNothing, FoldOfNothing DEF RawBase
<1>3. q \o E = q /\ q \in Seq(Alphabet)
  BY TokenTypes, ConcatEmptySeq
<1> HIDE DEF E, q
<1>4. CharsSoFar(q, E)
  BY <1>1, <1>2, <1>3 DEF CharsSoFar, q
<1> QED BY <1>4 DEF E, q

\* A string ends, and stands for what was kept.
LEMMA StringEnds ==
  ASSUME NEW us \in Seq(Alphabet), NEW v, CharsSoFar(us, v)
  PROVE  /\ Append(us, Quote) \in StringTexts /\ Append(us, Quote) # <<Null>>
         /\ Unescaped(Append(us, Quote)) = v
<1>1. PICK chars \in Seq(CharTexts) :
        /\ Len(chars) = Len(v) /\ Len(v) <= MaxStr
        /\ us = <<Quote>> \o FlattenSeq(chars)
        /\ Raw(FlattenSeq(chars)) = [out |-> v, esc |-> FALSE]
  BY DEF CharsSoFar
<1> DEFINE w == FlattenSeq(chars)
           q == <<Quote>>
           ts == Append(us, Quote)
<1>2. w \in Seq(Alphabet) /\ q \in Seq(Alphabet) /\ Quote \in Alphabet
  BY CharTextTypes, TokenTypes
<1>3. ts = us \o q
  BY <1>2, AppendIsConcat
<1>4. ts \in StringTexts
  BY <1>1, <1>3, StringForms
<1>5. Len(us) = 1 + Len(w) /\ Len(w) \in Nat /\ \A i \in 1 .. Len(w) : us[i + 1] = w[i]
  <2> HIDE DEF w
  <2>1. us = <<Quote>> \o w /\ w \in Seq(Alphabet)
    BY <1>1, <1>2 DEF w
  <2> QED BY <2>1
<1>6. Len(ts) = Len(us) + 1 /\ \A i \in 1 .. Len(us) : ts[i] = us[i]
  BY AppendProperties, LenProperties
<1> HIDE DEF w, ts
<1>7. SubSeq(ts, 2, Len(ts) - 1) = w
  <2>1. Len(ts) - 1 = Len(w) + 1 /\ \A i \in 1 .. Len(w) : ts[i + 1] = w[i]
    BY <1>5, <1>6
  <2>2. \A i \in 2 .. Len(w) + 1 : ts[i] \in Alphabet
    <3>1. ASSUME NEW i \in 2 .. Len(w) + 1 PROVE ts[i] \in Alphabet
      <4>1. PICK n \in 1 .. Len(w) : i = n + 1
        <5>1. i - 1 \in 1 .. Len(w) /\ i = (i - 1) + 1
          BY <1>5
        <5> QED BY <5>1
      <4> QED BY <1>2, <2>1, <4>1
    <3> QED BY <3>1
  <2> DEFINE k == Len(w) + 1
             u == SubSeq(ts, 2, k)
  <2>3. k \in Int /\ 2 \in Int /\ \A i \in 2 .. k : ts[i] \in Alphabet
    BY <1>5, <2>2
  <2> HIDE DEF k
  <2>4. /\ u \in Seq(Alphabet) /\ Len(u) = IF 2 <= k THEN k - 2 + 1 ELSE 0
        /\ \A i \in 1 .. k - 2 + 1 : u[i] = ts[2 + i - 1]
    BY <2>3, SubSeqProperties
  <2> HIDE DEF u
  <2>5. /\ Len(u) = Len(w) /\ \A i \in 1 .. Len(w) : u[i] = w[i]
    BY <1>5, <2>1, <2>4 DEF k
  <2>6. u = w
    BY <1>2, <2>4, <2>5, SeqEqual
  <2> QED BY <2>1, <2>6 DEF u, k
<1>8. Unescaped(ts) = v
  <2>1. Unescaped(ts) = Raw(SubSeq(ts, 2, Len(ts) - 1)).out
    BY UnescapedIs
  <2>2. Raw(w).out = v
    BY <1>1 DEF w
  <2> QED BY <1>7, <2>1, <2>2
<1>9. ts # <<Null>>
  BY <1>5, <1>6
<1> QED BY <1>4, <1>8, <1>9 DEF ts

\* What scratch is within a number.
NumberScratch == [kind : {"num"}, sign : {-1, 1}, digits : Nat]

\* One digit more.
LEMMA NumberMore ==
  ASSUME NEW ts \in Seq(Alphabet), NEW sc \in NumberScratch, NEW sign, NEW ds,
         NumberSoFar(ts, sc, sign, ds), NEW t \in DigitTokens
  PROVE  /\ NumberSoFar(Append(ts, t), [sc EXCEPT !.digits = Unsigned(10 * @ + t[2], Long)],
                        sign, Append(ds, t))
         /\ Append(ds, t) # <<>>
<1> DEFINE d == sc.digits
           e == Unsigned(10 * d + t[2], Long)
           sc2 == [sc EXCEPT !.digits = e]
           n == Number(ts)
           us == Append(ts, t)
           es == Append(ds, t)
           m == 2^Long
<1>1. /\ sign \in Signs /\ ds \in Seq(DigitTokens) /\ ts = sign \o ds
      /\ sc.sign = IF sign = <<Minus>> THEN -1 ELSE 1
      /\ Congruent(d, n, m)
  BY DEF NumberSoFar
<1>2. d \in Int /\ t[2] \in Int /\ t \in Alphabet /\ m \in Int
  <2>1. d \in Int
    BY DEF NumberScratch
  <2>2. t[2] \in Int
    BY TokenForms
  <2>3. t \in Alphabet
    BY TokenTypes
  <2>4. m \in Int
    BY PowerTypes
  <2> QED BY <2>1, <2>2, <2>3, <2>4
<1>3. n \in Int /\ Number(us) = 10 * n + t[2]
  BY <1>2, FoldResults, FoldOfMore DEF NumberStep
<1> HIDE DEF n, m
<1>4. 10 * d + t[2] \in Int /\ 10 * n + t[2] \in Int
  BY <1>2, <1>3
<1>5. e \in Int /\ Congruent(e, 10 * d + t[2], m)
  BY <1>4, UnsignedRange, UnsignedCongruent, PowerTypes DEF m
<1>6. Congruent(10 * d + t[2], 10 * n + t[2], m)
  <2> DEFINE x == 10
             y == t[2]
  <2>1. x \in Int /\ y \in Int
    BY <1>2
  <2> HIDE DEF x, y
  <2>2. StayCongruent(d, n, m, x, y)
    BY <1>1, <1>2, <1>3, <2>1, CongruentTimes
  <2> QED BY <2>2 DEF StayCongruent, x, y
<1>7. Congruent(e, Number(us), m)
  <2> DEFINE x == 10 * d + t[2]
             y == 10 * n + t[2]
  <2>1. /\ x \in Int /\ y \in Int /\ Congruent(e, x, m) /\ Congruent(x, y, m)
        /\ Number(us) = y
    BY <1>3, <1>4, <1>5, <1>6
  <2> HIDE DEF x, y, e, us
  <2> QED BY <1>2, <1>5, <2>1, CongruentChain
<1>8. es \in Seq(DigitTokens) /\ es # <<>>
  BY <1>1
<1>9. us = sign \o es
  <2>1. sign \in Seq(Alphabet) /\ ds \in Seq(Alphabet)
    BY <1>1, SignTypes, TokenTypes, SeqMonotonic
  <2> DEFINE one == <<t>>
  <2>2. one \in Seq(Alphabet) /\ us = ts \o one /\ es = ds \o one
    <3>1. one \in Seq(Alphabet)
      BY <1>2
    <3>2. us = ts \o one
      BY <1>2, AppendIsConcat
    <3>3. es = ds \o one
      BY <1>2, <2>1, AppendIsConcat
    <3> QED BY <3>1, <3>2, <3>3
  <2> HIDE DEF one, us, es
  <2>3. ThreeInARow(sign, ds, one)
    BY <2>1, <2>2, Associative
  <2> QED BY <1>1, <2>2, <2>3 DEF ThreeInARow
<1>10. sc2.sign = sc.sign /\ sc2.digits = e
  BY DEF NumberScratch
<1> HIDE DEF e, us, es, sc2
<1>11. NumberSoFar(us, sc2, sign, es)
  BY <1>1, <1>7, <1>8, <1>9, <1>10 DEF NumberSoFar, m
<1> QED BY <1>8, <1>11 DEF us, sc2, es, e, d

\* A sign or a first digit.
LEMMA NumberBegins ==
  ASSUME NEW t \in Alphabet
  PROVE  /\ t \in {Minus, Plus} =>
              NumberSoFar(<<t>>,
                [kind |-> "num", sign |-> IF t = Minus THEN -1 ELSE 1, digits |-> 0],
                <<t>>, <<>>)
         /\ t \in DigitTokens =>
              NumberSoFar(<<t>>, [kind |-> "num", sign |-> 1, digits |-> t[2]],
                <<>>, <<t>>)
<1> DEFINE E == << >>
           one == <<t>>
<1>1. /\ E \in Seq(Alphabet) /\ one \in Seq(Alphabet) /\ one = Append(E, t)
      /\ E \in Seq(DigitTokens) /\ one \o E = one /\ E \o one = one
      /\ t \in DigitTokens => one \in Seq(DigitTokens)
      /\ E # <<Minus>> /\ (one = <<Minus>> <=> t = Minus)
  OBVIOUS
<1>2. Number(one) = IF t \in DigitTokens THEN 10 * 0 + t[2] ELSE 0
  <2>1. Number(Append(E, t)) = NumberStep(Number(E), t)
    BY <1>1, FoldOfMore
  <2> QED BY <1>1, <2>1, FoldOfNothing DEF NumberStep
<1>3. E \in Signs /\ (t \in {Minus, Plus} => one \in Signs)
  BY DEF Signs
<1>4. 2^Long \in Int
  BY PowerTypes
<1> HIDE DEF E, one
<1>5. ASSUME t \in {Minus, Plus}
      PROVE  NumberSoFar(one,
               [kind |-> "num", sign |-> IF t = Minus THEN -1 ELSE 1, digits |-> 0], one, E)
  <2>1. t \notin DigitTokens
    BY <1>5, TokenForms
  <2>2. Congruent(0, Number(one), 2^Long)
    BY <1>2, <1>4, <2>1, CongruentSelf
  <2> QED BY <1>1, <1>3, <1>5, <2>2 DEF NumberSoFar
<1>6. ASSUME t \in DigitTokens
      PROVE  NumberSoFar(one, [kind |-> "num", sign |-> 1, digits |-> t[2]], E, one)
  <2>1. t[2] \in Int /\ 10 * 0 + t[2] = t[2]
    BY <1>6, TokenForms
  <2>2. Congruent(t[2], Number(one), 2^Long)
    BY <1>2, <1>4, <1>6, <2>1, CongruentSelf
  <2> QED BY <1>1, <1>3, <1>6, <2>2 DEF NumberSoFar
<1> QED BY <1>5, <1>6 DEF E, one

\* A number ends, and what is stored is what its text means.
LEMMA NumberEnds ==
  ASSUME NEW f \in Fields, IsNum(f), NEW ts \in Seq(Alphabet), NEW sc \in NumberScratch,
         NEW sign, NEW ds, NumberSoFar(ts, sc, sign, ds), ds # <<>>,
         ~ (Kind[f] = "state" /\ sc.sign < 0)
  PROVE  /\ ts \in AnyText(f) /\ ts # <<Null>>
         /\ Meaning(f, ts) = Stored(f, sc.sign * sc.digits)
<1>1. /\ sign \in Signs /\ ds \in Seq(DigitTokens) /\ ts = sign \o ds
      /\ sc.sign = IF sign = <<Minus>> THEN -1 ELSE 1
      /\ Congruent(sc.digits, Number(ts), 2^Long)
  BY DEF NumberSoFar
<1>2. /\ sc.sign \in {-1, 1} /\ sc.sign \in Int /\ sc.digits \in Int /\ Number(ts) \in Int
      /\ 2^Long \in Int
  BY FoldResults, PowerTypes DEF NumberScratch
<1>3. ts[1] = IF sign = <<>> THEN ds[1] ELSE sign[1]
  BY <1>1 DEF Signs
<1>4. ds[1] \in DigitTokens
  BY <1>1
<1>5. (ts[1] = Minus <=> sign = <<Minus>>) /\ ts[1] # Null
  <2>1. ds[1] # Minus /\ ds[1] # Null /\ Minus # Null /\ Plus # Null /\ Plus # Minus
    BY <1>4, TokenForms
  <2>2. CASE sign = <<>>
    BY <1>3, <2>1, <2>2
  <2>3. CASE sign = <<Minus>>
    BY <1>3, <2>1, <2>3
  <2>4. CASE sign = <<Plus>>
    BY <1>3, <2>1, <2>4
  <2> QED BY <1>1, <2>2, <2>3, <2>4 DEF Signs
<1>6. ts \in AnyNumbers /\ ts # <<Null>>
  <2>1. ds \in Seq(DigitTokens) \ {<<>>}
    BY <1>1
  <2>2. ts \in AnyNumbers
    BY <1>1, <2>1 DEF AnyNumbers
  <2> QED BY <1>5, <2>2
<1>7. ts \in AnyText(f)
  <2>1. Kind[f] = "state" => ts[1] # Minus
    BY <1>1, <1>5
  <2> QED BY <1>6, <2>1, TextForms DEF IsNum
<1>8. Written(ts) = sc.sign * Number(ts)
  BY <1>1, <1>5, WrittenIs
<1>9. Congruent(sc.sign * sc.digits, Written(ts), 2^Long) /\ Written(ts) \in Int
  <2> DEFINE x == sc.sign
             a == sc.digits
             b == Number(ts)
             m == 2^Long
  <2>1. x \in Int /\ a \in Int /\ b \in Int /\ m \in Int /\ Congruent(a, b, m)
    BY <1>1, <1>2
  <2> HIDE DEF x, a, b, m
  <2>2. Congruent(x * a + 0, x * b + 0, m)
    <3>1. StayCongruent(a, b, m, x, 0)
      BY <2>1, CongruentTimes
    <3> QED BY <3>1 DEF StayCongruent
  <2>3. x * a + 0 = x * a /\ x * b + 0 = x * b /\ x * b \in Int
    BY <2>1
  <2>4. Congruent(x * a, x * b, m) /\ x * b \in Int
    BY <2>2, <2>3
  <2> QED BY <1>8, <2>4 DEF x, a, b, m
<1> DEFINE n == sc.sign * sc.digits
<1>10. n \in Int
  BY <1>2
<1> HIDE DEF n
<1>11. Meaning(f, ts) = Stored(f, n)
  BY <1>6, <1>9, <1>10, MeaningOfNumber DEF n
<1> QED BY <1>6, <1>7, <1>11 DEF n

----------------------------------------------------------------------------
(* Every step keeps what is known of the text.                              *)

\* What a token that is fed does to the text.
LEMMA TokenRead ==
  ASSUME ReadInv, NEW t \in Alphabet, Consume(t)
  PROVE  /\ ~ InString(cs) /\ t \in Spaces => Skipped
         /\ InString(cs) \/ t \notin Spaces => Kept(t)
         /\ \E l, ts : IsRead(l, ts, cs, scratch, fields, val, Strip(text).out)
         /\ cs \in States
BY PlacesKept DEF ReadInv, ReadOK, Consume, ParserInv, TypeOK

\* Between pairs, what was read stays a list of pairs.
LEMMA StructureReads ==
  ASSUME ReadInv, NEW t \in Alphabet, Consume(t), StructureStep(t)
  PROVE  ReadOK'
<1>1. PICK l, ts : IsRead(l, ts, cs, scratch, fields, val, Strip(text).out)
  BY TokenRead
<1>2. /\ cs[1] \in {"start", "first", "next", "after", "end", "error"} /\ Len(cs) = 1
      /\ ~ InString(cs)
  BY TokenRead, StateForms DEF StructureStep, InString
<1>3. l \in Seq(AnyPairs)
  BY <1>1 DEF IsRead
<1> DEFINE Reads(us) == IsRead(l, us, cs', scratch', fields', val', Strip(text').out)
<1>4. \A us : Reads(us) => ReadOK'
  BY DEF ReadOK
<1>5. fields = BodyFields(l) /\ \A g \in Fields : val[g] = BodyValues(l)[g]
  BY <1>1, <1>2 DEF IsRead, IsSaid
<1>6. IsSaid(l, cs', fields', val')
  BY <1>5 DEF IsSaid, StructureStep, Stays
<1>7. CASE t \in Spaces /\ cs' = cs
  <2>1. Strip(text').out = Strip(text).out
    BY <1>2, <1>7, TokenRead DEF Skipped
  <2>2. Reads(ts)
    BY <1>1, <1>6, <1>7, <1>2, <2>1 DEF IsRead, StructureStep, Stays, ValueSoFar
  <2> QED BY <1>4, <2>2
<1> DEFINE E == << >>
<1>8. E \in Seq(Alphabet)
  OBVIOUS
<1> HIDE DEF E
<1>9. ASSUME t \notin Spaces, Into("first") \/ Into("next") \/ Into("end"),
             TextSoFar(l, E, cs', Append(Strip(text).out, t))
      PROVE  ReadOK'
  <2>1. Strip(text').out = Append(Strip(text).out, t)
    BY <1>9, TokenRead DEF Kept
  <2>2. ValueSoFar(E, cs', scratch', val')
    BY <1>9 DEF ValueSoFar, Into
  <2>3. Reads(E)
    BY <1>3, <1>6, <1>8, <1>9, <2>1, <2>2 DEF IsRead
  <2> QED BY <1>4, <2>3
<1>10. /\ LBrace \notin Spaces /\ RBrace \notin Spaces /\ Comma \notin Spaces
       /\ \A k \in Keys : k \notin Spaces
  BY TokenForms
<1>11. CASE cs[1] = "start" /\ t = LBrace /\ Into("first")
  <2>1. l = <<>> /\ Append(Strip(text).out, t) = Open(l)
    BY <1>1, <1>3, <1>11, Layout DEF IsRead, TextSoFar
  <2>2. TextSoFar(l, E, cs', Append(Strip(text).out, t))
    BY <1>11, <2>1 DEF TextSoFar, Into
  <2> QED BY <1>9, <1>10, <1>11, <2>2
<1>12. CASE cs[1] \in {"first", "after"} /\ t = RBrace /\ Into("end")
  <2>1. Strip(text).out = Begun(l)
    BY <1>1, <1>3, <1>12, Layout DEF IsRead, TextSoFar
  <2>2. Append(Strip(text).out, t) = BodyText(l)
    BY <1>3, <1>12, <2>1, Layout
  <2>3. TextSoFar(l, E, cs', Append(Strip(text).out, t))
    BY <1>12, <2>2 DEF TextSoFar, Into
  <2> QED BY <1>9, <1>10, <1>12, <2>3
<1>13. CASE cs[1] = "after" /\ t = Comma /\ Into("next")
  <2>1. Strip(text).out = Begun(l) /\ l # <<>>
    BY <1>1, <1>13 DEF IsRead, TextSoFar
  <2>2. Append(Strip(text).out, t) = Open(l)
    BY <1>3, <1>13, <2>1, Layout
  <2>3. TextSoFar(l, E, cs', Append(Strip(text).out, t))
    BY <1>13, <2>1, <2>2 DEF TextSoFar, Into
  <2> QED BY <1>9, <1>10, <1>13, <2>3
<1>14. CASE cs[1] \in {"first", "next"} /\ t \in Keys /\ Inside("value", t[2])
  <2>1. t[2] \in Fields /\ t = Key(t[2])
    BY <1>14 DEF Keys, Key
  <2>2. Strip(text').out = Append(Open(l), Key(t[2]))
    <3>1. Strip(text').out = Append(Strip(text).out, t)
      BY <1>10, <1>14, TokenRead DEF Kept
    <3>2. Strip(text).out = Open(l)
      BY <1>1, <1>14 DEF IsRead, TextSoFar
    <3> QED BY <2>1, <3>1, <3>2
  <2>3. Strip(text').out = Append(Open(l), Key(cs'[2])) \o E
    BY <1>3, <1>14, <2>1, <2>2, HeadingTypes DEF E, Inside
  <2>4. TextSoFar(l, E, cs', Strip(text').out)
    BY <1>14, <2>3 DEF TextSoFar, Inside
  <2>5. ValueSoFar(E, cs', scratch', val')
    BY <1>14 DEF ValueSoFar, Inside, E
  <2>6. Reads(E)
    BY <1>3, <1>6, <1>8, <2>4, <2>5 DEF IsRead
  <2> QED BY <1>4, <2>6
<1> QED BY <1>7, <1>11, <1>12, <1>13, <1>14 DEF StructureStep

\* Within a pair, one token more of its value.
LEMMA ValueReads ==
  ASSUME ReadInv, NEW t \in Alphabet, Consume(t), t \notin Spaces \/ InString(cs),
         NEW f \in Fields, cs[2] = f, Len(cs) # 1, cs'[2] = f, Len(cs') # 1,
         cs'[1] \in {"value", "char", "escape", "reqDigit", "optDigit", "string", "null", "named"},
         NEW l, NEW ts, IsRead(l, ts, cs, scratch, fields, val, Strip(text).out),
         IsSaid(l, cs', fields', val'), ValueSoFar(Append(ts, t), cs', scratch', val')
  PROVE  ReadOK'
<1>1. l \in Seq(AnyPairs) /\ ts \in Seq(Alphabet)
  BY DEF IsRead
<1>2. Strip(text').out = Append(Strip(text).out, t)
  BY TokenRead DEF Kept
<1>3. Strip(text).out = Append(Open(l), Key(f)) \o ts
  BY DEF IsRead, TextSoFar
<1>4. Strip(text').out = Append(Open(l), Key(f)) \o Append(ts, t)
  <2>1. Append(Heading(l, f) \o ts, t) = Heading(l, f) \o Append(ts, t)
    BY <1>1, HeadingTypes
  <2>2. Heading(l, f) = Append(Open(l), Key(f))
    BY DEF Heading
  <2> QED BY <1>2, <1>3, <2>1, <2>2, Zenon
<1>5. Append(ts, t) \in Seq(Alphabet)
  BY <1>1, AppendProperties
<1>6. TextSoFar(l, Append(ts, t), cs', Strip(text').out)
  BY <1>4 DEF TextSoFar
<1> QED BY <1>1, <1>5, <1>6 DEF ReadOK, IsRead

\* Into a value.
LEMMA BeginReads ==
  ASSUME ReadInv, NEW t \in Alphabet, Consume(t), NEW f \in Fields, cs[2] = f,
         BeginStep(f, t)
  PROVE  ReadOK'
<1>1. PICK l, ts : IsRead(l, ts, cs, scratch, fields, val, Strip(text).out)
  BY TokenRead
<1>2. cs[1] = "value" /\ Len(cs) = 2 /\ ~ InString(cs)
  BY DEF BeginStep, InString
<1>3. /\ ts = <<>> /\ fields = BodyFields(l)
      /\ \A g \in Fields : val[g] = BodyValues(l)[g]
  BY <1>1, <1>2 DEF IsRead, IsSaid, ValueSoFar
<1>4. CASE t \in Spaces /\ Stays /\ cs' = cs
  <2>1. Strip(text').out = Strip(text).out
    BY <1>2, <1>4, TokenRead DEF Skipped
  <2>2. IsRead(l, ts, cs', scratch', fields', val', Strip(text').out)
    BY <1>1, <1>4, <2>1 DEF Stays
  <2> QED BY <2>2 DEF ReadOK
<1> DEFINE one == <<t>>
<1>5. Append(ts, t) = one
  BY <1>3
<1> HIDE DEF one
<1>6. /\ Null \notin Spaces /\ Quote \notin Spaces /\ Minus \notin Spaces /\ Plus \notin Spaces
      /\ \A n \in NameTokens : n \notin Spaces
      /\ \A d \in DigitTokens : d \notin Spaces
  BY TokenForms
<1>7. ASSUME t \notin Spaces, cs'[2] = f, Len(cs') # 1,
             cs'[1] \in {"char", "reqDigit", "optDigit", "null", "named"},
             fields' = fields,
             \A g \in Fields : g # f \/ cs'[1] # "char" => val'[g] = val[g],
             ValueSoFar(one, cs', scratch', val')
      PROVE  ReadOK'
  <2>1. IsSaid(l, cs', fields', val')
    BY <1>3, <1>7 DEF IsSaid
  <2> QED BY <1>1, <1>2, <1>5, <1>7, <2>1, ValueReads
<1>8. CASE t = Null /\ Stays /\ Inside("null", f)
  <2>1. ValueSoFar(one, cs', scratch', val')
    BY <1>8 DEF ValueSoFar, Inside, one
  <2> QED BY <1>6, <1>7, <1>8, <2>1 DEF Inside, Stays
<1>9. CASE /\ Kind[f] = "name" /\ t \in NameTokens /\ Stays
           /\ cs' = <<"named", f, t[2]>> /\ cs'[1] = "named" /\ cs'[2] = f /\ cs'[3] = t[2]
           /\ Len(cs') = 3
  <2>1. t = Name(t[2])
    BY <1>9 DEF NameTokens, Name
  <2>2. ValueSoFar(one, cs', scratch', val')
    BY <1>9, <2>1 DEF ValueSoFar, one
  <2> QED BY <1>6, <1>7, <1>9, <2>2 DEF Stays
<1>10. CASE /\ Kind[f] = "str" /\ t = Quote /\ Inside("char", f)
            /\ fields' = fields /\ val' = [val EXCEPT ![f] = <<>>]
  <2>1. val'[f] = <<>> /\ \A g \in Fields : g # f => val'[g] = val[g]
    BY <1>10 DEF ReadInv, ParserInv, ValuesOK
  <2>2. CharsSoFar(one, val'[f])
    BY <1>10, <2>1, CharsBegin DEF one
  <2>3. ValueSoFar(one, cs', scratch', val')
    BY <1>10, <2>2 DEF ValueSoFar, Inside
  <2> QED BY <1>6, <1>7, <1>10, <2>1, <2>3 DEF Inside
<1>11. CASE /\ IsNum(f) /\ t \in {Minus, Plus} /\ Inside("reqDigit", f)
            /\ scratch' = [kind |-> "num", sign |-> IF t = Minus THEN -1 ELSE 1, digits |-> 0]
            /\ fields' = fields /\ val' = val
  <2>1. NumberSoFar(one, scratch', one, <<>>)
    BY <1>11, NumberBegins DEF one
  <2>2. ValueSoFar(one, cs', scratch', val')
    BY <1>11, <2>1 DEF ValueSoFar, Inside
  <2> QED BY <1>6, <1>7, <1>11, <2>2 DEF Inside
<1>12. CASE /\ IsNum(f) /\ t \in DigitTokens /\ Inside("optDigit", f)
            /\ scratch' = [kind |-> "num", sign |-> 1, digits |-> t[2]]
            /\ fields' = fields /\ val' = val
  <2>1. NumberSoFar(one, scratch', <<>>, one) /\ one # <<>>
    BY <1>12, NumberBegins DEF one
  <2>2. ValueSoFar(one, cs', scratch', val')
    BY <1>12, <2>1 DEF ValueSoFar, Inside
  <2> QED BY <1>6, <1>7, <1>12, <2>2 DEF Inside
<1> QED BY <1>4, <1>8, <1>9, <1>10, <1>11, <1>12 DEF BeginStep

\* Within a number.
LEMMA DigitReads ==
  ASSUME ReadInv, NEW t \in Alphabet, Consume(t), NEW f \in Fields, cs[2] = f,
         DigitStep(f, t)
  PROVE  ReadOK'
<1>1. PICK l, ts : IsRead(l, ts, cs, scratch, fields, val, Strip(text).out)
  BY TokenRead
<1>2. /\ cs[1] \in {"reqDigit", "optDigit"} /\ Len(cs) = 2 /\ t \in DigitTokens
      /\ ts \in Seq(Alphabet) /\ scratch \in NumberScratch
      /\ fields' = fields /\ val' = val /\ Inside("optDigit", f)
  BY <1>1 DEF DigitStep, IsRead, ReadInv, ParserInv, ScratchOK, NumberScratch
<1>3. PICK sign, ds : NumberSoFar(ts, scratch, sign, ds)
  BY <1>1, <1>2 DEF IsRead, ValueSoFar
<1>4. NumberSoFar(Append(ts, t), scratch', sign, Append(ds, t)) /\ Append(ds, t) # <<>>
  BY <1>2, <1>3, NumberMore DEF DigitStep
<1>5. ValueSoFar(Append(ts, t), cs', scratch', val')
  <2>1. \E d : NumberSoFar(Append(ts, t), scratch', sign, d) /\ d # <<>>
    BY <1>4
  <2>2. /\ cs'[1] = "optDigit"
        /\ \E r, d : NumberSoFar(Append(ts, t), scratch', r, d) /\ d # <<>>
    BY <1>2, <2>1 DEF Inside
  <2> QED BY <2>2 DEF ValueSoFar
<1>6. IsSaid(l, cs', fields', val')
  BY <1>1, <1>2 DEF IsRead, IsSaid
<1>7. t \notin Spaces
  BY <1>2, TokenForms
<1> QED BY <1>1, <1>2, <1>5, <1>6, <1>7, ValueReads DEF Inside

\* Within a string.
LEMMA StringReads ==
  ASSUME ReadInv, NEW t \in Alphabet, Consume(t), NEW f \in Fields, cs[2] = f,
         StringStep(f, t)
  PROVE  ReadOK'
<1>1. PICK l, ts : IsRead(l, ts, cs, scratch, fields, val, Strip(text).out)
  BY TokenRead
<1>2. /\ cs[1] \in {"char", "escape"} /\ Len(cs) = 2 /\ InString(cs) /\ Kind[f] = "str"
      /\ ts \in Seq(Alphabet)
  BY <1>1 DEF StringStep, InString, IsRead
<1>3. ASSUME cs'[2] = f, Len(cs') # 1, cs'[1] \in {"char", "escape", "string"},
             fields' = fields, \A g \in Fields : g # f => val'[g] = val[g],
             ValueSoFar(Append(ts, t), cs', scratch', val')
      PROVE  ReadOK'
  <2>1. IsSaid(l, cs', fields', val')
    BY <1>1, <1>2, <1>3 DEF IsRead, IsSaid
  <2> QED BY <1>1, <1>2, <1>3, <2>1, ValueReads
<1>4. cs[1] = "char" => CharsSoFar(ts, val[f])
  BY <1>1 DEF IsRead, ValueSoFar
<1>5. CASE cs[1] = "char" /\ t = Quote /\ Stays /\ Inside("string", f)
  <2>1. ValueSoFar(Append(ts, t), cs', scratch', val')
    BY <1>2, <1>4, <1>5 DEF ValueSoFar, Inside, Stays
  <2> QED BY <1>3, <1>5, <2>1 DEF Inside, Stays
<1>6. CASE cs[1] = "char" /\ t = Escape /\ Stays /\ Inside("escape", f)
  <2>1. ValueSoFar(Append(ts, t), cs', scratch', val')
    BY <1>2, <1>4, <1>6 DEF ValueSoFar, Inside, Stays
  <2> QED BY <1>3, <1>6, <2>1 DEF Inside, Stays
<1>7. CASE /\ IsCharacter(t) /\ Len(val[f]) < MaxStr /\ Inside("char", f)
           /\ val' = [val EXCEPT ![f] = Append(@, t)]
           /\ scratch' = scratch /\ fields' = fields
  <2>1. /\ val'[f] = Append(val[f], t) /\ \A g \in Fields : g # f => val'[g] = val[g]
    BY <1>7 DEF ReadInv, ParserInv, ValuesOK
  <2>2. val[f] \in Seq(StringTokens) /\ t \in StringTokens
    BY <1>2, <1>7 DEF ReadInv, ParserInv, TypeOK, Fits, IsCharacter
  <2>3. CharsSoFar(Append(ts, t), Append(val[f], t))
    <3>1. CASE cs[1] = "char"
      <4>1. t \notin {Quote, Escape}
        BY <1>7, <3>1 DEF IsCharacter
      <4> QED BY <1>2, <1>4, <1>7, <2>2, <3>1, <4>1, CharsMore
    <3>2. CASE cs[1] = "escape"
      <4>1. PICK us \in Seq(Alphabet) : CharsSoFar(us, val[f]) /\ ts = Append(us, Escape)
        BY <1>1, <3>2 DEF IsRead, ValueSoFar
      <4> QED BY <1>7, <2>2, <4>1, CharsMore
    <3> QED BY <1>2, <3>1, <3>2
  <2>4. ValueSoFar(Append(ts, t), cs', scratch', val')
    BY <1>7, <2>1, <2>3 DEF ValueSoFar, Inside
  <2> QED BY <1>3, <1>7, <2>1, <2>4 DEF Inside
<1> QED BY <1>5, <1>6, <1>7 DEF StringStep

\* The value of a field ends: its text is one of the field's, and what is kept is
\* what that text means.
EndOfValue(f, ts) ==
  /\ ts \in AnyText(f)
  /\ fields' = IF ts = <<Null>> THEN fields \ {f} ELSE fields \cup {f}
  /\ val' = [val EXCEPT ![f] = Meaning(f, ts)]

\* The value that is kept is what the text of the value means.
LEMMA ValueEnds ==
  ASSUME ReadInv, NEW t, NEW f \in Fields, cs[2] = f, EndStep(f, t),
         NEW l, NEW ts, IsRead(l, ts, cs, scratch, fields, val, Strip(text).out)
  PROVE  EndOfValue(f, ts)
<1>1. ts \in Seq(Alphabet) /\ ValueSoFar(ts, cs, scratch, val)
  BY DEF IsRead
<1>2. CASE /\ cs[1] = "null" /\ Len(cs) = 2
           /\ fields' = fields \ {f} /\ val' = [val EXCEPT ![f] = Zero(f)]
  <2>1. ts = <<Null>>
    BY <1>1, <1>2 DEF ValueSoFar
  <2>2. ts \in AnyText(f)
    BY <2>1 DEF AnyText
  <2>3. Meaning(f, ts) = Zero(f)
    BY <2>1, MeaningOfNull
  <2> QED BY <1>2, <2>1, <2>2, <2>3 DEF EndOfValue
<1>3. CASE /\ cs[1] = "string" /\ Len(cs) = 2
           /\ fields' = fields \cup {f} /\ val' = [val EXCEPT ![f] = val[f]]
  <2>1. Kind[f] = "str"
    BY <1>1, <1>3 DEF ValueSoFar
  <2>2. PICK us \in Seq(Alphabet) : CharsSoFar(us, val[f]) /\ ts = Append(us, Quote)
    BY <1>1, <1>3 DEF ValueSoFar
  <2>3. ts \in StringTexts /\ ts # <<Null>> /\ Unescaped(ts) = val[f]
    BY <2>2, StringEnds
  <2>4. ts \in AnyText(f)
    BY <2>1, <2>3, TextForms
  <2>5. Meaning(f, ts) = Unescaped(ts)
    BY <2>1, <2>3 DEF Meaning, IsNum
  <2> QED BY <1>3, <2>3, <2>4, <2>5 DEF EndOfValue
<1>4. CASE /\ cs[1] = "named" /\ Len(cs) = 3 /\ cs[3] \in Names /\ Kind[f] = "name"
           /\ fields' = fields \cup {f} /\ val' = [val EXCEPT ![f] = cs[3]]
  <2>1. ts = <<Name(cs[3])>>
    BY <1>1, <1>4 DEF ValueSoFar
  <2>2. Name(cs[3]) \in NameTokens /\ Name(cs[3])[2] = cs[3]
    BY <1>4 DEF NameTokens, Name
  <2>3. Name(cs[3]) # Null
    BY <2>2, TokenForms
  <2>4. ts # <<Null>> /\ ts[1][2] = cs[3]
    BY <2>1, <2>2, <2>3
  <2>5. ts \in AnyText(f)
    BY <1>4, <2>1, <2>2, TextForms
  <2>6. Meaning(f, ts) = ts[1][2]
    BY <1>4, <2>4 DEF Meaning, IsNum
  <2> QED BY <1>4, <2>4, <2>5, <2>6 DEF EndOfValue
<1>5. CASE /\ cs[1] = "optDigit" /\ Len(cs) = 2 /\ IsNum(f) /\ ~ IsRefused(f)
           /\ fields' = fields \cup {f}
           /\ val' = [val EXCEPT ![f] = Stored(f, scratch.sign * scratch.digits)]
  <2>1. PICK sign, ds : NumberSoFar(ts, scratch, sign, ds) /\ ds # <<>>
    BY <1>1, <1>5 DEF ValueSoFar
  <2>2. scratch \in NumberScratch
    BY <1>5 DEF ReadInv, ParserInv, ScratchOK, NumberScratch
  <2>3. /\ ts \in AnyText(f) /\ ts # <<Null>>
        /\ Meaning(f, ts) = Stored(f, scratch.sign * scratch.digits)
    BY <1>1, <1>5, <2>1, <2>2, NumberEnds DEF IsRefused
  <2> QED BY <1>5, <2>3 DEF EndOfValue
<1> QED BY <1>2, <1>3, <1>4, <1>5 DEF EndStep

\* Out of a value, the list has one pair more.
LEMMA EndReads ==
  ASSUME ReadInv, NEW t \in Alphabet, Consume(t), NEW f \in Fields, cs[2] = f, Len(cs) # 1,
         EndStep(f, t)
  PROVE  ReadOK'
<1>1. PICK l, ts : IsRead(l, ts, cs, scratch, fields, val, Strip(text).out)
  BY TokenRead
<1>2. EndOfValue(f, ts)
  BY <1>1, ValueEnds
<1>3. ~ InString(cs)
  BY DEF EndStep, InString
<1>4. /\ l \in Seq(AnyPairs) /\ fields = BodyFields(l)
      /\ \A g \in Fields : g # f => val[g] = BodyValues(l)[g]
      /\ Strip(text).out = Append(Open(l), Key(f)) \o ts
  BY <1>1 DEF IsRead, IsSaid, TextSoFar
<1> DEFINE m == Append(l, <<f, ts>>)
           o == Strip(text).out
           o2 == Strip(text').out
           E == << >>
<1>5. ts \in AnyText(f)
  BY <1>2 DEF EndOfValue
<1>6. m \in Seq(AnyPairs) /\ m # <<>> /\ o = Begun(m)
  <2>1. m # <<>>
    <3> DEFINE p == <<f, ts>>
    <3>1. p \in AnyPairs
      BY <1>5 DEF AnyPairs
    <3> HIDE DEF p
    <3>2. Append(l, p) # <<>>
      BY <1>4, <3>1
    <3> QED BY <3>2 DEF p
  <2> QED BY <1>4, <1>5, <2>1, HeadOfMore
<1>7. /\ BodyFields(m) = fields'
      /\ \A g \in Fields : val'[g] = BodyValues(m)[g]
  <2>1. /\ BodyFields(m) = IF ts = <<Null>> THEN BodyFields(l) \ {f} ELSE BodyFields(l) \cup {f}
        /\ BodyValues(m) = [g \in Fields |-> IF g = f THEN Meaning(f, ts) ELSE BodyValues(l)[g]]
    <3>1. SaysMore(m, l, f, ts)
      BY <1>4, <1>5, SaysOfMore
    <3> HIDE DEF m
    <3> QED BY <3>1 DEF SaysMore
  <2> HIDE DEF m
  <2>2. val' = [g \in Fields |-> IF g = f THEN Meaning(f, ts) ELSE val[g]]
    BY <1>2 DEF EndOfValue, ReadInv, ParserInv, ValuesOK
  <2>3. BodyFields(m) = fields'
    BY <1>2, <1>4, <2>1 DEF EndOfValue
  <2> QED BY <1>4, <2>1, <2>2, <2>3
<1> HIDE DEF m, o, o2, E
<1>8. E \in Seq(Alphabet)
  BY DEF E
<1>9. IsSaid(m, cs', fields', val')
  BY <1>7 DEF IsSaid
<1>10. ASSUME Len(cs') = 1, cs'[1] \in {"next", "after", "end"}, TextSoFar(m, E, cs', o2)
       PROVE  ReadOK'
  <2>1. ValueSoFar(E, cs', scratch', val')
    BY <1>10 DEF ValueSoFar
  <2>2. IsRead(m, E, cs', scratch', fields', val', o2)
    BY <1>6, <1>8, <1>9, <1>10, <2>1 DEF IsRead
  <2> QED BY <2>2 DEF ReadOK, o2
<1>11. RBrace \notin Spaces /\ Comma \notin Spaces
  BY TokenForms
<1>12. CASE t = Comma /\ Into("next")
  <2>1. o2 = Append(o, t)
    BY <1>11, <1>12, TokenRead DEF Kept, o, o2
  <2>2. o2 = Open(m)
    BY <1>6, <1>12, <2>1, Layout
  <2> QED BY <1>6, <1>10, <1>12, <2>2 DEF TextSoFar, Into
<1>13. CASE t = RBrace /\ Into("end")
  <2>1. o2 = Append(o, t)
    BY <1>11, <1>13, TokenRead DEF Kept, o, o2
  <2>2. o2 = BodyText(m)
    BY <1>6, <1>13, <2>1, Layout
  <2> QED BY <1>6, <1>10, <1>13, <2>2 DEF TextSoFar, Into
<1>14. CASE t \in Spaces /\ Into("after")
  <2>1. o2 = o
    BY <1>3, <1>14, TokenRead DEF Skipped, o, o2
  <2> QED BY <1>6, <1>10, <1>14, <2>1 DEF TextSoFar, Into
<1> QED BY <1>12, <1>13, <1>14 DEF EndStep, NextPlace

\* All tokens are of the alphabet.
LEMMA TokensThere ==
  ASSUME NEW t \in TokensAt(cs)
  PROVE  t \in Alphabet
BY TokenTypes DEF TokensAt, Alphabet

\* A token keeps the invariant.
LEMMA ConsumeReads ==
  ASSUME ReadInv, NEW t \in TokensAt(cs), Consume(t)
  PROVE  ReadInv'
<1>0. t \in Alphabet
  BY TokensThere
<1>1. ParserInv'
  BY ConsumeKeeps DEF ReadInv
<1>2. LengthOK' /\ PlacesOK'
  BY <1>0, LengthKept, PlacesKept DEF ReadInv, Consume
<1>3. ReadOK'
  <2>1. CASE StructureStep(t)
    BY <1>0, <2>1, StructureReads
  <2>2. CASE ErrorStep(t)
    BY <2>2 DEF ErrorStep, ReadOK
  <2>3. ASSUME NEW f \in Fields, cs[2] = f, Len(cs) # 1,
               BeginStep(f, t) \/ DigitStep(f, t) \/ StringStep(f, t) \/ EndStep(f, t)
        PROVE  ReadOK'
    BY <1>0, <2>3, BeginReads, DigitReads, StringReads, EndReads
  <2>4. \/ StructureStep(t) \/ ErrorStep(t)
        \/ \E f \in Fields :
             /\ cs[2] = f /\ Len(cs) # 1
             /\ BeginStep(f, t) \/ DigitStep(f, t) \/ StringStep(f, t) \/ EndStep(f, t)
    BY Transitions DEF ReadInv
  <2> QED BY <2>1, <2>2, <2>3, <2>4
<1> QED BY <1>1, <1>2, <1>3 DEF ReadInv

\* What Init and Reset leave.
Started ==
  /\ cs = At("start") /\ scratch = [kind |-> "stale"]
  /\ fields = {} /\ val = [f \in Fields |-> Zero(f)] /\ text = <<>>

\* The invariant holds at the start.
LEMMA StartReads == Started => ReadInv
<1> SUFFICES ASSUME Started PROVE ReadInv
  OBVIOUS
<1> USE DEF Started
<1> DEFINE E == << >>
<1>1. ParserInv
  BY ResetKeeps
<1>2. Strip(text) = [out |-> E, esc |-> FALSE, str |-> FALSE]
  BY FoldOfNothing DEF StripBase
<1>3. LengthOK
  <2>1. MaxTokens \in Nat /\ E \in Seq(Alphabet) /\ Len(E) = 0
    BY ParserAssumption
  <2>2. Strip(text).out = E /\ text = E
    BY <1>2
  <2> HIDE DEF E
  <2> QED BY <2>1, <2>2 DEF LengthOK
<1>4. cs[1] = "start" /\ Len(cs) = 1 /\ ~ InString(cs)
  BY DEF At, InString
<1>5. PlacesOK
  BY <1>2, <1>4 DEF PlacesOK
<1>6. IsRead(E, E, cs, scratch, fields, val, Strip(text).out)
  <2>1. E \in Seq(AnyPairs) /\ E \in Seq(Alphabet)
    OBVIOUS
  <2>2. IsSaid(E, cs, fields, val)
    BY NothingSaid DEF IsSaid
  <2>3. TextSoFar(E, E, cs, E) /\ ValueSoFar(E, cs, scratch, val)
    BY <1>4 DEF TextSoFar, ValueSoFar
  <2>4. Strip(text).out = E
    BY <1>2
  <2> HIDE DEF E
  <2> QED BY <2>1, <2>2, <2>3, <2>4 DEF IsRead
<1>7. ReadOK
  BY <1>6 DEF ReadOK
<1> QED BY <1>1, <1>3, <1>5, <1>7 DEF ReadInv

\* Nothing changes.
LEMMA StutterReads ==
  ASSUME ReadInv, UNCHANGED vars
  PROVE  ReadInv'
<1>1. /\ cs' = cs /\ scratch' = scratch /\ fields' = fields /\ val' = val /\ text' = text
  BY DEF vars
<1> QED BY <1>1 DEF ReadInv, ParserInv, TypeOK, ScratchOK, ValuesOK, LengthOK, PlacesOK,
                    ReadOK, InString, Fits

\* A reset starts anew.
LEMMA ResetReads == Reset => ReadInv'
<1>1. Started => ReadInv
  BY StartReads
<1>2. Reset => Started'
  BY DEF Reset, Started
<1> QED BY <1>1, <1>2, PTL

\* The invariant is strong enough.
LEMMA ReadIsUnderstood == ReadInv => CompleteIsUnderstood
<1> SUFFICES ASSUME ReadInv, Result = "complete"
             PROVE  <<Stripped(text), fields, val>> \in Bodies
  BY DEF CompleteIsUnderstood
<1>1. cs = Final /\ cs # Error /\ cs[1] = "end"
  BY DEF Result, Final, Error, At
<1>2. PICK l, ts : IsRead(l, ts, cs, scratch, fields, val, Strip(text).out)
  BY <1>1 DEF ReadInv, ReadOK
<1>3. /\ l \in Seq(AnyPairs) /\ fields = BodyFields(l) /\ Strip(text).out = BodyText(l)
      /\ \A g \in Fields : val[g] = BodyValues(l)[g]
  BY <1>1, <1>2 DEF IsRead, IsSaid, TextSoFar
<1>4. val = BodyValues(l)
  <2>1. val = [g \in Fields |-> val[g]] /\ BodyValues(l) = [g \in Fields |-> BodyValues(l)[g]]
    BY DEF ReadInv, ParserInv, ValuesOK, BodyValues
  <2> QED BY <1>3, <2>1
<1>5. Len(BodyText(l)) <= MaxTokens
  <2>1. /\ Len(text) \in Nat /\ MaxTokens \in Nat /\ Len(text) <= MaxTokens
        /\ Len(BodyText(l)) <= Len(text) /\ BodyText(l) \in Seq(Alphabet)
    BY <1>3, ParserAssumption, LenProperties, ItemTypes DEF ReadInv, LengthOK
  <2> QED BY <2>1, LenProperties
<1>6. l \in Lists
  BY <1>3, <1>5, ListsHave
<1>7. Stripped(text) = BodyText(l)
  BY <1>3, StrippedIs
<1> QED BY <1>3, <1>4, <1>6, <1>7 DEF Bodies

\* A body that is reported as complete is a list of pairs and is kept as what it
\* says, for every list of fields, every kind and every length of a body, and
\* whatever has been parsed before.
THEOREM CompleteBodies == Spec => []CompleteIsUnderstood
<1>1. Init => ReadInv
  BY StartReads DEF Init, Started
<1>2. ReadInv /\ [Next]_vars => ReadInv'
  <2> SUFFICES ASSUME ReadInv, [Next]_vars PROVE ReadInv'
    OBVIOUS
  <2>1. CASE Reset
    BY <2>1, ResetReads
  <2>2. CASE \E t \in TokensAt(cs) : Consume(t)
    BY <2>2, ConsumeReads
  <2>3. CASE UNCHANGED vars
    BY <2>3, StutterReads
  <2> QED BY <2>1, <2>2, <2>3 DEF Next
<1> QED BY <1>1, <1>2, ReadIsUnderstood, PTL DEF Spec

----------------------------------------------------------------------------
(* What may come next, and what is left behind it.                          *)

\* The first token of two texts in a row.
FirstOf(t, r, s, a) == t = s[1] /\ r = Tail(s) \o a

\* The first token of two texts is the first of the one in front.
LEMMA FirstToken ==
  ASSUME NEW t \in Alphabet, NEW r \in Seq(Alphabet), NEW s \in Seq(Alphabet), s # <<>>,
         NEW a \in Seq(Alphabet), <<t>> \o r = s \o a
  PROVE  FirstOf(t, r, s, a)
<1> DEFINE u == <<t>> \o r
           v == s \o a
           w == Tail(s) \o a
<1>1. /\ Len(u) = Len(r) + 1 /\ u[1] = t /\ \A i \in 1 .. Len(r) : u[i + 1] = r[i]
  OBVIOUS
<1>2. /\ Len(v) = Len(s) + Len(a) /\ v[1] = s[1]
      /\ Tail(s) \in Seq(Alphabet) /\ Len(Tail(s)) = Len(s) - 1
      /\ w \in Seq(Alphabet) /\ Len(w) = Len(Tail(s)) + Len(a)
  OBVIOUS
<1>3. \A i \in 1 .. Len(w) : v[i + 1] = w[i]
  OBVIOUS
<1>4. u = v
  OBVIOUS
<1>5. Len(r) \in Nat /\ Len(a) \in Nat /\ Len(s) \in Nat
  BY LenProperties
<1> HIDE DEF u, v, w
<1>6. Len(w) = Len(r) /\ \A i \in 1 .. Len(r) : r[i] = w[i]
  <2>1. Len(w) = Len(r)
    BY <1>1, <1>2, <1>4, <1>5
  <2>2. ASSUME NEW i \in 1 .. Len(r) PROVE r[i] = w[i]
    <3>1. u[i + 1] = r[i] /\ v[i + 1] = w[i]
      BY <1>1, <1>3, <2>1
    <3> QED BY <1>4, <3>1
  <2> QED BY <2>1, <2>2
<1>7. r = w
  BY <1>2, <1>6, SeqEqual
<1> QED BY <1>1, <1>2, <1>4, <1>7 DEF FirstOf, w

\* The same when only one token is in front.
SameRest(t, r, s, a) == t = s /\ r = a

\* The case of one token in front.
LEMMA OneToken ==
  ASSUME NEW t \in Alphabet, NEW r \in Seq(Alphabet), NEW s \in Alphabet,
         NEW a \in Seq(Alphabet), <<t>> \o r = <<s>> \o a
  PROVE  SameRest(t, r, s, a)
<1> DEFINE one == <<s>>
<1>1. one \in Seq(Alphabet) /\ one # <<>> /\ one[1] = s /\ Tail(one) = <<>>
  OBVIOUS
<1>2. <<>> \o a = a
  BY ConcatEmptySeq
<1> HIDE DEF one
<1>3. FirstOf(t, r, one, a)
  BY <1>1, FirstToken DEF one
<1> QED BY <1>1, <1>2, <1>3 DEF FirstOf, SameRest

\* Three texts in a row, from the left or from the right.
LEMMA InARow ==
  ASSUME NEW a \in Seq(Alphabet), NEW b \in Seq(Alphabet), NEW c \in Seq(Alphabet)
  PROVE  ThreeInARow(a, b, c)
BY Associative

----------------------------------------------------------------------------
(* What is left of a body.                                                 *)

\* What is left: all of a body, what follows a pair, a value with what follows it, pairs,
\* digits that may be none, digits, characters of a string, and the one behind an escape.
IsBody(r) == \E l \in Seq(AnyPairs) : r = BodyText(l)
IsTail(r) == \E l \in Seq(AnyPairs) : r = After(l)
IsValue(f, r) == \E ts \in AnyText(f), a \in Seq(Alphabet) : IsTail(a) /\ r = ts \o a
IsPairs(r) ==
  \E f \in Fields, a \in Seq(Alphabet) : IsValue(f, a) /\ r = <<Key(f)>> \o a
IsDigits(r) ==
  \E ds \in Seq(DigitTokens), a \in Seq(Alphabet) : IsTail(a) /\ r = ds \o a
IsMoreDigits(r) == \E d \in DigitTokens, a \in Seq(Alphabet) : IsDigits(a) /\ r = <<d>> \o a
IsString(r, n) ==
  \E chars \in Seq(CharTexts), a \in Seq(Alphabet) :
    /\ Len(chars) <= n /\ IsTail(a)
    /\ r = FlattenSeq(chars) \o (<<Quote>> \o a)
IsEscaped(r, n) ==
  \E t \in StringTokens, a \in Seq(Alphabet) : IsString(a, n - 1) /\ r = <<t>> \o a

\* The text of a list is a body.
LEMMA ListsAreBodies ==
  ASSUME NEW l \in Seq(AnyPairs)
  PROVE  IsBody(BodyText(l))
BY DEF IsBody

\* What is left is a text and is not empty.
LEMMA TailTypes ==
  /\ \A r : IsTail(r) => r \in Seq(Alphabet) /\ r # <<>>
  /\ \A f \in Fields : \A r : IsValue(f, r) => r \in Seq(Alphabet) /\ r # <<>>
  /\ \A r : IsPairs(r) => r \in Seq(Alphabet) /\ r # <<>>
<1>1. ASSUME NEW l \in Seq(AnyPairs) PROVE After(l) \in Seq(Alphabet) /\ After(l) # <<>>
  <2> DEFINE F == FlattenSeq(Commas(l))
  <2>1. F \in Seq(Alphabet) /\ RBrace \in Alphabet
    BY ItemTypes, TokenTypes
  <2> HIDE DEF F
  <2>2. F \o <<RBrace>> \in Seq(Alphabet) /\ F \o <<RBrace>> # <<>>
    BY <2>1
  <2> QED BY <2>2 DEF After, F
<1>2. \A r : IsTail(r) => r \in Seq(Alphabet) /\ r # <<>>
  BY <1>1 DEF IsTail
<1>3. ASSUME NEW s \in Seq(Alphabet), NEW a \in Seq(Alphabet), s # <<>>
      PROVE  s \o a \in Seq(Alphabet) /\ s \o a # <<>>
  BY <1>3
<1>4. ASSUME NEW f \in Fields, NEW r, IsValue(f, r) PROVE r \in Seq(Alphabet) /\ r # <<>>
  <2>1. PICK ts \in AnyText(f), a \in Seq(Alphabet) : IsTail(a) /\ r = ts \o a
    BY <1>4 DEF IsValue
  <2>2. ts \in Seq(Alphabet) /\ ts # <<>>
    BY TextTypes
  <2> QED BY <1>3, <2>1, <2>2
<1>5. ASSUME NEW r, IsPairs(r) PROVE r \in Seq(Alphabet) /\ r # <<>>
  <2>1. PICK f \in Fields, a \in Seq(Alphabet) : r = <<Key(f)>> \o a
    BY <1>5 DEF IsPairs
  <2>2. <<Key(f)>> \in Seq(Alphabet) /\ <<Key(f)>> # <<>>
    BY TokenTypes
  <2> QED BY <1>3, <2>1, <2>2
<1> QED BY <1>2, <1>4, <1>5

\* A pair as text is its key and a value.
LEMMA PairIsPairs ==
  ASSUME NEW p \in AnyPairs, NEW a, IsTail(a)
  PROVE  IsPairs(PairText(p) \o a)
<1> DEFINE f == p[1]
           ts == p[2]
           K == <<Key(f)>>
<1>1. /\ f \in Fields /\ ts \in AnyText(f) /\ PairText(p) = K \o ts
      /\ ts \in Seq(Alphabet) /\ a \in Seq(Alphabet)
  BY PairForms, TailTypes
<1>2. K \in Seq(Alphabet)
  BY <1>1, TokenTypes
<1>3. ts \o a \in Seq(Alphabet) /\ IsValue(f, ts \o a)
  BY <1>1, ConcatProperties DEF IsValue
<1>4. ThreeInARow(K, ts, a)
  BY <1>1, <1>2, InARow
<1> HIDE DEF f, ts, K
<1>5. PairText(p) \o a = K \o (ts \o a)
  BY <1>1, <1>4 DEF ThreeInARow
<1> QED BY <1>1, <1>3, <1>5 DEF IsPairs, K

\* A list that is not empty is a first pair and others.
LEMMA FirstPair ==
  ASSUME NEW l \in Seq(AnyPairs), l # <<>>
  PROVE  /\ l[1] \in AnyPairs /\ Tail(l) \in Seq(AnyPairs)
         /\ FlattenSeq(Items(l)) = PairText(l[1]) \o FlattenSeq(Commas(Tail(l)))
         /\ FlattenSeq(Commas(l))
              = (<<Comma>> \o PairText(l[1])) \o FlattenSeq(Commas(Tail(l)))
<1> DEFINE m == Tail(l)
           p == l[1]
           C == <<Comma>>
           P == PairText(p)
<1>1. /\ p \in AnyPairs /\ m \in Seq(AnyPairs) /\ Len(l) = Len(m) + 1 /\ Len(m) \in Nat
      /\ \A k \in 1 .. Len(m) : l[k + 1] = m[k]
  OBVIOUS
<1> HIDE DEF m, p
<1>2. /\ Items(l) \in Seq(Seq(Alphabet)) /\ Len(Items(l)) = Len(m) + 1
      /\ Commas(l) \in Seq(Seq(Alphabet)) /\ Len(Commas(l)) = Len(m) + 1
      /\ Commas(m) \in Seq(Seq(Alphabet)) /\ Len(Commas(m)) = Len(m)
  BY <1>1, ItemTypes
<1>3. P \in Seq(Alphabet) /\ C \in Seq(Alphabet) /\ <<>> \o P = P
  <2>1. P \in Seq(Alphabet) /\ C \in Seq(Alphabet)
    <3>1. P \in Seq(Alphabet)
      BY <1>1, PairForms
    <3>2. C \in Seq(Alphabet)
      BY TokenTypes
    <3> QED BY <3>1, <3>2
  <2> HIDE DEF P
  <2> QED BY <2>1, ConcatEmptySeq
<1>4. C \o P \in Seq(Alphabet)
  BY <1>3, ConcatProperties
<1>5. /\ Items(l)[1] = P /\ Commas(l)[1] = C \o P
      /\ \A k \in 1 .. Len(m) : /\ Items(l)[k + 1] = C \o PairText(m[k])
                                /\ Commas(l)[k + 1] = C \o PairText(m[k])
                                /\ Commas(m)[k] = C \o PairText(m[k])
  <2>1. \A k \in 1 .. Len(m) : k + 1 \in 1 .. Len(l) /\ k + 1 # 1
    BY <1>1
  <2>2. 1 \in 1 .. Len(l)
    BY <1>1
  <2>3. Items(l)[1] = P /\ Commas(l)[1] = C \o P
    BY <1>3, <2>2 DEF Items, Commas, p
  <2>4. \A k \in 1 .. Len(m) : /\ Items(l)[k + 1] = C \o PairText(l[k + 1])
                               /\ Commas(l)[k + 1] = C \o PairText(l[k + 1])
                               /\ Commas(m)[k] = C \o PairText(m[k])
    BY <2>1 DEF Items, Commas
  <2> QED BY <1>1, <2>3, <2>4
<1>6. ASSUME NEW ss \in Seq(Seq(Alphabet)), Len(ss) = Len(m) + 1,
             NEW s \in Seq(Alphabet), ss[1] = s,
             \A k \in 1 .. Len(m) : ss[k + 1] = Commas(m)[k]
      PROVE  FlattenSeq(ss) = s \o FlattenSeq(Commas(m))
  <2> DEFINE us == <<s>> \o Commas(m)
  <2>1. /\ us \in Seq(Seq(Alphabet)) /\ Len(us) = Len(m) + 1 /\ us[1] = s
        /\ \A k \in 1 .. Len(m) : us[k + 1] = Commas(m)[k]
    BY <1>1, <1>2
  <2> HIDE DEF us
  <2>2. ASSUME NEW i \in 1 .. Len(ss) PROVE ss[i] = us[i]
    <3>1. CASE i = 1
      BY <1>6, <2>1, <3>1
    <3>2. CASE i # 1
      <4>1. PICK k \in 1 .. Len(m) : i = k + 1
        <5>1. i - 1 \in 1 .. Len(m) /\ i = (i - 1) + 1
          BY <1>1, <1>6, <3>2
        <5> QED BY <5>1
      <4> QED BY <1>6, <2>1, <4>1
    <3> QED BY <3>1, <3>2
  <2>3. ss = us
    <3>1. Len(ss) = Len(us) /\ \A i \in 1 .. Len(ss) : ss[i] = us[i]
      BY <1>6, <2>1, <2>2
    <3> QED BY <2>1, <3>1, SeqEqual
  <2> QED BY <1>2, <2>3, FlattenOfFirst DEF us
<1>7. FlattenSeq(Items(l)) = P \o FlattenSeq(Commas(m))
  BY <1>2, <1>3, <1>5, <1>6
<1>8. FlattenSeq(Commas(l)) = (C \o P) \o FlattenSeq(Commas(m))
  BY <1>2, <1>4, <1>5, <1>6
<1> QED BY <1>1, <1>7, <1>8 DEF m, p

\* Behind a pair: the end, or a comma and pairs.
LEMMA TailForms ==
  ASSUME NEW r, IsTail(r)
  PROVE  \/ r = <<RBrace>>
         \/ \E a \in Seq(Alphabet) : IsPairs(a) /\ r = <<Comma>> \o a
<1>1. PICK l \in Seq(AnyPairs) : r = After(l)
  BY DEF IsTail
<1> DEFINE R == <<RBrace>>
           C == <<Comma>>
           E == << >>
<1>2. R \in Seq(Alphabet) /\ C \in Seq(Alphabet) /\ E \o R = R
  BY TokenTypes, ConcatEmptySeq
<1>3. CASE l = <<>>
  <2>1. Commas(l) = E
    BY <1>3 DEF Commas
  <2>2. FlattenSeq(Commas(l)) = E
    BY <2>1, FlattenOfNothing
  <2> QED BY <1>1, <1>2, <2>2 DEF After
<1>4. CASE l # <<>>
  <2> DEFINE p == l[1]
             m == Tail(l)
             P == PairText(p)
             F == FlattenSeq(Commas(m))
  <2>1. p \in AnyPairs /\ m \in Seq(AnyPairs) /\ FlattenSeq(Commas(l)) = (C \o P) \o F
    BY <1>4, FirstPair
  <2> HIDE DEF p, m
  <2>2. P \in Seq(Alphabet) /\ F \in Seq(Alphabet) /\ After(m) = F \o R
    BY <2>1, PairForms, ItemTypes DEF After
  <2>3. IsTail(After(m)) /\ After(m) \in Seq(Alphabet)
    BY <2>1, ItemTypes DEF IsTail
  <2>4. r = ((C \o P) \o F) \o R
    BY <1>1, <2>1 DEF After
  <2>5. C \o P \in Seq(Alphabet) /\ P \o (F \o R) \in Seq(Alphabet) /\ F \o R \in Seq(Alphabet)
    BY <1>2, <2>2, ConcatProperties
  <2> HIDE DEF P, F, R, C
  <2>6. ThreeInARow(C \o P, F, R) /\ ThreeInARow(C, P, F \o R)
    BY <1>2, <2>2, <2>5, InARow
  <2>7. r = C \o (P \o (F \o R))
    BY <2>4, <2>6 DEF ThreeInARow
  <2>8. IsPairs(P \o (F \o R))
    BY <2>1, <2>2, <2>3, PairIsPairs DEF P
  <2> QED BY <2>5, <2>7, <2>8 DEF C
<1> QED BY <1>3, <1>4

\* Behind the brace of a body: the end, or pairs.
LEMMA BodyForms ==
  ASSUME NEW r, IsBody(r)
  PROVE  \E a \in Seq(Alphabet) : (a = <<RBrace>> \/ IsPairs(a)) /\ r = <<LBrace>> \o a
<1>1. PICK l \in Seq(AnyPairs) : r = BodyText(l)
  BY DEF IsBody
<1> DEFINE R == <<RBrace>>
           L == <<LBrace>>
           E == << >>
           J == Joined(l)
<1>2. /\ R \in Seq(Alphabet) /\ L \in Seq(Alphabet) /\ E \o R = R
      /\ J \in Seq(Alphabet) /\ E \in Seq(Alphabet)
  BY TokenTypes, ConcatEmptySeq, ItemTypes
<1>3. r = (L \o J) \o R
  BY <1>1, BodyIs DEF Begun
<1>4. ThreeInARow(L, J, R) /\ J \o R \in Seq(Alphabet)
  BY <1>2, InARow, ConcatProperties
<1> HIDE DEF R, L, E, J
<1>5. r = L \o (J \o R)
  BY <1>3, <1>4 DEF ThreeInARow
<1>6. CASE l = <<>>
  <2>1. J = E
    BY <1>6, FlattenOfNothing DEF J, E, Joined, Items
  <2> QED BY <1>2, <1>4, <1>5, <2>1 DEF R, L
<1>7. CASE l # <<>>
  <2> DEFINE p == l[1]
             m == Tail(l)
             P == PairText(p)
             F == FlattenSeq(Commas(m))
  <2>1. p \in AnyPairs /\ m \in Seq(AnyPairs) /\ J = P \o F
    BY <1>7, FirstPair DEF J, Joined
  <2> HIDE DEF p, m
  <2>2. P \in Seq(Alphabet) /\ F \in Seq(Alphabet) /\ After(m) = F \o R
    BY <2>1, PairForms, ItemTypes DEF After, R
  <2>3. IsTail(After(m))
    BY <2>1 DEF IsTail
  <2> HIDE DEF P, F
  <2>4. ThreeInARow(P, F, R)
    BY <1>2, <2>2, InARow
  <2>5. J \o R = P \o (F \o R)
    BY <2>1, <2>4 DEF ThreeInARow
  <2>6. IsPairs(P \o (F \o R))
    BY <2>1, <2>2, <2>3, PairIsPairs DEF P
  <2> QED BY <1>4, <1>5, <2>5, <2>6 DEF L
<1> QED BY <1>6, <1>7

----------------------------------------------------------------------------
(* What is left when its first token is taken.                              *)

\* The first token behind a pair.
LEMMA TailNext ==
  ASSUME NEW t \in Alphabet, NEW r \in Seq(Alphabet), IsTail(<<t>> \o r)
  PROVE  \/ t = RBrace /\ r = <<>>
         \/ t = Comma /\ IsPairs(r)
<1> DEFINE E == << >>
           R == <<RBrace>>
<1>1. E \in Seq(Alphabet) /\ RBrace \in Alphabet /\ Comma \in Alphabet
  BY TokenTypes
<1>2. R = R \o E
  BY <1>1
<1>3. CASE <<t>> \o r = R
  <2>1. <<t>> \o r = <<RBrace>> \o E
    BY <1>2, <1>3
  <2> HIDE DEF E
  <2>2. SameRest(t, r, RBrace, E)
    BY <1>1, <2>1, OneToken
  <2> QED BY <2>2 DEF SameRest, E
<1>4. CASE \E a \in Seq(Alphabet) : IsPairs(a) /\ <<t>> \o r = <<Comma>> \o a
  <2>1. PICK a \in Seq(Alphabet) : IsPairs(a) /\ <<t>> \o r = <<Comma>> \o a
    BY <1>4
  <2>2. SameRest(t, r, Comma, a)
    BY <1>1, <2>1, OneToken
  <2> QED BY <2>1, <2>2 DEF SameRest
<1> QED BY <1>3, <1>4, TailForms

\* The first token of a body.
LEMMA BodyNext ==
  ASSUME NEW t \in Alphabet, NEW r \in Seq(Alphabet), IsBody(<<t>> \o r)
  PROVE  t = LBrace /\ (r = <<RBrace>> \/ IsPairs(r))
<1>1. PICK a \in Seq(Alphabet) :
        (a = <<RBrace>> \/ IsPairs(a)) /\ <<t>> \o r = <<LBrace>> \o a
  BY BodyForms
<1>2. SameRest(t, r, LBrace, a)
  BY <1>1, OneToken, TokenTypes
<1> QED BY <1>1, <1>2 DEF SameRest

\* The only token left.
LEMMA BraceNext ==
  ASSUME NEW t \in Alphabet, NEW r \in Seq(Alphabet), <<t>> \o r = <<RBrace>>
  PROVE  t = RBrace /\ r = <<>>
<1> DEFINE E == << >>
<1>1. E \in Seq(Alphabet) /\ RBrace \in Alphabet
  BY TokenTypes
<1>2. <<t>> \o r = <<RBrace>> \o E
  BY <1>1
<1> HIDE DEF E
<1>3. SameRest(t, r, RBrace, E)
  BY <1>1, <1>2, OneToken
<1> QED BY <1>3 DEF SameRest, E

\* The first token of pairs.
LEMMA PairsNext ==
  ASSUME NEW t \in Alphabet, NEW r \in Seq(Alphabet), IsPairs(<<t>> \o r)
  PROVE  t \in Keys /\ IsValue(t[2], r)
<1>1. PICK f \in Fields, a \in Seq(Alphabet) : IsValue(f, a) /\ <<t>> \o r = <<Key(f)>> \o a
  BY DEF IsPairs
<1>2. SameRest(t, r, Key(f), a)
  BY <1>1, OneToken, TokenTypes
<1>3. Key(f)[2] = f /\ Key(f) \in Keys
  BY DEF Key, Keys
<1> QED BY <1>1, <1>2, <1>3 DEF SameRest

\* Digits.
LEMMA DigitsNext ==
  ASSUME NEW t \in Alphabet, NEW r \in Seq(Alphabet)
  PROVE  /\ IsDigits(<<t>> \o r) =>
              (t \in DigitTokens /\ IsDigits(r)) \/ IsTail(<<t>> \o r)
         /\ IsMoreDigits(<<t>> \o r) => t \in DigitTokens /\ IsDigits(r)
<1>1. ASSUME IsDigits(<<t>> \o r)
      PROVE  (t \in DigitTokens /\ IsDigits(r)) \/ IsTail(<<t>> \o r)
  <2>1. PICK ds \in Seq(DigitTokens), a \in Seq(Alphabet) : IsTail(a) /\ <<t>> \o r = ds \o a
    BY <1>1 DEF IsDigits
  <2>2. CASE ds = <<>>
    <3>1. ds \o a = a
      BY <2>2, ConcatEmptySeq
    <3> QED BY <2>1, <3>1
  <2>3. CASE ds # <<>>
    <3>1. ds \in Seq(Alphabet) /\ ds[1] \in DigitTokens /\ Tail(ds) \in Seq(DigitTokens)
      <4>1. ds \in Seq(Alphabet)
        BY TokenTypes, SeqMonotonic
      <4> QED BY <2>3, <4>1
    <3>2. FirstOf(t, r, ds, a)
      BY <2>1, <2>3, <3>1, FirstToken
    <3>3. t \in DigitTokens /\ r = Tail(ds) \o a
      BY <3>1, <3>2 DEF FirstOf
    <3> QED BY <2>1, <3>1, <3>3 DEF IsDigits
  <2> QED BY <2>2, <2>3
<1>2. ASSUME IsMoreDigits(<<t>> \o r) PROVE t \in DigitTokens /\ IsDigits(r)
  <2>1. PICK d \in DigitTokens, a \in Seq(Alphabet) : IsDigits(a) /\ <<t>> \o r = <<d>> \o a
    BY <1>2 DEF IsMoreDigits
  <2>2. SameRest(t, r, d, a)
    BY <2>1, OneToken, TokenTypes
  <2> QED BY <2>1, <2>2 DEF SameRest
<1> QED BY <1>1, <1>2

\* Digits that are there.
LEMMA DigitsThere ==
  ASSUME NEW ds \in Seq(DigitTokens), ds # <<>>, NEW a \in Seq(Alphabet), IsTail(a)
  PROVE  IsMoreDigits(ds \o a) /\ ds \o a \in Seq(Alphabet)
<1> DEFINE d == ds[1]
           es == Tail(ds)
           one == <<d>>
<1>1. ds = one \o es /\ d \in DigitTokens /\ es \in Seq(DigitTokens)
  OBVIOUS
<1>2. /\ one \in Seq(Alphabet) /\ es \in Seq(Alphabet) /\ ds \in Seq(Alphabet)
  BY <1>1, TokenTypes, SeqMonotonic
<1>3. es \o a \in Seq(Alphabet) /\ ds \o a \in Seq(Alphabet)
  BY <1>2, ConcatProperties
<1>4. IsDigits(es \o a)
  BY <1>1 DEF IsDigits
<1> HIDE DEF one, es
<1>5. ThreeInARow(one, es, a)
  BY <1>2, InARow
<1>6. ds \o a = one \o (es \o a)
  BY <1>1, <1>5 DEF ThreeInARow
<1> QED BY <1>1, <1>3, <1>4, <1>6 DEF IsMoreDigits, one

\* Strings.
LEMMA StringNext ==
  ASSUME NEW t \in Alphabet, NEW r \in Seq(Alphabet), NEW n \in Int, IsString(<<t>> \o r, n)
  PROVE  \/ t = Quote /\ IsTail(r)
         \/ n >= 1 /\ t \in {Char} \cup Spaces /\ IsString(r, n - 1)
         \/ n >= 1 /\ t = Escape /\ IsEscaped(r, n)
<1>1. PICK chars \in Seq(CharTexts), a \in Seq(Alphabet) :
        /\ Len(chars) <= n /\ IsTail(a)
        /\ <<t>> \o r = FlattenSeq(chars) \o (<<Quote>> \o a)
  BY DEF IsString
<1> DEFINE q == <<Quote>>
           X == q \o a
<1>2. q \in Seq(Alphabet) /\ X \in Seq(Alphabet) /\ Quote \in Alphabet /\ Escape \in Alphabet
  BY TokenTypes
<1>3. CASE chars = <<>>
  <2>1. FlattenSeq(chars) \o X = X
    BY <1>2, <1>3, FlattenOfNothing, ConcatEmptySeq
  <2>2. SameRest(t, r, Quote, a)
    BY <1>1, <1>2, <2>1, OneToken
  <2> QED BY <1>1, <2>2 DEF SameRest
<1>4. CASE chars # <<>>
  <2> DEFINE c == chars[1]
             more == Tail(chars)
             F == FlattenSeq(more)
  <2>1. /\ c \in CharTexts /\ more \in Seq(CharTexts) /\ chars = <<c>> \o more
        /\ Len(chars) = Len(more) + 1 /\ Len(more) \in Nat
    BY <1>4
  <2> HIDE DEF c, more
  <2>2. c \in Seq(Alphabet) /\ more \in Seq(Seq(Alphabet)) /\ F \in Seq(Alphabet)
    BY <2>1, CharTextTypes
  <2>3. FlattenSeq(chars) = c \o F
    BY <2>1, <2>2, FlattenOfFirst
  <2> HIDE DEF F, X
  <2>4. ThreeInARow(c, F, X) /\ F \o X \in Seq(Alphabet)
    BY <1>2, <2>2, InARow, ConcatProperties
  <2>5. <<t>> \o r = c \o (F \o X)
    BY <1>1, <2>3, <2>4 DEF ThreeInARow, X, q
  <2>6. n >= 1 /\ Len(more) <= n - 1
    BY <1>1, <2>1
  <2>7. IsString(F \o X, n - 1)
    BY <1>1, <2>1, <2>6 DEF IsString, F, X, q
  <2>8. CASE \E u \in {Char} \cup Spaces : c = <<u>>
    <3>1. PICK u \in {Char} \cup Spaces : c = <<u>>
      BY <2>8
    <3>2. u \in Alphabet
      BY TokenTypes
    <3>3. SameRest(t, r, u, F \o X)
      BY <2>4, <2>5, <3>1, <3>2, OneToken
    <3> QED BY <2>6, <2>7, <3>3 DEF SameRest
  <2>9. CASE \E u \in StringTokens : c = <<Escape, u>>
    <3>1. PICK u \in StringTokens : c = <<Escape, u>>
      BY <2>9
    <3> DEFINE e == <<Escape>>
               o == <<u>>
    <3>2. e \in Seq(Alphabet) /\ o \in Seq(Alphabet) /\ c = e \o o
      BY <1>2, <3>1, TokenTypes
    <3>3. o \o (F \o X) \in Seq(Alphabet)
      BY <2>4, <3>2, ConcatProperties
    <3> DEFINE Y == F \o X
    <3> HIDE DEF e, o, Y
    <3>4. ThreeInARow(e, o, Y)
      BY <2>4, <3>2, InARow DEF Y
    <3>5. <<t>> \o r = e \o (o \o Y)
      BY <2>5, <3>2, <3>4 DEF ThreeInARow, Y
    <3>6. SameRest(t, r, Escape, o \o Y)
      BY <1>2, <3>3, <3>5, OneToken DEF e, Y
    <3>7. IsEscaped(o \o Y, n)
      BY <2>4, <2>7 DEF IsEscaped, o, Y
    <3> QED BY <2>6, <3>6, <3>7 DEF SameRest
  <2> QED BY <2>1, <2>8, <2>9 DEF CharTexts
<1> QED BY <1>3, <1>4

\* The character behind an escape.
LEMMA EscapedNext ==
  ASSUME NEW t \in Alphabet, NEW r \in Seq(Alphabet), NEW n, IsEscaped(<<t>> \o r, n)
  PROVE  t \in StringTokens /\ IsString(r, n - 1)
<1>1. PICK u \in StringTokens, a \in Seq(Alphabet) :
        IsString(a, n - 1) /\ <<t>> \o r = <<u>> \o a
  BY DEF IsEscaped
<1>2. SameRest(t, r, u, a)
  BY <1>1, OneToken, TokenTypes
<1> QED BY <1>1, <1>2 DEF SameRest

\* What a value begins with, and what is left of it.
AfterFirst(f, t, r) ==
  \/ t = Null /\ IsTail(r)
  \/ Kind[f] = "name" /\ t \in NameTokens /\ IsTail(r)
  \/ Kind[f] = "str" /\ t = Quote /\ IsString(r, MaxStr)
  \/ /\ IsNum(f) /\ t \in {Minus, Plus} /\ IsMoreDigits(r)
     /\ Kind[f] = "state" => t # Minus
  \/ IsNum(f) /\ t \in DigitTokens /\ IsDigits(r)

\* The first token of a value.
LEMMA ValueNext ==
  ASSUME NEW f \in Fields, NEW t \in Alphabet, NEW r \in Seq(Alphabet),
         IsValue(f, <<t>> \o r)
  PROVE  AfterFirst(f, t, r)
<1>1. PICK ts \in AnyText(f), a \in Seq(Alphabet) : IsTail(a) /\ <<t>> \o r = ts \o a
  BY DEF IsValue
<1>2. CASE ts = <<Null>>
  <2>1. SameRest(t, r, Null, a)
    BY <1>1, <1>2, OneToken, TokenTypes
  <2> QED BY <1>1, <2>1 DEF SameRest, AfterFirst
<1>3. ASSUME Kind[f] = "name", NEW n \in NameTokens, ts = <<n>> PROVE AfterFirst(f, t, r)
  <2>1. SameRest(t, r, n, a)
    BY <1>1, <1>3, OneToken, TokenTypes
  <2> QED BY <1>1, <1>3, <2>1 DEF SameRest, AfterFirst
<1>4. CASE Kind[f] = "str" /\ ts \in StringTexts
  <2>1. PICK chars \in Seq(CharTexts) :
          Len(chars) <= MaxStr /\ ts = (<<Quote>> \o FlattenSeq(chars)) \o <<Quote>>
    BY <1>4, StringForms
  <2> DEFINE F == FlattenSeq(chars)
             q == <<Quote>>
  <2>2. F \in Seq(Alphabet) /\ q \in Seq(Alphabet) /\ Quote \in Alphabet
    BY CharTextTypes, TokenTypes
  <2> HIDE DEF F, q
  <2>3. q \o F \in Seq(Alphabet) /\ q \o a \in Seq(Alphabet) /\ F \o (q \o a) \in Seq(Alphabet)
    BY <2>2, ConcatProperties
  <2>4. ThreeInARow(q \o F, q, a) /\ ThreeInARow(q, F, q \o a)
    BY <2>2, <2>3, InARow
  <2>5. <<t>> \o r = q \o (F \o (q \o a))
    BY <1>1, <2>1, <2>4 DEF ThreeInARow, F, q
  <2>6. SameRest(t, r, Quote, F \o (q \o a))
    BY <2>2, <2>3, <2>5, OneToken DEF q
  <2>7. IsString(F \o (q \o a), MaxStr)
    BY <1>1, <2>1 DEF IsString, F, q
  <2> QED BY <1>4, <2>6, <2>7 DEF SameRest, AfterFirst
<1>5. CASE IsNum(f) /\ ts \in AnyNumbers /\ (Kind[f] = "state" => ts[1] # Minus)
  <2>1. PICK sign \in Signs, ds \in Seq(DigitTokens) \ {<<>>} : ts = sign \o ds
    BY <1>5, SignAndDigits
  <2>2. IsMoreDigits(ds \o a) /\ ds \o a \in Seq(Alphabet)
    BY <1>1, <2>1, DigitsThere
  <2>3. ds \in Seq(Alphabet)
    BY <2>1, TokenTypes, SeqMonotonic
  <2>4. CASE sign = <<>>
    <3>1. ts = ds
      BY <2>1, <2>3, <2>4, ConcatEmptySeq
    <3>2. t \in DigitTokens /\ IsDigits(r)
      BY <1>1, <2>2, <3>1, DigitsNext
    <3> QED BY <1>5, <3>2 DEF AfterFirst
  <2>5. ASSUME NEW s \in {Minus, Plus}, sign = <<s>> PROVE AfterFirst(f, t, r)
    <3> DEFINE one == <<s>>
    <3>1. s \in Alphabet /\ one \in Seq(Alphabet)
      BY TokenTypes
    <3>2. ts[1] = s
      BY <2>1, <2>5
    <3> HIDE DEF one
    <3>3. ThreeInARow(one, ds, a)
      BY <2>3, <3>1, InARow
    <3>4. <<t>> \o r = one \o (ds \o a)
      BY <1>1, <2>1, <2>5, <3>3 DEF ThreeInARow, one
    <3>5. SameRest(t, r, s, ds \o a)
      BY <2>2, <3>1, <3>4, OneToken DEF one
    <3> QED BY <1>5, <2>2, <3>2, <3>5 DEF SameRest, AfterFirst
  <2> QED BY <2>1, <2>4, <2>5 DEF Signs
<1>6. \/ ts = <<Null>>
      \/ Kind[f] = "name" /\ \E n \in NameTokens : ts = <<n>>
      \/ Kind[f] = "str" /\ ts \in StringTexts
      \/ IsNum(f) /\ ts \in AnyNumbers /\ (Kind[f] = "state" => ts[1] # Minus)
  BY TextForms, KindForms DEF IsNum
<1> QED BY <1>2, <1>3, <1>4, <1>5, <1>6

----------------------------------------------------------------------------
(* What the automaton can read.                                            *)

\* A digit and spaces behind it are the last of what was fed.
IsCutAt(tx, i) == tx[i] \in DigitTokens /\ \A k \in i + 1 .. Len(tx) : tx[k] \in Spaces
IsCut(tx) == \E i \in 1 .. Len(tx) - 1 : IsCutAt(tx, i)

\* The texts without spaces that lead from a state to the end.
CanRead(s, sc, vl, tx, r) ==
  /\ s[1] # "error"
  /\ s[1] = "start" => IsBody(r)
  /\ s[1] = "first" => r = <<RBrace>> \/ IsPairs(r)
  /\ s[1] = "next" => IsPairs(r)
  /\ s[1] = "after" => IsTail(r) \/ (IsCut(tx) /\ IsMoreDigits(r))
  /\ s[1] = "end" => r = <<>>
  /\ s[1] = "value" => IsValue(s[2], r)
  /\ s[1] = "char" => IsString(r, MaxStr - Len(vl[s[2]]))
  /\ s[1] = "escape" => /\ Len(vl[s[2]]) < MaxStr
                        /\ IsEscaped(r, MaxStr - Len(vl[s[2]]))
  /\ s[1] = "reqDigit" => IsMoreDigits(r) /\ ~ (Kind[s[2]] = "state" /\ sc.sign < 0)
  /\ s[1] = "optDigit" => IsDigits(r) /\ ~ (Kind[s[2]] = "state" /\ sc.sign < 0)
  /\ s[1] \in {"string", "null", "named"} => IsTail(r)

\* A text that some body begins with can be read to that body's end.
AcceptOK ==
  NumbersWhole(text) =>
    \A r \in Seq(Alphabet) :
      IsBody(Strip(text).out \o r) => CanRead(cs, scratch, val, text, r)

\* The last token in a number is a sign or a digit.
LastOK ==
  /\ cs[1] = "reqDigit" => Len(text) > 0 /\ text[Len(text)] \in {Minus, Plus}
  /\ cs[1] = "optDigit" => Len(text) > 0 /\ text[Len(text)] \in DigitTokens

\* The inductive invariant.
AcceptInv == ParserInv /\ LengthOK /\ PlacesOK /\ LastOK /\ AcceptOK

\* Numbers that are whole, one token before.
LEMMA WholeBefore ==
  ASSUME NEW tx \in Seq(Alphabet), NEW t \in Alphabet, NumbersWhole(Append(tx, t))
  PROVE  /\ NumbersWhole(tx)
         /\ t \in Spaces /\ Len(tx) > 0 => tx[Len(tx)] \notin {Minus, Plus}
         /\ IsCut(tx) => t \notin DigitTokens
<1> DEFINE us == Append(tx, t)
           n == Len(tx)
<1>1. /\ n \in Nat /\ Len(us) = n + 1 /\ us[n + 1] = t
      /\ \A i \in 1 .. n : us[i] = tx[i]
  OBVIOUS
<1>2. /\ \A i \in 1 .. Len(us) - 1 : us[i] \in {Minus, Plus} => us[i + 1] \notin Spaces
      /\ \A i, k \in 1 .. Len(us) :
           k > i + 1 /\ us[i] \in DigitTokens /\ us[k] \in DigitTokens
             => \E x \in i + 1 .. k - 1 : us[x] \notin Spaces
  BY DEF NumbersWhole
<1> HIDE DEF us
<1>3. NumbersWhole(tx)
  <2>1. ASSUME NEW i \in 1 .. n - 1, tx[i] \in {Minus, Plus} PROVE tx[i + 1] \notin Spaces
    <3>1. i \in 1 .. Len(us) - 1 /\ i \in 1 .. n /\ i + 1 \in 1 .. n
      BY <1>1
    <3> HIDE DEF n
    <3>2. us[i] = tx[i] /\ us[i + 1] = tx[i + 1]
      BY <1>1, <3>1
    <3> QED BY <1>2, <2>1, <3>1, <3>2
  <2>2. ASSUME NEW i \in 1 .. n, NEW k \in 1 .. n, k > i + 1,
               tx[i] \in DigitTokens, tx[k] \in DigitTokens
        PROVE  \E x \in i + 1 .. k - 1 : tx[x] \notin Spaces
    <3>1. i \in 1 .. Len(us) /\ k \in 1 .. Len(us) /\ \A x \in i + 1 .. k - 1 : x \in 1 .. n
      BY <1>1
    <3> HIDE DEF n
    <3>2. PICK x \in i + 1 .. k - 1 : us[x] \notin Spaces
      BY <1>1, <1>2, <2>2, <3>1
    <3> QED BY <1>1, <3>1, <3>2
  <2> QED BY <2>1, <2>2 DEF NumbersWhole
<1>4. ASSUME t \in Spaces, n > 0 PROVE tx[n] \notin {Minus, Plus}
  <2>1. n \in 1 .. Len(us) - 1 /\ n \in 1 .. n
    BY <1>1, <1>4
  <2> HIDE DEF n
  <2> QED BY <1>1, <1>2, <1>4, <2>1
<1>5. ASSUME IsCut(tx), t \in DigitTokens PROVE FALSE
  <2>1. PICK i \in 1 .. n - 1 :
          tx[i] \in DigitTokens /\ \A k \in i + 1 .. n : tx[k] \in Spaces
    BY <1>5 DEF IsCut, IsCutAt
  <2>2. /\ i \in 1 .. Len(us) /\ n + 1 \in 1 .. Len(us) /\ n + 1 > i + 1 /\ i \in 1 .. n
        /\ (n + 1) - 1 = n /\ \A x \in i + 1 .. n : x \in 1 .. n
    BY <1>1
  <2> HIDE DEF n
  <2>3. us[i] \in DigitTokens /\ us[n + 1] \in DigitTokens
    BY <1>1, <1>5, <2>1, <2>2
  <2>4. PICK x \in i + 1 .. n : us[x] \notin Spaces
    BY <1>2, <2>2, <2>3
  <2> QED BY <1>1, <2>1, <2>2, <2>4
<1> QED BY <1>3, <1>4, <1>5

\* A space behind a digit.
LEMMA CutMore ==
  ASSUME NEW tx \in Seq(Alphabet), NEW t \in Spaces,
         \/ IsCut(tx)
         \/ Len(tx) > 0 /\ tx[Len(tx)] \in DigitTokens
  PROVE  IsCut(Append(tx, t))
<1> DEFINE us == Append(tx, t)
           n == Len(tx)
<1>1. /\ n \in Nat /\ Len(us) = n + 1 /\ us[n + 1] = t
      /\ \A i \in 1 .. n : us[i] = tx[i]
  <2>1. t \in Alphabet
    BY TokenTypes
  <2> QED BY <2>1
<1> HIDE DEF us
<1>2. ASSUME NEW i \in 1 .. n, IsCutAt(tx, i) PROVE IsCut(us)
  <2>1. i \in 1 .. Len(us) - 1 /\ us[i] \in DigitTokens
    BY <1>1, <1>2 DEF IsCutAt
  <2>2. ASSUME NEW k \in i + 1 .. Len(us) PROVE us[k] \in Spaces
    BY <1>1, <1>2 DEF IsCutAt
  <2>3. IsCutAt(us, i)
    BY <2>1, <2>2 DEF IsCutAt
  <2> QED BY <2>1, <2>3 DEF IsCut
<1>3. CASE IsCut(tx)
  <2>1. PICK i \in 1 .. n - 1 : IsCutAt(tx, i)
    BY <1>3 DEF IsCut
  <2>2. i \in 1 .. n
    BY <1>1
  <2> QED BY <1>2, <2>1, <2>2 DEF us
<1>4. CASE n > 0 /\ tx[n] \in DigitTokens
  <2>1. n \in 1 .. n /\ IsCutAt(tx, n)
    BY <1>1, <1>4 DEF IsCutAt
  <2> QED BY <1>2, <2>1 DEF us
<1> QED BY <1>3, <1>4 DEF us

\* Where texts end, the automaton cannot go on.
LEMMA EndForms ==
  ASSUME NEW s, NEW sc, NEW vl, NEW tx, CanRead(s, sc, vl, tx, <<>>),
         Len(s) = 1 \/ s[2] \in Fields,
         s[1] \in {"start", "first", "next", "after", "end", "error", "value", "char", "escape",
                   "reqDigit", "optDigit", "string", "null", "named"},
         Len(s) = 1 => s[1] \in {"start", "first", "next", "after", "end", "error"}
  PROVE  s[1] = "end"
<1> DEFINE E == << >>
<1>1. ASSUME NEW a \in Seq(Alphabet), NEW b \in Seq(Alphabet), a # <<>> \/ b # <<>>
      PROVE  E # a \o b
  <2>1. Len(a \o b) = Len(a) + Len(b) /\ Len(a) \in Nat /\ Len(b) \in Nat
    OBVIOUS
  <2>2. Len(a) > 0 \/ Len(b) > 0
    BY <1>1
  <2>3. Len(E) = 0 /\ Len(a \o b) # 0
    BY <2>1, <2>2
  <2> QED BY <2>3
<1>0. \A t \in Alphabet : <<t>> \in Seq(Alphabet) /\ <<t>> # <<>>
  OBVIOUS
<1> HIDE DEF E
<1>2. ~ IsTail(E) /\ ~ IsPairs(E) /\ \A f \in Fields : ~ IsValue(f, E)
  BY TailTypes DEF E
<1>3. ~ IsBody(E)
  <2> SUFFICES ASSUME IsBody(E) PROVE FALSE
    OBVIOUS
  <2>1. PICK a \in Seq(Alphabet) : E = <<LBrace>> \o a
    BY BodyForms
  <2> QED BY <1>0, <1>1, <2>1, TokenTypes
<1>4. ~ IsDigits(E)
  <2> SUFFICES ASSUME IsDigits(E) PROVE FALSE
    OBVIOUS
  <2>1. PICK ds \in Seq(DigitTokens), a \in Seq(Alphabet) : IsTail(a) /\ E = ds \o a
    BY DEF IsDigits
  <2>2. ds \in Seq(Alphabet) /\ a # <<>>
    BY <2>1, TokenTypes, SeqMonotonic, TailTypes
  <2> QED BY <1>1, <2>1, <2>2
<1>5. ~ IsMoreDigits(E)
  <2> SUFFICES ASSUME IsMoreDigits(E) PROVE FALSE
    OBVIOUS
  <2>1. PICK d \in DigitTokens, a \in Seq(Alphabet) : E = <<d>> \o a
    BY DEF IsMoreDigits
  <2> QED BY <1>0, <1>1, <2>1, TokenTypes
<1>6. ASSUME NEW n PROVE ~ IsString(E, n)
  <2> SUFFICES ASSUME IsString(E, n) PROVE FALSE
    OBVIOUS
  <2>1. PICK chars \in Seq(CharTexts), a \in Seq(Alphabet) :
          E = FlattenSeq(chars) \o (<<Quote>> \o a)
    BY DEF IsString
  <2> DEFINE F == FlattenSeq(chars)
             X == <<Quote>> \o a
  <2>2. F \in Seq(Alphabet) /\ X \in Seq(Alphabet) /\ X # <<>>
    BY CharTextTypes, TokenTypes
  <2> HIDE DEF F, X
  <2>3. E # F \o X
    BY <1>1, <2>2
  <2> QED BY <2>1, <2>3 DEF F, X
<1>7. ASSUME NEW n PROVE ~ IsEscaped(E, n)
  <2> SUFFICES ASSUME IsEscaped(E, n) PROVE FALSE
    OBVIOUS
  <2>1. PICK t \in StringTokens, a \in Seq(Alphabet) : E = <<t>> \o a
    BY DEF IsEscaped
  <2> QED BY <1>0, <1>1, <2>1, TokenTypes
<1>8. CanRead(s, sc, vl, tx, E) /\ E # <<RBrace>>
  BY DEF E
<1>9. s[1] = "value" => s[2] \in Fields
  OBVIOUS
<1> QED BY <1>2, <1>3, <1>4, <1>5, <1>6, <1>7, <1>8, <1>9 DEF CanRead

----------------------------------------------------------------------------
(* The automaton takes what can be read, token by token.                    *)

\* What every state expects.
LEMMA ExpectedIs ==
  ASSUME cs \in States, NEW t
  PROVE  /\ cs[1] = "start" /\ t = LBrace => t \in Expected(cs)
         /\ cs[1] = "first" /\ t \in Keys \cup {RBrace} => t \in Expected(cs)
         /\ cs[1] = "next" /\ t \in Keys => t \in Expected(cs)
         /\ cs[1] \in {"after", "optDigit", "string", "null", "named"} /\ t \in Enders =>
              t \in Expected(cs)
         /\ cs[1] \in {"reqDigit", "optDigit"} /\ t \in DigitTokens => t \in Expected(cs)
         /\ InString(cs) /\ t \in StringTokens => t \in Expected(cs)
         /\ cs[1] \in {"start", "first", "next", "end", "value"} /\ t \in Spaces =>
              t \in Expected(cs)
         /\ cs[1] = "value" /\ (t = Null \/ t \in Begins(cs[2])) => t \in Expected(cs)
BY StateForms DEF Expected, InString, Enders

\* What the value of a field may begin with, by its kind.
LEMMA BeginsAre ==
  ASSUME NEW f \in Fields
  PROVE  /\ IsNum(f) => DigitTokens \cup {Minus, Plus} \subseteq Begins(f)
         /\ Kind[f] = "str" => Quote \in Begins(f)
         /\ Kind[f] = "name" => NameTokens \subseteq Begins(f)
BY KindForms DEF IsNum, Begins


\* What can be read after the step.
CanGoOn(r) == CanRead(cs', scratch', val', text', r)

\* What can be read between pairs is read.
LEMMA StructureAccepts ==
  ASSUME ParserInv, LengthOK, NEW t \in Alphabet, NEW r \in Seq(Alphabet), Consume(t),
         t \notin Spaces, Len(cs) = 1, CanRead(cs, scratch, val, text, <<t>> \o r),
         NumbersWhole(text')
  PROVE  CanGoOn(r)
<1>1. /\ cs[1] \in {"start", "first", "next", "after", "end", "error"} /\ cs \in States
      /\ text' = Append(text, t) /\ text \in Seq(Alphabet) /\ cs[1] # "error"
      /\ ~ InString(cs)
  BY StateForms DEF ParserInv, TypeOK, Consume, LengthOK, CanRead, InString
<1>2. ASSUME t \in Expected(cs) PROVE StructureStep(t)
  BY <1>1, <1>2, Transitions DEF ErrorStep
<1>3. CASE cs[1] = "start"
  <2>1. t = LBrace /\ (r = <<RBrace>> \/ IsPairs(r))
    BY <1>3, BodyNext DEF CanRead
  <2>2. StructureStep(t)
    BY <1>1, <1>2, <1>3, <2>1, ExpectedIs
  <2>3. Into("first")
    BY <1>3, <2>1, <2>2, TokenForms DEF StructureStep
  <2> QED BY <2>1, <2>3 DEF CanGoOn, CanRead, Into
<1>4. ASSUME cs[1] \in {"first", "next"}, t \in Keys, IsValue(t[2], r) PROVE CanGoOn(r)
  <2>1. StructureStep(t)
    BY <1>1, <1>2, <1>4, ExpectedIs
  <2>2. Inside("value", t[2])
    BY <1>4, <2>1, TokenForms DEF StructureStep
  <2> QED BY <1>4, <2>2 DEF CanGoOn, CanRead, Inside
<1>5. ASSUME cs[1] \in {"first", "after"}, t = RBrace, r = <<>> PROVE CanGoOn(r)
  <2>1. StructureStep(t)
    BY <1>1, <1>2, <1>5, ExpectedIs DEF Enders
  <2>2. Into("end")
    BY <1>5, <2>1, TokenForms DEF StructureStep
  <2> QED BY <1>5, <2>2 DEF CanGoOn, CanRead, Into
<1>6. ASSUME cs[1] = "after", t = Comma, IsPairs(r) PROVE CanGoOn(r)
  <2>1. StructureStep(t)
    BY <1>1, <1>2, <1>6, ExpectedIs DEF Enders
  <2>2. Into("next")
    BY <1>6, <2>1, TokenForms DEF StructureStep
  <2> QED BY <1>6, <2>2 DEF CanGoOn, CanRead, Into
<1>7. CASE cs[1] = "first"
  <2>1. <<t>> \o r = <<RBrace>> \/ IsPairs(<<t>> \o r)
    BY <1>7 DEF CanRead
  <2> QED BY <1>4, <1>5, <1>7, <2>1, BraceNext, PairsNext
<1>8. CASE cs[1] = "next"
  <2>1. IsPairs(<<t>> \o r)
    BY <1>8 DEF CanRead
  <2> QED BY <1>4, <1>8, <2>1, PairsNext
<1>9. CASE cs[1] = "after"
  <2>1. IsTail(<<t>> \o r) \/ (IsCut(text) /\ IsMoreDigits(<<t>> \o r))
    BY <1>9 DEF CanRead
  <2>2. IsTail(<<t>> \o r)
    <3>1. IsMoreDigits(<<t>> \o r) => t \in DigitTokens
      BY DigitsNext
    <3>2. IsCut(text) => t \notin DigitTokens
      BY <1>1, WholeBefore
    <3> QED BY <2>1, <3>1, <3>2
  <2> QED BY <1>5, <1>6, <1>9, <2>2, TailNext
<1>10. CASE cs[1] = "end"
  <2>1. <<t>> \o r = <<>>
    BY <1>10 DEF CanRead
  <2>2. Len(<<t>> \o r) = 1 + Len(r) /\ Len(r) \in Nat
    OBVIOUS
  <2> DEFINE u == <<t>> \o r
  <2>3. Len(u) = 0
    BY <2>1
  <2> HIDE DEF u
  <2>4. Len(u) # 0
    BY <2>2 DEF u
  <2> QED BY <2>3, <2>4
<1> QED BY <1>1, <1>3, <1>7, <1>8, <1>9, <1>10

\* What can be read as the first token of a value is read.
LEMMA BeginAccepts ==
  ASSUME ParserInv, NEW t \in Alphabet, NEW r \in Seq(Alphabet), Consume(t), t \notin Spaces,
         NEW f \in Fields, cs[2] = f, cs[1] = "value",
         CanRead(cs, scratch, val, text, <<t>> \o r)
  PROVE  CanGoOn(r)
<1>1. AfterFirst(f, t, r)
  <2>1. IsValue(f, <<t>> \o r)
    BY DEF CanRead
  <2> QED BY <2>1, ValueNext
<1>2. cs \in States /\ Len(cs) = 2 /\ ~ InString(cs)
  BY StateForms DEF ParserInv, TypeOK, InString
<1>3. t \in Expected(cs)
  <2>1. t = Null \/ t \in Begins(f)
    BY <1>1, BeginsAre DEF AfterFirst
  <2> QED BY <1>2, <2>1, ExpectedIs
<1>4. BeginStep(f, t)
  BY <1>2, <1>3, Transitions
     DEF ErrorStep, StructureStep, DigitStep, StringStep, EndStep
<1>5. CASE t = Null /\ IsTail(r)
  <2>1. Inside("null", f)
    BY <1>4, <1>5, TokenForms DEF BeginStep
  <2> QED BY <1>5, <2>1 DEF CanGoOn, CanRead, Inside
<1>6. CASE Kind[f] = "name" /\ t \in NameTokens /\ IsTail(r)
  <2>1. cs'[1] = "named"
    BY <1>4, <1>6, TokenForms DEF BeginStep
  <2> QED BY <1>6, <2>1 DEF CanGoOn, CanRead
<1>7. CASE Kind[f] = "str" /\ t = Quote /\ IsString(r, MaxStr)
  <2>1. Inside("char", f) /\ val' = [val EXCEPT ![f] = <<>>]
    BY <1>4, <1>7, TokenForms DEF BeginStep
  <2>2. val'[f] = <<>>
    BY <2>1 DEF ParserInv, ValuesOK
  <2>3. MaxStr - Len(val'[f]) = MaxStr
    BY <2>2, ConstantTypes
  <2> QED BY <1>7, <2>1, <2>3 DEF CanGoOn, CanRead, Inside
<1>8. CASE /\ IsNum(f) /\ t \in {Minus, Plus} /\ IsMoreDigits(r)
           /\ Kind[f] = "state" => t # Minus
  <2>1. /\ Inside("reqDigit", f)
        /\ scratch' = [kind |-> "num", sign |-> IF t = Minus THEN -1 ELSE 1, digits |-> 0]
    BY <1>4, <1>8, TokenForms DEF BeginStep
  <2>2. ~ (Kind[f] = "state" /\ scratch'.sign < 0)
    BY <1>8, <2>1
  <2> QED BY <1>8, <2>1, <2>2 DEF CanGoOn, CanRead, Inside
<1>9. CASE IsNum(f) /\ t \in DigitTokens /\ IsDigits(r)
  <2>1. /\ Inside("optDigit", f)
        /\ scratch' = [kind |-> "num", sign |-> 1, digits |-> t[2]]
    BY <1>4, <1>9, TokenForms DEF BeginStep
  <2>2. ~ (scratch'.sign < 0)
    BY <2>1
  <2> QED BY <1>9, <2>1, <2>2 DEF CanGoOn, CanRead, Inside
<1> QED BY <1>1, <1>5, <1>6, <1>7, <1>8, <1>9 DEF AfterFirst

\* What can be read of a string is read.
LEMMA StringAccepts ==
  ASSUME ParserInv, NEW t \in Alphabet, NEW r \in Seq(Alphabet), Consume(t),
         NEW f \in Fields, cs[2] = f, InString(cs),
         CanRead(cs, scratch, val, text, <<t>> \o r)
  PROVE  CanGoOn(r)
<1> DEFINE left == MaxStr - Len(val[f])
<1>1. /\ cs \in States /\ Len(cs) = 2 /\ cs[1] \in {"char", "escape"} /\ Kind[f] = "str"
      /\ val[f] \in Seq(StringTokens)
  BY StateForms DEF ParserInv, TypeOK, InString, ScratchOK, Fits
<1>2. Len(val[f]) \in Nat /\ MaxStr \in Nat /\ left \in Int
  BY <1>1, LenProperties, ConstantTypes
<1>3. \/ cs[1] = "char" /\ t = Quote /\ IsTail(r)
      \/ cs[1] = "char" /\ left >= 1 /\ t \in {Char} \cup Spaces /\ IsString(r, left - 1)
      \/ cs[1] = "char" /\ left >= 1 /\ t = Escape /\ IsEscaped(r, left)
      \/ cs[1] = "escape" /\ left >= 1 /\ t \in StringTokens /\ IsString(r, left - 1)
  <2>1. CASE cs[1] = "char"
    <3>1. IsString(<<t>> \o r, left)
      BY <2>1 DEF CanRead
    <3> HIDE DEF left
    <3> QED BY <1>2, <2>1, <3>1, StringNext
  <2>2. CASE cs[1] = "escape"
    <3>1. IsEscaped(<<t>> \o r, left) /\ left >= 1
      BY <1>2, <2>2 DEF CanRead
    <3> HIDE DEF left
    <3> QED BY <1>2, <2>2, <3>1, EscapedNext
  <2> QED BY <1>1, <2>1, <2>2
<1>4. t \in StringTokens
  BY <1>3 DEF StringTokens
<1>5. StringStep(f, t)
  <2>1. t \in Expected(cs)
    BY <1>1, <1>4, ExpectedIs
  <2>2. (cs[1] = "char" /\ t \in {Quote, Escape}) \/ left >= 1
    BY <1>3
  <2>3. ~ ErrorStep(t)
    BY <1>1, <1>2, <2>1, <2>2 DEF ErrorStep, IsCharacter
  <2> QED BY <1>1, <2>3, Transitions
          DEF StructureStep, BeginStep, DigitStep, EndStep, InString
<1>6. CASE cs[1] = "char" /\ t = Quote /\ IsTail(r)
  <2>1. Inside("string", f)
    BY <1>5, <1>6, TokenForms DEF StringStep, IsCharacter
  <2> QED BY <1>6, <2>1 DEF CanGoOn, CanRead, Inside
<1>7. CASE cs[1] = "char" /\ left >= 1 /\ t = Escape /\ IsEscaped(r, left)
  <2>1. Inside("escape", f) /\ val' = val
    BY <1>5, <1>7, TokenForms DEF StringStep, IsCharacter, Stays
  <2>2. Len(val'[f]) < MaxStr /\ MaxStr - Len(val'[f]) = left
    BY <1>2, <1>7, <2>1
  <2> HIDE DEF left
  <2> QED BY <1>7, <2>1, <2>2 DEF CanGoOn, CanRead, Inside
<1>8. ASSUME cs[1] = "char" => t \notin {Quote, Escape}, IsString(r, left - 1)
      PROVE  CanGoOn(r)
  <2>1. Inside("char", f) /\ val' = [val EXCEPT ![f] = Append(@, t)]
    BY <1>1, <1>5, <1>8 DEF StringStep
  <2>2. val'[f] = Append(val[f], t)
    BY <2>1 DEF ParserInv, ValuesOK
  <2>3. MaxStr - Len(val'[f]) = left - 1
    <3>1. Len(Append(val[f], t)) = Len(val[f]) + 1
      BY <1>1, <1>4, AppendProperties
    <3> QED BY <1>2, <2>2, <3>1
  <2> HIDE DEF left
  <2> QED BY <1>8, <2>1, <2>3 DEF CanGoOn, CanRead, Inside
<1>9. \A u \in {Char} \cup Spaces : u # Quote /\ u # Escape
  BY TokenForms
<1> QED BY <1>3, <1>6, <1>7, <1>8, <1>9

\* A digit is read.
LEMMA DigitAccepts ==
  ASSUME ParserInv, NEW t \in DigitTokens, NEW r \in Seq(Alphabet), Consume(t),
         NEW f \in Fields, cs[2] = f, cs[1] \in {"reqDigit", "optDigit"}, IsDigits(r),
         ~ (Kind[f] = "state" /\ scratch.sign < 0)
  PROVE  CanGoOn(r)
<1>1. cs \in States /\ Len(cs) = 2 /\ t \notin Enders
  BY StateForms, TokenForms DEF ParserInv, TypeOK, Enders
<1>2. t \in Expected(cs)
  BY <1>1, ExpectedIs
<1>3. DigitStep(f, t)
  BY <1>1, <1>2, Transitions
     DEF ErrorStep, StructureStep, BeginStep, StringStep, EndStep, InString
<1>4. /\ Inside("optDigit", f)
      /\ scratch' = [scratch EXCEPT !.digits = Unsigned(10 * @ + t[2], Long)]
  BY <1>3 DEF DigitStep
<1>5. scratch'.sign = scratch.sign
  BY <1>4 DEF ParserInv, ScratchOK
<1> QED BY <1>4, <1>5 DEF CanGoOn, CanRead, Inside

\* What can be read behind a value is read.
LEMMA EndAccepts ==
  ASSUME ParserInv, NEW t \in Alphabet, NEW r \in Seq(Alphabet), Consume(t),
         NEW f \in Fields, cs[2] = f, cs[1] \in {"optDigit", "string", "null", "named"},
         IsTail(<<t>> \o r), cs[1] = "optDigit" => ~ (Kind[f] = "state" /\ scratch.sign < 0)
  PROVE  CanGoOn(r)
<1>1. (t = RBrace /\ r = <<>>) \/ (t = Comma /\ IsPairs(r))
  BY TailNext
<1>2. cs \in States /\ Len(cs) # 1 /\ ~ InString(cs) /\ t \in Enders /\ t \notin DigitTokens
  BY <1>1, StateForms, TokenForms DEF ParserInv, TypeOK, InString, Enders
<1>3. t \in Expected(cs)
  BY <1>2, ExpectedIs
<1>4. EndStep(f, t)
  BY <1>2, <1>3, Transitions
     DEF ErrorStep, StructureStep, BeginStep, StringStep, DigitStep, IsRefused
<1>5. (t = Comma /\ Into("next")) \/ (t = RBrace /\ Into("end"))
  BY <1>1, <1>4, TokenForms DEF EndStep, NextPlace
<1>6. Comma # RBrace
  BY TokenForms
<1> QED BY <1>1, <1>5, <1>6 DEF CanGoOn, CanRead, Into

\* A token that can be read is read.
LEMMA KeptAccepts ==
  ASSUME ParserInv, LengthOK, NEW t \in Alphabet, NEW r \in Seq(Alphabet), Consume(t),
         t \notin Spaces \/ InString(cs), CanRead(cs, scratch, val, text, <<t>> \o r),
         NumbersWhole(text')
  PROVE  CanGoOn(r)
<1>1. cs \in States
  BY DEF ParserInv, TypeOK
<1>2. CASE Len(cs) = 1
  <2>1. ~ InString(cs)
    BY <1>1, <1>2, StateForms DEF InString
  <2> QED BY <1>2, <2>1, StructureAccepts
<1>3. CASE Len(cs) # 1
  <2>1. PICK f \in Fields : cs[2] = f
    BY <1>1, <1>3, StateForms
  <2>2. CASE InString(cs)
    BY <2>1, <2>2, StringAccepts
  <2>3. CASE cs[1] = "value"
    <3>1. ~ InString(cs)
      BY <2>3 DEF InString
    <3> QED BY <2>1, <2>3, <3>1, BeginAccepts
  <2>4. CASE cs[1] = "reqDigit"
    <3>1. IsMoreDigits(<<t>> \o r) /\ ~ (Kind[f] = "state" /\ scratch.sign < 0)
      BY <2>1, <2>4 DEF CanRead
    <3>2. t \in DigitTokens /\ IsDigits(r)
      BY <3>1, DigitsNext
    <3> QED BY <2>1, <2>4, <3>1, <3>2, DigitAccepts
  <2>5. CASE cs[1] = "optDigit"
    <3>1. IsDigits(<<t>> \o r) /\ ~ (Kind[f] = "state" /\ scratch.sign < 0)
      BY <2>1, <2>5 DEF CanRead
    <3>2. (t \in DigitTokens /\ IsDigits(r)) \/ IsTail(<<t>> \o r)
      BY <3>1, DigitsNext
    <3> QED BY <2>1, <2>5, <3>1, <3>2, DigitAccepts, EndAccepts
  <2>6. CASE cs[1] \in {"string", "null", "named"}
    <3>1. IsTail(<<t>> \o r)
      BY <2>6 DEF CanRead
    <3> QED BY <2>1, <2>6, <3>1, EndAccepts
  <2> QED BY <1>1, <1>3, <2>2, <2>3, <2>4, <2>5, <2>6, StateForms DEF InString
<1> QED BY <1>2, <1>3

\* A space between tokens changes nothing of what can be read.
LEMMA SkippedAccepts ==
  ASSUME ParserInv, LengthOK, LastOK, NEW t \in Spaces, NEW r, Consume(t),
         ~ InString(cs), CanRead(cs, scratch, val, text, r), NumbersWhole(text')
  PROVE  CanGoOn(r)
<1>1. /\ cs \in States /\ t \in Alphabet /\ t \in Enders /\ text' = Append(text, t)
      /\ text \in Seq(Alphabet) /\ t \notin DigitTokens
  BY TokenTypes, TokenForms DEF ParserInv, TypeOK, Consume, LengthOK, Enders
<1>2. Len(text) > 0 => text[Len(text)] \notin {Minus, Plus}
  BY <1>1, WholeBefore
<1>3. cs[1] # "reqDigit"
  BY <1>2 DEF LastOK
<1>4. /\ IsCut(text) => IsCut(text')
      /\ cs[1] = "optDigit" => IsCut(text')
  <2>1. cs[1] = "optDigit" => Len(text) > 0 /\ text[Len(text)] \in DigitTokens
    BY DEF LastOK
  <2> QED BY <1>1, <2>1, CutMore
<1>5. /\ t \notin Keys /\ t \notin {LBrace, RBrace, Comma, Null, Quote, Minus, Plus}
      /\ t \notin NameTokens
  BY TokenForms
<1>6. cs[1] # "error"
  BY DEF CanRead
<1>7. CASE Len(cs) = 1
  <2>1. cs[1] \in {"start", "first", "next", "after", "end"}
    BY <1>1, <1>6, <1>7, StateForms
  <2>2. t \in Expected(cs)
    BY <1>1, <2>1, ExpectedIs
  <2>3. cs' = cs
    <3>1. StructureStep(t)
      BY <1>7, <2>1, <2>2, Transitions DEF ErrorStep, InString
    <3> QED BY <1>5, <3>1 DEF StructureStep
  <2> QED BY <1>4, <2>1, <2>3 DEF CanGoOn, CanRead
<1>8. CASE cs[1] = "value"
  <2>1. t \in Expected(cs)
    BY <1>1, <1>8, ExpectedIs
  <2>0. Len(cs) # 1
    BY <1>1, <1>8, StateForms
  <2>2. PICK f \in Fields : cs[2] = f /\ BeginStep(f, t)
    BY <1>8, <2>0, <2>1, Transitions
       DEF ErrorStep, StructureStep, DigitStep, StringStep, EndStep, InString
  <2>3. cs' = cs
    BY <1>1, <1>5, <2>2 DEF BeginStep
  <2> QED BY <1>8, <2>3 DEF CanGoOn, CanRead
<1>9. CASE cs[1] \in {"optDigit", "string", "null", "named"} /\ Len(cs) # 1
  <2>1. t \in Expected(cs)
    BY <1>1, <1>9, ExpectedIs
  <2>2. cs[1] = "optDigit" => ~ IsRefused(cs[2])
    BY DEF CanRead, IsRefused
  <2>3. PICK f \in Fields : cs[2] = f /\ EndStep(f, t)
    BY <1>1, <1>9, <2>1, <2>2, Transitions
       DEF ErrorStep, StructureStep, DigitStep, StringStep, BeginStep, InString
  <2>4. Into("after")
    BY <1>5, <2>3 DEF EndStep, NextPlace
  <2>5. IsTail(r) \/ (IsCut(text') /\ IsMoreDigits(r))
    <3>1. CASE cs[1] = "optDigit"
      <4>1. IsDigits(r)
        BY <3>1 DEF CanRead
      <4>2. PICK ds \in Seq(DigitTokens), a \in Seq(Alphabet) : IsTail(a) /\ r = ds \o a
        BY <4>1 DEF IsDigits
      <4>3. CASE ds = <<>>
        <5>1. r = a
          BY <4>2, <4>3, ConcatEmptySeq
        <5> QED BY <4>2, <5>1
      <4>4. CASE ds # <<>>
        BY <1>4, <3>1, <4>2, <4>4, DigitsThere
      <4> QED BY <4>3, <4>4
    <3>2. CASE cs[1] \in {"string", "null", "named"}
      BY <3>2 DEF CanRead
    <3> QED BY <1>9, <3>1, <3>2
  <2> QED BY <2>4, <2>5 DEF CanGoOn, CanRead, Into
<1> QED BY <1>1, <1>3, <1>7, <1>8, <1>9, StateForms DEF InString

----------------------------------------------------------------------------
(* Every step keeps what can be read.                                       *)

\* A text that is one token longer, with the rest one token shorter.
MovesOver(o, t, r) == Append(o, t) \o r = o \o (<<t>> \o r)
LEMMA OneMore ==
  ASSUME NEW o \in Seq(Alphabet), NEW t \in Alphabet, NEW r \in Seq(Alphabet)
  PROVE  MovesOver(o, t, r) /\ <<t>> \o r \in Seq(Alphabet)
<1> DEFINE one == <<t>>
<1>1. Append(o, t) = o \o one /\ one \in Seq(Alphabet) /\ one \o r \in Seq(Alphabet)
  OBVIOUS
<1> HIDE DEF one
<1>2. ThreeInARow(o, one, r)
  BY <1>1, InARow
<1> QED BY <1>1, <1>2 DEF ThreeInARow, MovesOver, one

\* Every token that is fed keeps what can be read.
LEMMA AcceptKept ==
  ASSUME ParserInv, LengthOK, PlacesOK, LastOK, AcceptOK, NEW t \in Alphabet, Consume(t)
  PROVE  AcceptOK'
<1> DEFINE o == Strip(text).out
           o2 == Strip(text').out
<1>1. text' = Append(text, t) /\ text \in Seq(Alphabet) /\ o \in Seq(Alphabet)
  BY StripMoves DEF Consume, LengthOK
<1>2. /\ ~ InString(cs) /\ t \in Spaces => o2 = o
      /\ InString(cs) \/ t \notin Spaces => o2 = Append(o, t)
  BY PlacesKept DEF Skipped, Kept
<1> HIDE DEF o, o2
<1>3. SUFFICES ASSUME NumbersWhole(text'), NEW r \in Seq(Alphabet), IsBody(o2 \o r)
               PROVE  CanGoOn(r)
  BY DEF AcceptOK, CanGoOn, o2
<1>4. NumbersWhole(text)
  BY <1>1, <1>3, WholeBefore
<1>5. \A q \in Seq(Alphabet) : IsBody(o \o q) => CanRead(cs, scratch, val, text, q)
  BY <1>4 DEF AcceptOK, o
<1>6. CASE ~ InString(cs) /\ t \in Spaces
  <2>1. CanRead(cs, scratch, val, text, r)
    BY <1>2, <1>3, <1>5, <1>6
  <2> QED BY <1>3, <1>6, <2>1, SkippedAccepts
<1>7. CASE InString(cs) \/ t \notin Spaces
  <2> DEFINE q == <<t>> \o r
  <2>1. o2 \o r = o \o q /\ q \in Seq(Alphabet)
    <3>1. o2 = Append(o, t)
      BY <1>2, <1>7
    <3>2. MovesOver(o, t, r) /\ q \in Seq(Alphabet)
      BY <1>1, OneMore
    <3> QED BY <3>1, <3>2 DEF MovesOver
  <2> HIDE DEF q
  <2>2. CanRead(cs, scratch, val, text, q)
    BY <1>3, <1>5, <2>1
  <2> QED BY <1>3, <1>7, <2>2, KeptAccepts DEF q
<1> QED BY <1>6, <1>7

\* The last token in a number.
LEMMA LastKept ==
  ASSUME ParserInv, LengthOK, NEW t \in Alphabet, Consume(t)
  PROVE  LastOK'
<1>1. /\ text' = Append(text, t) /\ Len(Append(text, t)) > 0
      /\ Append(text, t)[Len(Append(text, t))] = t
  BY AppendProperties, LenProperties DEF Consume, LengthOK
<1>2. /\ cs'[1] = "reqDigit" => t \in {Minus, Plus}
      /\ cs'[1] = "optDigit" => t \in DigitTokens
  <2>1. CASE StructureStep(t)
    <3>1. cs[1] \in {"start", "first", "next", "after", "end", "error"}
      BY <2>1, StateForms DEF StructureStep, ParserInv, TypeOK
    <3> QED BY <2>1, <3>1 DEF StructureStep, Into, Inside
  <2>2. CASE ErrorStep(t)
    BY <2>2 DEF ErrorStep, Error, At
  <2>3. ASSUME NEW f, BeginStep(f, t) PROVE <1>2
    BY <2>3 DEF BeginStep, Inside
  <2>4. ASSUME NEW f, DigitStep(f, t) PROVE <1>2
    BY <2>4 DEF DigitStep, Inside
  <2>5. ASSUME NEW f, StringStep(f, t) PROVE <1>2
    BY <2>5 DEF StringStep, Inside
  <2>6. ASSUME NEW f, EndStep(f, t) PROVE <1>2
    BY <2>6 DEF EndStep, NextPlace, Into
  <2> QED BY <2>1, <2>2, <2>3, <2>4, <2>5, <2>6, Transitions
<1> QED BY <1>1, <1>2 DEF LastOK

\* The invariant holds at the start.
LEMMA StartAccepts == Started => AcceptInv
<1> SUFFICES ASSUME Started PROVE AcceptInv
  OBVIOUS
<1>1. ParserInv /\ LengthOK /\ PlacesOK
  BY StartReads DEF ReadInv
<1>2. cs = <<"start">> /\ cs[1] = "start" /\ text = <<>>
  BY DEF Started, At
<1>3. LastOK
  BY <1>2 DEF LastOK
<1>4. AcceptOK
  <2>1. Strip(text).out = <<>>
    BY <1>2, FoldOfNothing DEF StripBase
  <2>2. ASSUME NEW r \in Seq(Alphabet), IsBody(Strip(text).out \o r) PROVE IsBody(r)
    BY <2>1, <2>2, ConcatEmptySeq
  <2> QED BY <1>2, <2>2 DEF AcceptOK, CanRead
<1> QED BY <1>1, <1>3, <1>4 DEF AcceptInv

\* A reset starts anew.
LEMMA ResetAccepts == Reset => AcceptInv'
<1>1. Started => AcceptInv
  BY StartAccepts
<1>2. Reset => Started'
  BY DEF Reset, Started
<1> QED BY <1>1, <1>2, PTL

\* A token keeps the invariant.
LEMMA ConsumeAccepts ==
  ASSUME AcceptInv, NEW t \in TokensAt(cs), Consume(t)
  PROVE  AcceptInv'
<1>0. t \in Alphabet
  BY TokensThere
<1>1. ParserInv'
  BY ConsumeKeeps DEF AcceptInv
<1>2. LengthOK' /\ PlacesOK' /\ LastOK' /\ AcceptOK'
  BY <1>0, LengthKept, PlacesKept, LastKept, AcceptKept DEF AcceptInv, Consume
<1> QED BY <1>1, <1>2 DEF AcceptInv

\* Nothing changes.
LEMMA StutterAccepts ==
  ASSUME AcceptInv, UNCHANGED vars
  PROVE  AcceptInv'
<1>1. /\ cs' = cs /\ scratch' = scratch /\ fields' = fields /\ val' = val /\ text' = text
  BY DEF vars
<1> QED BY <1>1 DEF AcceptInv, ParserInv, TypeOK, ScratchOK, ValuesOK, LengthOK, PlacesOK,
                    LastOK, AcceptOK, InString, Fits

\* What begins a body goes on as one.
LEMMA PrefixForms ==
  ASSUME NEW p \in BodyPrefixes
  PROVE  \E r \in Seq(Alphabet) : IsBody(p \o r)
<1>1. PICK l \in Lists : \E k \in 0 .. Len(BodyText(l)) : p = SubSeq(BodyText(l), 1, k)
  <2>1. PICK b \in BodyTexts : p \in {SubSeq(b, 1, k) : k \in 0 .. Len(b)}
    BY DEF BodyPrefixes
  <2>2. PICK l \in Lists : b = BodyText(l)
    BY DEF BodyTexts
  <2> QED BY <2>1, <2>2
<1>5. PICK k \in 0 .. Len(BodyText(l)) : p = SubSeq(BodyText(l), 1, k)
  BY <1>1
<1>2. l \in Seq(AnyPairs)
  BY ListTypes
<1>3. BodyText(l) \in Seq(Alphabet) /\ IsBody(BodyText(l))
  <2>1. BodyText(l) \in Seq(Alphabet)
    BY <1>2, ItemTypes, Zenon
  <2>2. IsBody(BodyText(l))
    BY <1>2, ListsAreBodies, Zenon
  <2> QED BY <2>1, <2>2
<1> DEFINE b == BodyText(l)
           r == SubSeq(b, k + 1, Len(b))
<1> HIDE DEF b
<1>4. r \in Seq(Alphabet) /\ p \o r = b
  <2>1. b \in Seq(Alphabet) /\ Len(b) \in Nat /\ k \in 0 .. Len(b) /\ p = SubSeq(b, 1, k)
    BY <1>3, <1>5 DEF b
  <2>2. 1 \in 1 .. Len(b) + 1 /\ k \in 1 - 1 .. Len(b) /\ Len(b) \in k .. Len(b)
    BY <2>1
  <2>3. SubSeq(b, 1, k) \o r = SubSeq(b, 1, Len(b)) /\ SubSeq(b, 1, Len(b)) = b
    BY <2>1, <2>2, ConcatAdjacentSubSeq, SubSeqFull
  <2>4. r \in Seq(Alphabet)
    <3>1. k + 1 \in Int /\ Len(b) \in Int
      BY <2>1
    <3>2. \A i \in k + 1 .. Len(b) : b[i] \in Alphabet
      BY <2>1
    <3> QED BY <3>1, <3>2, SubSeqProperties, Zenon
  <2> QED BY <2>1, <2>3, <2>4, Zenon
<1> QED BY <1>3, <1>4 DEF b

\* The invariant is strong enough.
LEMMA AllAccepted == AcceptInv /\ CompleteIsUnderstood => PairsAreAccepted
<1> SUFFICES ASSUME AcceptInv, CompleteIsUnderstood,
                    Stripped(text) \in BodyPrefixes, NumbersWhole(text)
             PROVE  Result = IF Stripped(text) \in BodyTexts THEN "complete" ELSE "incomplete"
  BY DEF PairsAreAccepted
<1> DEFINE o == Strip(text).out
           E == << >>
<1>1. Stripped(text) = o /\ text \in Seq(Alphabet) /\ cs \in States
  BY StrippedIs DEF AcceptInv, LengthOK, ParserInv, TypeOK
<1>2. \A r \in Seq(Alphabet) : IsBody(o \o r) => CanRead(cs, scratch, val, text, r)
  BY DEF AcceptInv, AcceptOK
<1> HIDE DEF o
<1>3. cs # Error
  <2>1. PICK r \in Seq(Alphabet) : IsBody(o \o r)
    BY <1>1, PrefixForms
  <2>2. cs[1] # "error"
    BY <1>2, <2>1 DEF CanRead
  <2> QED BY <2>2 DEF Error, At
<1>4. CASE o \in BodyTexts
  <2>1. IsBody(o) /\ o \in Seq(Alphabet)
    <3>1. PICK l \in Lists : o = BodyText(l)
      BY <1>4 DEF BodyTexts
    <3>2. l \in Seq(AnyPairs)
      BY ListTypes
    <3> QED BY <3>1, <3>2, ItemTypes DEF IsBody
  <2>2. E \in Seq(Alphabet) /\ o \o E = o
    BY <2>1, ConcatEmptySeq
  <2>3. CanRead(cs, scratch, val, text, E)
    BY <1>2, <2>1, <2>2
  <2>4. cs[1] = "end"
    <3>1. CASE Len(cs) = 1
      <4>0. cs[1] \in {"start", "first", "next", "after", "end", "error"}
        BY <1>1, <3>1, StateForms
      <4> QED BY <2>3, <3>1, <4>0, EndForms
    <3>2. CASE Len(cs) # 1
      <4>1. cs[2] \in Fields
        BY <1>1, <3>2, StateForms
      <4>2. cs[1] \in {"value", "char", "escape", "reqDigit", "optDigit", "string", "null", "named"}
        BY <1>1, <3>2, StateForms
      <4> QED BY <2>3, <3>2, <4>1, <4>2, EndForms
    <3> QED BY <3>1, <3>2
  <2>5. cs = Final
    BY <1>1, <2>4 DEF States, At, In, Final
  <2> QED BY <1>1, <1>3, <1>4, <2>5 DEF Result
<1>5. CASE o \notin BodyTexts
  <2>1. Result # "complete"
    <3> SUFFICES ASSUME Result = "complete" PROVE FALSE
      OBVIOUS
    <3>1. <<Stripped(text), fields, val>> \in Bodies
      BY DEF CompleteIsUnderstood
    <3>2. PICK l \in Lists : Stripped(text) = BodyText(l)
      BY <3>1 DEF Bodies
    <3> QED BY <1>1, <1>5, <3>2 DEF BodyTexts
  <2> QED BY <1>1, <1>3, <1>5, <2>1 DEF Result
<1> QED BY <1>1, <1>4, <1>5

\* Every list of pairs is accepted, whatever its order, with spaces between its
\* tokens and in pieces: what a body begins with is incomplete and never an error,
\* and the whole of it is complete.
THEOREM PairsAccepted == Spec => []PairsAreAccepted
<1>1. Init => AcceptInv
  BY StartAccepts DEF Init, Started
<1>2. AcceptInv /\ [Next]_vars => AcceptInv'
  <2> SUFFICES ASSUME AcceptInv, [Next]_vars PROVE AcceptInv'
    OBVIOUS
  <2>1. CASE Reset
    BY <2>1, ResetAccepts
  <2>2. CASE \E t \in TokensAt(cs) : Consume(t)
    BY <2>2, ConsumeAccepts
  <2>3. CASE UNCHANGED vars
    BY <2>3, StutterAccepts
  <2> QED BY <2>1, <2>2, <2>3 DEF Next
<1> QED BY <1>1, <1>2, AllAccepted, CompleteBodies, PTL DEF Spec

=============================================================================
