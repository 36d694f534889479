----------------------------- MODULE Tokeniser ------------------------------
(***************************************************************************)
(* The tokeniser (Tokeniser.hpp): the router takes the parts of a path from *)
(* it, and lists of entities are split with it.  It is reset to a buffer,    *)
(* then asked for its top and popped until it is empty, as all callers do.   *)
(* Its positions i_ and j_ count from 1, and cend() is Len(b) + 1.           *)
(***************************************************************************)
EXTENDS Integers, Sequences, FiniteSetsExt

\* A plausible slip: the search starts behind the first character.
MutFind(b, delim, from) == Min({k \in from + 1..Len(b) : b[k] = delim} \cup {Len(b) + 1})

\* std::find.
Find(b, delim, from) == Min({k \in from..Len(b) : b[k] = delim} \cup {Len(b) + 1})

Reset(b, delim) == [i |-> 1, j |-> Find(b, delim, 1)]

Empty(b, s) == s.i = Len(b) + 1

Top(b, s) == SubSeq(b, s.i, s.j - 1)

Pop(b, delim, s) ==
  IF s.j # Len(b) + 1
  THEN [i |-> s.j + 1, j |-> Find(b, delim, s.j + 1)]
  ELSE [s EXCEPT !.i = s.j]

\* n rounds of a loop that takes the top and pops until the tokeniser is empty.
Loop(b, delim) ==
  LET round[n \in 0..Len(b)] ==
        IF n = 0 THEN [pos |-> Reset(b, delim), tops |-> <<>>]
        ELSE LET l == round[n - 1] IN
             IF Empty(b, l.pos) THEN l
             ELSE [pos |-> Pop(b, delim, l.pos), tops |-> Append(l.tops, Top(b, l.pos))]
  IN round[Len(b)]

Tokens(b, delim) == Loop(b, delim).tops

----------------------------------------------------------------------------
(* What the tokens are meant to be.                                        *)

Delims(b, delim) == {k \in 1..Len(b) : b[k] = delim}

\* The number of parts: one more than the delimiters, but neither an empty
\* buffer nor the end of one counts as a part.
PartCount(b, delim) ==
  Cardinality(Delims(b, delim)) +
    (IF b = <<>> \/ Len(b) \in Delims(b, delim) THEN 0 ELSE 1)

\* The n-th part: the characters that have n - 1 delimiters before them.
Part(b, delim, n) ==
  LET Before(k) == Cardinality({d \in Delims(b, delim) : d < k})
      at == {k \in 1..Len(b) : b[k] # delim /\ Before(k) = n - 1}
  IN IF at = {} THEN <<>> ELSE SubSeq(b, Min(at), Max(at))

\* The loop sees the parts between the delimiters in order, empty ones included,
\* save that a delimiter at the end opens none, and has come to its end after as
\* many rounds as there are characters.
SplitsIntoParts(b, delim) ==
  /\ Tokens(b, delim) = [n \in 1..PartCount(b, delim) |-> Part(b, delim, n)]
  /\ Empty(b, Loop(b, delim).pos)

=============================================================================
