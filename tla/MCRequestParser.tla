-------------------------- MODULE MCRequestParser ---------------------------
\* Model checking: a field of each kind, and small numbers of bits.
EXTENDS RequestParser
OneOfEach == [mnem |-> "str", lots |-> "long", settlDate |-> "int",
              state |-> "state", side |-> "name"]
Space == {<<"space">>}
=============================================================================
