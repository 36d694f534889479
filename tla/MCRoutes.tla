------------------------------ MODULE MCRoutes ------------------------------
(***************************************************************************)
(* Model checking: a client writes a URI part by part, and the router is     *)
(* asked about each one that it could send.                                 *)
(***************************************************************************)
EXTENDS Routes

CONSTANTS
  Parts,     \* what the client writes between two slashes
  NameParts, \* the same from the third part below /api on
  MaxParts   \* bound on the number of parts below /api

\* What a part is made of, with commas.
Words == {"rec", "sess", "asset", "contr", "market", "trader", "order", "trade",
          "posn", "view", "NAME"}

\* Parts are words and commas.  In a part that may stand for an entity every comma
\* ends one word, unless there is no word at all.
ASSUME PartsAssumption ==
  /\ Parts \cup NameParts \subseteq Seq(Words \cup {","})
  /\ \A part \in Parts :
       Listing(part) = {} \/ \A token \in Parse(part) : Len(token) = 1

VARIABLES parts, uri

\* A name, nothing at all, and lists: of one side, of both, of one entity, with
\* an unknown name, and with nothing in them.
Others == {<<>>, <<"asset", ",", "trader">>, <<"order", ",", "view">>,
           <<"market", ",", "posn">>, <<"trader", ",">>, <<"order", ",", "order">>,
           <<"asset", ",", "NAME">>, <<",">>}
AllParts == {<<w>> : w \in Words} \cup Others
SomeParts == {<<"NAME">>, <<>>, <<"NAME", ",", "NAME">>}

Init == parts = <<>> /\ uri = <<"/", "api">>

Extend(part) ==
  /\ Len(parts) < MaxParts
  /\ part \in IF Len(parts) < 2 THEN Parts ELSE NameParts
  /\ parts' = Append(parts, part)
  /\ uri' = uri \o <<"/">> \o part

Next == \E part \in Parts \cup NameParts : Extend(part)

Spec == Init /\ [][Next]_<<parts, uri>>

\* The path as the client means it, where a slash at the end means nothing.
Meant ==
  IF parts # <<>> /\ parts[Len(parts)] = <<>> THEN SubSeq(parts, 1, Len(parts) - 1) ELSE parts

(* Properties.                                                             *)

\* The loops that pop a tokeniser see the parts between the delimiters, empty
\* ones included, and end: on every URI, and on every part of it as a list.
TokensAreParts ==
  /\ SplitsIntoParts(uri, "/")
  /\ \A k \in DOMAIN parts : SplitsIntoParts(parts[k], ",")

\* The nested matching of the code serves, at every depth and for every method,
\* each resource that the documentation lists, and beyond it nothing but the lists
\* that Undocumented sets apart: POST /api/rec/market,market is one.
ServedAsDocumented ==
  \A m \in Methods : Served(m, uri) <=> Documented(m, Meant) \/ Undocumented(m, Meant)

\* A client is told that a method is not allowed exactly where another one is,
\* and that there is nothing exactly where no method is served.
RefusalsTellWhatIsThere ==
  \A m \in Methods :
    /\ MethodNotAllowed(m, uri) <=>
         ~Served(m, uri) /\ \E other \in Methods : Served(other, uri)
    /\ NotFound(m, uri) <=> \A other \in Methods : ~Served(other, uri)

=============================================================================
