------------------------------- MODULE MCServ -------------------------------
(* Small instances of Serv for TLC.  Traders are interchangeable.           *)
EXTENDS Serv

TraderSymmetry == Permutations(Traders)

\* The points whose failure createOrder undoes.
Undone == {"create", "level", "journal"}
NotUndone == {"match", "posn", "reserve"}
NoPoints == {}

\* Quantities that a client may send by mistake.
NegativeLots == {-1, 1}
NegativeMin  == {-1, 0}
=============================================================================
