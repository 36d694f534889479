------------------------------ MODULE RestServ ------------------------------
(***************************************************************************)
(* The REST service (RestServ.cpp, Rest.cpp): a request is routed by its     *)
(* method and URI, its body is kept in the one RestRequest object that all   *)
(* requests share, the fields of the body are checked against those that     *)
(* the route asks for, and the registry is called.                          *)
(*                                                                          *)
(* The body is what the parser makes of it (RequestParser), the paths are    *)
(* those of Routes, and an order is followed to the door of createOrder      *)
(* (Serv).                                                                  *)
(***************************************************************************)
EXTENDS Registry, Routes, Calendar

CONSTANTS
  Assets,    \* assets, which are only ever loaded
  Fields,    \* the fields of requests
  Zeros,     \* Zeros[f]: what the field is after a reset
  Requests,  \* what clients ask for: method, URI, body, user, and the business
             \* day of the time that they send, or of the clock
  NoUser     \* the user of a request without authentication

\* A body is absent, whole, cut off or malformed, and says what its pairs say up
\* to its end or its error.
Forms == {"absent", "whole", "cut", "malformed"}

ASSUME RestAssumption ==
  /\ \A r \in Requests :
       r.body.form \in Forms /\ DOMAIN r.body.says \subseteq Fields /\ r.busDay \in BusDays
  /\ DOMAIN Zeros = Fields

\* What clients say of markets and traders; dates are those of the days.
ValuesOf ==
  [mnem |-> Mnems, display |-> Displays, email |-> Emails, contr |-> AnyContrs,
   state |-> States]
Dates == {"settlDate", "expiryDate"}

ASSUME ValuesAssumption ==
  /\ DOMAIN ValuesOf \cup Dates \subseteq Fields
  /\ \A r \in Requests, f \in Fields :
       f \in DOMAIN r.body.says =>
         /\ f \in DOMAIN ValuesOf => r.body.says[f] \in ValuesOf[f]
         /\ f \in Dates => maybeIsoToJd(r.body.says[f]) \in Days
  /\ Zeros["state"] \in States /\ Zeros["email"] \in Emails
  /\ \A f \in Dates : Zeros[f] = 0

VARIABLES
  request,  \* request_: the fields that were seen, and all values
  status,   \* of the last answer of the service; 0 when the web server answered
  asked     \* history: the call that the last request was routed to, its body and user

restVars == <<markets, traders, emailIdx, last, request, status, asked>>
registryVars == <<markets, traders, emailIdx>>

----------------------------------------------------------------------------
(* The request object.                                                     *)

\* A plausible slip: reset(false), which starts the parser anew and no more.
MutCleared == request

\* A plausible slip: the fields are forgotten, but not their values.
MutClearedFields == [request EXCEPT !.fields = {}]

Cleared == [fields |-> {}, val |-> Zeros]

\* The object after reset and parse.
Heard(body) ==
  LET r == Cleared IN
  [fields |-> r.fields \cup DOMAIN body.says,
   val |-> [f \in Fields |-> IF f \in DOMAIN body.says THEN body.says[f] ELSE r.val[f]]]

\* valid(required) and valid(required, optional).
Has(required) == required \subseteq request'.fields

Valid(required, optional) ==
  Has(required) /\ request'.fields \subseteq required \cup optional

----------------------------------------------------------------------------
(* Answers.                                                                *)

\* The status of the exceptions of Exception.hpp; all others are an internal
\* server error.
StatusOf(outcome) ==
  CASE outcome = "ok" -> 200
    [] outcome \in {"BadRequest", "Invalid", "AlreadyExists"} -> 400
    [] outcome = "Unauthorized" -> 401
    [] outcome = "NotFound" -> 404
    [] outcome = "MethodNotAllowed" -> 405
    [] outcome = "bad_alloc" -> 500

Answer(outcome) == status' = StatusOf(outcome)
Decline(outcome) == Answer(outcome) /\ UNCHANGED <<registryVars, last>>

\* The answer to what the registry was asked.
Relay == Answer(last'.outcome)

\* The mnemonic of the path; between two slashes it is empty.
Named(p) == IF p[4] = <<>> THEN "" ELSE p[4][1]

----------------------------------------------------------------------------
(* The calls of Rest.                                                      *)

\* A record is read from the set that has it.
Get(p, known) == Decline(IF Len(p) < 4 \/ Named(p) \in known THEN "ok" ELSE "NotFound")

PostMarket(busDay) ==
  LET v == request'.val IN
  IF Valid({"mnem", "display", "contr"}, {"settlDate", "expiryDate", "state"})
  THEN /\ CreateMarket(v["mnem"], v["display"], v["contr"], maybeIsoToJd(v["settlDate"]),
                       maybeIsoToJd(v["expiryDate"]), v["state"], busDay)
       /\ Relay
  ELSE Decline("Invalid")

\* A plausible slip: a field that is left out is taken for an empty one.
MutGiven(f) == {request'.val[f]}

\* The value of an optional field.
Given(f) == IF f \in request'.fields THEN {request'.val[f]} ELSE {}

PutMarket(p) ==
  IF Valid({}, {"display", "state"})
  THEN UpdateMarket(Named(p), Given("display"), Given("state")) /\ Relay
  ELSE Decline("Invalid")

PostTrader ==
  LET v == request'.val IN
  IF Valid({"mnem", "display"}, {"email"})
  THEN CreateTrader(v["mnem"], v["display"], v["email"]) /\ Relay
  ELSE Decline("Invalid")

PutTrader(p) ==
  IF Has({"display"})
  THEN UpdateTrader(Named(p), request'.val["display"]) /\ Relay
  ELSE Decline("Invalid")

\* createOrder is left where it begins to match (Serv goes on from there): it may
\* still fail, before the order is journalled and in the book, or after it.  Book,
\* journal and sessions are no part of the registry, which no outcome touches.
PostOrder(p, user, busDay) ==
  LET v == request'.val
      allowed == Valid({"side", "lots", "ticks"}, {"ref", "minLots"})
      known == user \in DOMAIN traders /\ Named(p) \in DOMAIN markets
      closed == markets[Named(p)].expiryDay \in 1..busDay - 1
      enough == v["lots"] # 0 /\ v["lots"] >= v["minLots"]
  IN \/ user = NoUser /\ Decline("Unauthorized")
     \/ /\ user # NoUser
        /\ \/ ~allowed /\ Decline("Invalid")
           \/ allowed /\ ~known /\ Decline("NotFound")
           \/ allowed /\ known /\ closed /\ Decline("NotFound")
           \/ allowed /\ known /\ ~closed /\ ~enough /\ Decline("Invalid")
           \/ /\ allowed /\ known /\ ~closed /\ enough
              /\ Decline("ok") \/ Decline("bad_alloc")

\* Lists are read without fail.
ListCalls == {"getRec", "getSess"}

\* These answer with what they were asked, and neither read nor change anything.
NotImplemented ==
  {"getOrder", "getTrade", "getPosn", "getView",
   "putOrder", "deleteOrder", "postTrade", "deleteTrade"}

Perform(call, p, user, busDay) ==
  \/ call = "postMarket" /\ PostMarket(busDay)
  \/ call = "putMarket" /\ PutMarket(p)
  \/ call = "postTrader" /\ PostTrader
  \/ call = "putTrader" /\ PutTrader(p)
  \/ call = "postOrder" /\ PostOrder(p, user, busDay)
  \/ call = "getMarket" /\ Get(p, DOMAIN markets)
  \/ call = "getTrader" /\ Get(p, DOMAIN traders)
  \/ call = "getAsset" /\ Get(p, Assets)
  \/ call = "getContr" /\ Get(p, Contrs)
  \/ call \in ListCalls \cup NotImplemented /\ Decline("ok")

----------------------------------------------------------------------------
(* Requests.                                                               *)

\* The records that clients name in paths.
ASSUME PathsAssumption ==
  \A r \in Requests :
    Route(r.method, r.uri).call \in {"putMarket", "putTrader"} =>
      Named(Path(r.uri)) \in Mnems

NotAsked == [call |-> None, body |-> [form |-> "absent", says |-> <<>>], user |-> NoUser]

\* A request that is not for the service resets it all the same.
ServePage(r) ==
  /\ Page(r.uri)
  /\ request' = Cleared
  /\ status' = 0
  /\ asked' = NotAsked
  /\ UNCHANGED <<registryVars, last>>

\* httpRequest: the body is parsed before the request is routed.  The code makes the
\* call and tests the match bits afterwards; it sets both before every call, so a
\* request without them has made none, and they are tested first here.
HttpRequest(r) ==
  LET route == Route(r.method, r.uri) IN
  /\ ~Page(r.uri)
  /\ request' = Heard(r.body)
  /\ asked' = [call |-> route.call, body |-> r.body, user |-> r.user]
  /\ IF r.body.form \in {"cut", "malformed"} THEN Decline("BadRequest")
     ELSE IF ~route.uri THEN Decline("NotFound")
     ELSE IF route.call = None THEN Decline("MethodNotAllowed")
     ELSE Perform(route.call, Path(r.uri), r.user, r.busDay)

\* The model that the daemon loads (Mock.cpp) has no markets.
RestInit ==
  /\ Init /\ markets = <<>>
  /\ request = [fields |-> {}, val |-> Zeros]
  /\ status = 0
  /\ asked = NotAsked

RestNext ==
  \E r \in Requests : ServePage(r) \/ HttpRequest(r)

RestSpec == RestInit /\ [][RestNext]_restVars

----------------------------------------------------------------------------
(* Properties.                                                             *)

\* The fields that doc/RestApi.md marks as required.
Required(call) ==
  CASE call = "postMarket" -> {"mnem", "display", "contr"}
    [] call = "putMarket" -> {"display"}
    [] call = "postTrader" -> {"mnem", "display"}
    [] call = "putTrader" -> {"display"}
    [] call = "postOrder" -> {"side", "lots", "ticks"}
    [] call = "putOrder" -> {"lots"}
    [] call = "postTrade" -> {"trader", "side", "lots", "ticks"}
    [] OTHER -> {}

\* The calls that the code accepts without them, against the documentation.
Unchecked == {"putMarket", "putOrder", "postTrade"}

\* A request is accepted only when its own body came whole, or not at all, and an
\* order only from a trader who is known.  A call that is not Unchecked is accepted
\* only when its own body has every field that is required, whatever the requests
\* before it have left in the shared object.
AcceptedHaveFields ==
  status = 200 =>
    /\ asked.body.form \in {"whole", "absent"}
    /\ asked.call \notin Unchecked => Required(asked.call) \subseteq DOMAIN asked.body.says
    /\ asked.call = "postOrder" => asked.user \in DOMAIN traders

\* The value that a body gives a field, or its zero.
Says(body, f) == IF f \in DOMAIN body.says THEN body.says[f] ELSE Zeros[f]

\* What a step creates is what its own request says.
CreatesAsAsked ==
  LET body == asked'.body IN
  /\ \A m \in DOMAIN markets' \ DOMAIN markets :
       /\ m = Says(body, "mnem")
       /\ markets'[m] = [contr |-> Says(body, "contr"), display |-> Says(body, "display"),
                         state |-> Says(body, "state"),
                         settlDay |-> maybeIsoToJd(Says(body, "settlDate")),
                         expiryDay |-> maybeIsoToJd(Says(body, "expiryDate"))]
  /\ \A t \in DOMAIN traders' \ DOMAIN traders :
       /\ t = Says(body, "mnem")
       /\ traders'[t] = [display |-> Says(body, "display"), email |-> Says(body, "email")]

\* A new record is what the request that made it says, and nothing that an
\* earlier one said: what it leaves out is empty.
CreatedAsAsked == [][CreatesAsAsked]_restVars

\* The dates that a client reads of a market are dates, lead back to its days,
\* and are in their order: the conversions there and back agree.
DatesReadBack ==
  \A m \in DOMAIN markets :
    LET settlDate == maybeJdToIso(markets[m].settlDay)
        expiryDate == maybeJdToIso(markets[m].expiryDay)
    IN /\ maybeIsoToJd(settlDate) = markets[m].settlDay
       /\ maybeIsoToJd(expiryDate) = markets[m].expiryDay
       /\ expiryDate <= settlDate

\* An answer other than success tells the truth of the registry: no market and no
\* trader was created or changed, also when memory ran out on the way.  It says
\* nothing of orders: one may stay in book and journal behind an answer of 500,
\* which is the matter of Serv's AllOrNothing.
RefusedKeepsRegistry == [][status' # 200 => UNCHANGED registryVars]_restVars

\* Whatever is asked, the registry takes only steps of its own specification:
\* what is proved of Registry holds of the service.
ImplementsRegistry == Spec

=============================================================================
