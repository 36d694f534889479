------------------------------- MODULE Routes -------------------------------
(***************************************************************************)
(* The router: which call of Rest a method and a URI select (RestServ.cpp),  *)
(* and the resources that doc/RestApi.md lists.                             *)
(*                                                                          *)
(* A URI is a sequence of words, slashes and commas.  The word NAME stands   *)
(* for whatever a client may name a record.                                 *)
(***************************************************************************)
EXTENDS Tokeniser

Methods == {"GET", "POST", "PUT", "DELETE", "HEAD"}
RecEntities == {"asset", "contr", "market", "trader"}
SessEntities == {"order", "trade", "posn", "view"}
Entities == RecEntities \cup SessEntities

\* EntitySet::parse: the entities that a part lists; it throws for an unknown
\* name.
Parse(part) == LET ts == Tokens(part, ",") IN {ts[k] : k \in DOMAIN ts}
Known(es) == es \subseteq {<<e>> : e \in Entities}
Many(es) == Cardinality(es) > 1

\* RestServ::reset: the leading slash is removed.
Path(uri) == Tokens(IF uri # <<>> /\ uri[1] = "/" THEN Tail(uri) ELSE uri, "/")

----------------------------------------------------------------------------
(* Routing.  MatchUri and MatchMethod are set where a path ends on one of    *)
(* the levels, and the call is made there.                                  *)

None == "none"
Miss == [uri |-> FALSE, call |-> None]

\* A plausible slip: the path matches together with the method.
MutLeaf(m, calls) ==
  [uri |-> m \in DOMAIN calls, call |-> IF m \in DOMAIN calls THEN calls[m] ELSE None]

\* The end of a path at a resource that has these methods.
Leaf(m, calls) ==
  [uri |-> TRUE, call |-> IF m \in DOMAIN calls THEN calls[m] ELSE None]

\* assetRequest, contrRequest and viewRequest: all records, or one of them.
ReadRequest(m, p, get) ==
  IF Len(p) <= 1 THEN Leaf(m, [GET |-> get]) ELSE Miss

\* A plausible slip: markets are created at the path of a market.
MutMarketRequest(m, p) ==
  CASE p = <<>> -> Leaf(m, [GET |-> "getMarket"])
    [] Len(p) = 1 -> Leaf(m, [GET |-> "getMarket", POST |-> "postMarket",
                              PUT |-> "putMarket"])
    [] OTHER -> Miss

MarketRequest(m, p) ==
  CASE p = <<>> -> Leaf(m, [GET |-> "getMarket", POST |-> "postMarket"])
    [] Len(p) = 1 -> Leaf(m, [GET |-> "getMarket", PUT |-> "putMarket"])
    [] OTHER -> Miss

TraderRequest(m, p) ==
  CASE p = <<>> -> Leaf(m, [GET |-> "getTrader", POST |-> "postTrader"])
    [] Len(p) = 1 -> Leaf(m, [GET |-> "getTrader", PUT |-> "putTrader"])
    [] OTHER -> Miss

OrderRequest(m, p) ==
  CASE p = <<>> -> Leaf(m, [GET |-> "getOrder"])
    [] Len(p) = 1 -> Leaf(m, [GET |-> "getOrder", POST |-> "postOrder"])
    [] Len(p) = 2 -> Leaf(m, [GET |-> "getOrder", PUT |-> "putOrder",
                              DELETE |-> "deleteOrder"])
    [] OTHER -> Miss

TradeRequest(m, p) ==
  CASE p = <<>> -> Leaf(m, [GET |-> "getTrade"])
    [] Len(p) = 1 -> Leaf(m, [GET |-> "getTrade", POST |-> "postTrade"])
    [] Len(p) = 2 -> Leaf(m, [GET |-> "getTrade", DELETE |-> "deleteTrade"])
    [] OTHER -> Miss

PosnRequest(m, p) ==
  IF Len(p) <= 2 THEN Leaf(m, [GET |-> "getPosn"]) ELSE Miss

\* A list of entities is read as one resource, whatever it lists, and ends the
\* path.
ListRequest(m, p, get) ==
  IF Len(p) = 1 THEN Leaf(m, [GET |-> get]) ELSE Miss

RecRequest(m, p) ==
  LET es == Parse(p[1]) IN
  CASE p = <<>> -> Leaf(m, [GET |-> "getRec"])
    [] p # <<>> /\ Known(es) /\ Many(es) -> ListRequest(m, p, "getRec")
    [] p # <<>> /\ es = {<<"asset">>} -> ReadRequest(m, Tail(p), "getAsset")
    [] p # <<>> /\ es = {<<"contr">>} -> ReadRequest(m, Tail(p), "getContr")
    [] p # <<>> /\ es = {<<"market">>} -> MarketRequest(m, Tail(p))
    [] p # <<>> /\ es = {<<"trader">>} -> TraderRequest(m, Tail(p))
    [] OTHER -> Miss

SessRequest(m, p) ==
  LET es == Parse(p[1]) IN
  CASE p = <<>> -> Leaf(m, [GET |-> "getSess"])
    [] p # <<>> /\ Known(es) /\ Many(es) -> ListRequest(m, p, "getSess")
    [] p # <<>> /\ es = {<<"order">>} -> OrderRequest(m, Tail(p))
    [] p # <<>> /\ es = {<<"trade">>} -> TradeRequest(m, Tail(p))
    [] p # <<>> /\ es = {<<"posn">>} -> PosnRequest(m, Tail(p))
    [] p # <<>> /\ es = {<<"view">>} -> ReadRequest(m, Tail(p), "getView")
    [] OTHER -> Miss

\* restRequest, with the path below /api, which itself is no resource.
RestRequest(m, p) ==
  CASE p # <<>> /\ p[1] = <<"rec">> -> RecRequest(m, Tail(p))
    [] p # <<>> /\ p[1] = <<"sess">> -> SessRequest(m, Tail(p))
    [] p # <<>> /\ p[1] = <<"view">> -> ReadRequest(m, Tail(p), "getView")
    [] OTHER -> Miss

\* httpRequest hands everything that is not below /api to the web server.
Page(uri) == LET p == Path(uri) IN p = <<>> \/ p[1] # <<"api">>
Route(m, uri) == RestRequest(m, Tail(Path(uri)))

\* What is decided by the URI and the method alone.
Served(m, uri) == Route(m, uri).call # None
NotFound(m, uri) == ~Route(m, uri).uri
MethodNotAllowed(m, uri) == Route(m, uri).uri /\ ~Served(m, uri)

----------------------------------------------------------------------------
(* The resources of doc/RestApi.md: a method, the names that begin the path, *)
(* and how many parts of the client's choice may follow.                    *)

Resource(m, names, least, most) ==
  [method |-> m, names |-> names, least |-> least, most |-> most]

Listed ==
  { Resource("GET", <<"rec">>, 0, 0),
    Resource("GET", <<"rec", "asset">>, 0, 1),
    Resource("GET", <<"rec", "contr">>, 0, 1),
    Resource("GET", <<"rec", "market">>, 0, 1),
    Resource("POST", <<"rec", "market">>, 0, 0),
    Resource("PUT", <<"rec", "market">>, 1, 1),
    Resource("GET", <<"rec", "trader">>, 0, 1),
    Resource("POST", <<"rec", "trader">>, 0, 0),
    Resource("PUT", <<"rec", "trader">>, 1, 1),
    Resource("GET", <<"sess">>, 0, 0),
    Resource("GET", <<"sess", "order">>, 0, 2),
    Resource("POST", <<"sess", "order">>, 1, 1),
    Resource("PUT", <<"sess", "order">>, 2, 2),
    Resource("DELETE", <<"sess", "order">>, 2, 2),
    Resource("GET", <<"sess", "trade">>, 0, 2),
    Resource("POST", <<"sess", "trade">>, 1, 1),
    Resource("DELETE", <<"sess", "trade">>, 2, 2),
    Resource("GET", <<"sess", "posn">>, 0, 2),
    Resource("GET", <<"sess", "view">>, 0, 1),
    Resource("GET", <<"view">>, 0, 1) }

\* The path p begins with these names, and parts of the client's choice follow.
Begins(p, names, least, most) ==
  /\ Len(p) \in Len(names) + least..Len(names) + most
  /\ \A k \in DOMAIN names : p[k] = <<names[k]>>

\* The names between the commas of a part.
Listing(part) == {part[k] : k \in DOMAIN part} \ {","}

\* entity[,entity]...
IsList(part) ==
  Len(part) % 2 = 1 /\ \A k \in DOMAIN part : part[k] = "," <=> k % 2 = 0

\* A list of entities of the side that its path names.
ListOf(p, side, entities) ==
  /\ Len(p) = 2 /\ p[1] = <<side>>
  /\ IsList(p[2]) /\ Listing(p[2]) \subseteq entities

Documented(m, p) ==
  \/ \E r \in Listed : m = r.method /\ Begins(p, r.names, r.least, r.most)
  \/ m = "GET" /\ (ListOf(p, "rec", RecEntities) \/ ListOf(p, "sess", SessEntities))

\* What the documentation does not list: where an entity is expected, a list of
\* whatever form that comes to one entity stands for it, for every method, and
\* one of several entities, of whichever side, can be got.
Undocumented(m, p) ==
  /\ Len(p) >= 2 /\ p[1] \in {<<"rec">>, <<"sess">>}
  /\ \E k \in DOMAIN p[2] : p[2][k] = ","
  /\ \/ \E e \in Entities : Listing(p[2]) = {e} /\ Documented(m, [p EXCEPT ![2] = <<e>>])
     \/ /\ m = "GET" /\ Len(p) = 2
        /\ Cardinality(Listing(p[2])) > 1 /\ Listing(p[2]) \subseteq Entities

=============================================================================
