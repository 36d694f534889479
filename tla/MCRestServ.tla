----------------------------- MODULE MCRestServ -----------------------------
\* Model checking: two names for markets and traders, bodies of every kind.
EXTENDS RestServ

AllFields == {"mnem", "display", "email", "contr", "settlDate", "expiryDate", "state",
              "side", "lots", "ticks", "ref", "minLots"}
ZeroValues ==
  [f \in AllFields |->
     IF f \in {"mnem", "display", "email", "contr", "ref"} THEN ""
     ELSE IF f = "side" THEN "None" ELSE 0]

Body_(form, says) == [form |-> form, says |-> says]
Whole(says) == Body_("whole", says)
Today == isoToJd(20160229)
Tomorrow == isoToJd(20160301)
RequestAt(day, method, uri, body, user) ==
  [method |-> method, uri |-> uri, body |-> body, user |-> user, busDay |-> day]
Request(method, uri, body, user) == RequestAt(Today, method, uri, body, user)

\* Bodies that any request may have.
Broken ==
  { Body_("absent", <<>>), Body_("malformed", [email |-> "e"]),
    Body_("cut", [mnem |-> "A", display |-> "d", contr |-> "c", settlDate |-> 20160229]) }

\* 2016-02-30 is the first of March.
DatedMarkets ==
  { Whole([mnem |-> "A", display |-> "d", contr |-> "c", state |-> 0,
           settlDate |-> 20160230, expiryDate |-> 20160229]),
    Whole([mnem |-> "A", display |-> "d", contr |-> "c",
           settlDate |-> 20160229, expiryDate |-> 20160301]),
    Whole([mnem |-> "A", display |-> "d", contr |-> "c", expiryDate |-> 20160301]),
    Whole([mnem |-> "A", display |-> "d", contr |-> "c", settlDate |-> 20160301]) }

Markets ==
  { Whole([mnem |-> "A", display |-> "d", contr |-> "c"]),
    Whole([mnem |-> "bad", display |-> "d", contr |-> "c"]),
    Whole([mnem |-> "A", display |-> "d", contr |-> "unknown"]),
    Whole([mnem |-> "A", display |-> "d", email |-> "e"]) }

Traders ==
  { Whole([mnem |-> "A", display |-> "d"]),
    Whole([mnem |-> "A", display |-> "d", email |-> "e"]),
    Whole([mnem |-> "bad", display |-> "d", email |-> "e"]),
    Whole([mnem |-> "A"]) }

Updates ==
  { Whole([display |-> "d"]), Whole([display |-> "d", state |-> 1]),
    Whole([display |-> "d", email |-> "e"]), Whole(<<>>) }

Orders ==
  { Whole([side |-> "BUY", lots |-> 1, ticks |-> 1]), Whole([side |-> "BUY", lots |-> 1]),
    Whole([side |-> "BUY", lots |-> 1, ticks |-> 1, minLots |-> 2]) }

Api(parts) == <<"/", "api">> \o parts
RecMarket == Api(<<"/", "rec", "/", "market">>)
RecTrader == Api(<<"/", "rec", "/", "trader">>)
SessOrder == Api(<<"/", "sess", "/", "order", "/", "A">>)

SomeRequests ==
  { Request("POST", RecMarket, b, NoUser) : b \in Markets \cup DatedMarkets \cup Broken } \cup
  { RequestAt(Tomorrow, "POST", RecMarket, b, NoUser) : b \in DatedMarkets } \cup
  { Request("PUT", RecMarket \o <<"/", "A">>, b, NoUser) : b \in Updates \cup Broken } \cup
  { Request("POST", RecTrader, b, NoUser) : b \in Traders \cup Broken } \cup
  { Request("PUT", RecTrader \o <<"/", "B">>, b, NoUser) : b \in Updates } \cup
  { Request("POST", SessOrder, b, "A") : b \in Orders } \cup
  { RequestAt(Tomorrow, "POST", SessOrder, Whole([side |-> "BUY", lots |-> 1, ticks |-> 1]), "A") } \cup
  { Request("POST", SessOrder, Whole([side |-> "BUY", lots |-> 1, ticks |-> 1]), u) :
      u \in {NoUser, "nobody"} } \cup
  { Request("POST", SessOrder, b, "A") : b \in Broken } \cup
  { Request("GET", uri, Body_("absent", <<>>), NoUser) :
      uri \in { RecMarket \o <<"/", "A">>, RecTrader \o <<"/", "B">>, RecMarket \o <<"/", "/">>,
                Api(<<"/", "rec", "/", "asset", "/", "A">>),
                Api(<<"/", "rec", "/", "contr", "/", "c">>),
                <<"/", "index">>, Api(<<>>) } } \cup
  { Request("DELETE", RecMarket, Body_("absent", <<>>), NoUser) }

MarketDays == {0, Today, Tomorrow, isoToJd(20160230)}
BothDays == {Today, Tomorrow}
=============================================================================
