--------------------------- MODULE RestServProofs ---------------------------
(***************************************************************************)
(* Proofs about modules Registry and RestServ for every set of requests,     *)
(* names, dates and loaded records.  The invariants of the registry are      *)
(* inductive together: the check of createTrader asks the index, so that the *)
(* index must hold every email of the traders.  The service takes only steps *)
(* of the registry, so that what is proved of the registry holds of it; and  *)
(* it accepts, refuses and creates as the documentation says, although all   *)
(* requests share one request object.                                       *)
(***************************************************************************)
EXTENDS RestServ, TLAPS

----------------------------------------------------------------------------
(* The registry.                                                           *)

\* A record added to a partial function leaves it one.
LEMMA WithType ==
  ASSUME NEW S, NEW T, NEW f \in Partial(S, T), NEW k \in S, NEW v \in T
  PROVE  With(f, k, v) \in Partial(S, T)
<1>1. PICK D \in SUBSET S : f \in [D -> T] BY DEF Partial
<1>2. With(f, k, v) \in [D \cup {k} -> T] BY <1>1 DEF With
<1>3. D \cup {k} \in SUBSET S OBVIOUS
<1> QED BY <1>2, <1>3 DEF Partial

\* What a partial function is.
LEMMA PartialType ==
  ASSUME NEW S, NEW T, NEW f \in Partial(S, T)
  PROVE  /\ DOMAIN f \in SUBSET S
         /\ f \in [DOMAIN f -> T]
         /\ \A x \in DOMAIN f : f[x] \in T
<1>1. PICK D \in SUBSET S : f \in [D -> T] BY DEF Partial
<1> QED BY <1>1

\* A function from a part of S is a partial function.
LEMMA PartialIntro ==
  ASSUME NEW S, NEW T, NEW D \in SUBSET S, NEW f \in [D -> T]
  PROVE  f \in Partial(S, T)
BY DEF Partial

Inv == TypeOK /\ EmailIndexAgrees /\ MarketDaysOrdered

\* A refused call keeps the invariant.
LEMMA RefuseKeeps ==
  ASSUME Inv, NEW call \in Calls, NEW error \in Errors,
         Refuse(call, error)
  PROVE  Inv'
<1>1. TypeOK' BY DEF Inv, TypeOK, Refuse, Errors, Outcomes
<1>2. EmailIndexAgrees' BY DEF Inv, Refuse, EmailIndexAgrees, EmailsOf
<1>3. MarketDaysOrdered' BY DEF Inv, Refuse, MarketDaysOrdered
<1> QED BY <1>1, <1>2, <1>3 DEF Inv

\* The days that createMarket lets through are those that Market asserts.
LEMMA DaysAllowedOrdered ==
  ASSUME NEW settlDay \in Days, NEW expiryDay \in Days, NEW busDay \in BusDays,
         DaysAllowed(settlDay, expiryDay, busDay)
  PROVE  /\ settlDay = 0 <=> expiryDay = 0
         /\ expiryDay <= settlDay
<1>1. settlDay \in Nat /\ expiryDay \in Nat /\ busDay \in Nat /\ busDay > 0
  BY RegistryAssumption
<1> QED BY <1>1 DEF DaysAllowed

LEMMA CreateMarketKeeps ==
  ASSUME Inv,
         NEW m \in Mnems, NEW display \in Displays, NEW contr \in AnyContrs,
         NEW settlDay \in Days, NEW expiryDay \in Days, NEW state \in States,
         NEW busDay \in BusDays,
         CreateMarket(m, display, contr, settlDay, expiryDay, state, busDay)
  PROVE  Inv'
<1> DEFINE check == CreateMarketCheck(m, contr, settlDay, expiryDay, busDay)
           mkt == [contr |-> contr, settlDay |-> settlDay, expiryDay |-> expiryDay,
                   display |-> display, state |-> state]
<1>1. CASE check \in Errors /\ Refuse("createMarket", check)
  <2>1. "createMarket" \in Calls BY DEF Calls
  <2> QED BY <1>1, <2>1, RefuseKeeps
<1>2. CASE check = "ok" /\ Refuse("createMarket", "bad_alloc")
  <2>1. "createMarket" \in Calls /\ "bad_alloc" \in Errors BY DEF Calls, Errors
  <2> QED BY <1>2, <2>1, RefuseKeeps
<1>3. CASE /\ check = "ok"
           /\ markets' = With(markets, m, mkt)
           /\ Done("createMarket")
           /\ UNCHANGED <<traders, emailIdx>>
  <2>1. contr \in Contrs /\ DaysAllowed(settlDay, expiryDay, busDay) /\ m \in WellFormed
    BY <1>3 DEF CreateMarketCheck
  <2>2. mkt \in Market /\ DaysOrdered(mkt)
    BY <2>1, DaysAllowedOrdered DEF Market, DaysOrdered
  <2>3. markets' \in Partial(WellFormed, Market)
    BY <1>3, <2>1, <2>2, WithType DEF Inv, TypeOK
  <2>4. TypeOK'
    BY <1>3, <2>3 DEF Inv, TypeOK, Done, Calls, Outcomes
  <2>5. EmailIndexAgrees' BY <1>3 DEF Inv, EmailIndexAgrees, EmailsOf
  <2>6. MarketDaysOrdered'
    BY <1>3, <2>2 DEF Inv, MarketDaysOrdered, With
  <2> QED BY <2>4, <2>5, <2>6 DEF Inv
<1> QED BY <1>1, <1>2, <1>3 DEF CreateMarket

LEMMA UpdateMarketKeeps ==
  ASSUME Inv, NEW m \in Mnems,
         NEW displays \in SUBSET Displays, NEW states \in SUBSET States,
         UpdateMarket(m, displays, states)
  PROVE  Inv'
<1>1. CASE m \notin DOMAIN markets /\ Refuse("updateMarket", "NotFound")
  <2>1. "updateMarket" \in Calls /\ "NotFound" \in Errors BY DEF Calls, Errors
  <2> QED BY <1>1, <2>1, RefuseKeeps
<1>2. CASE m \in DOMAIN markets
  <2>1. markets[m] \in Market
    BY <1>2, PartialType DEF Inv, TypeOK
  <2> DEFINE ds == IF displays = {} THEN {markets[m].display} ELSE displays
             ss == IF states = {} THEN {markets[m].state} ELSE states
  <2>a. ds \in SUBSET Displays /\ ss \in SUBSET States
    BY <2>1 DEF Market
  <2>b. \E display \in ds, state \in ss :
          markets' = [markets EXCEPT ![m].display = display, ![m].state = state]
    BY <1>2, Zenon DEF UpdateMarket
  <2> HIDE DEF ds, ss
  <2>2. PICK display \in Displays, state \in States :
          markets' = [markets EXCEPT ![m].display = display, ![m].state = state]
    BY <2>a, <2>b
  <2>3. DOMAIN markets \in SUBSET WellFormed /\ markets \in [DOMAIN markets -> Market]
    BY PartialType DEF Inv, TypeOK
  <2>4. markets' \in [DOMAIN markets -> Market]
    BY <1>2, <2>1, <2>2, <2>3 DEF Market
  <2>5. markets' \in Partial(WellFormed, Market)
    BY <2>3, <2>4, PartialIntro
  <2>6. Done("updateMarket") /\ UNCHANGED <<traders, emailIdx>>
    BY <1>2 DEF UpdateMarket
  <2>7. TypeOK' BY <2>5, <2>6 DEF Inv, TypeOK, Done, Calls, Outcomes
  <2>8. EmailIndexAgrees' BY <2>6 DEF Inv, EmailIndexAgrees, EmailsOf
  <2>9. MarketDaysOrdered'
    <3> SUFFICES ASSUME NEW n \in DOMAIN markets' PROVE DaysOrdered(markets'[n])
      BY DEF MarketDaysOrdered
    <3>1. n \in DOMAIN markets /\ markets[n] \in Market /\ DaysOrdered(markets[n])
      BY <2>2, <2>3 DEF Inv, MarketDaysOrdered
    <3>2. /\ markets'[n].settlDay = markets[n].settlDay
          /\ markets'[n].expiryDay = markets[n].expiryDay
      BY <2>2, <2>3, <3>1 DEF Market
    <3> QED BY <3>1, <3>2 DEF DaysOrdered
  <2> QED BY <2>7, <2>8, <2>9 DEF Inv
<1> QED BY <1>1, <1>2 DEF UpdateMarket

LEMMA CreateTraderKeeps ==
  ASSUME Inv, NEW m \in Mnems, NEW display \in Displays, NEW email \in Emails,
         CreateTrader(m, display, email)
  PROVE  Inv'
<1> DEFINE check == CreateTraderCheck(m, email)
           trader == [display |-> display, email |-> email]
<1>1. CASE check \in Errors /\ Refuse("createTrader", check)
  <2>1. "createTrader" \in Calls BY DEF Calls
  <2> QED BY <1>1, <2>1, RefuseKeeps
<1>2. CASE check = "ok" /\ Refuse("createTrader", "bad_alloc")
  <2>1. "createTrader" \in Calls /\ "bad_alloc" \in Errors BY DEF Calls, Errors
  <2> QED BY <1>2, <2>1, RefuseKeeps
<1>3. CASE /\ check = "ok"
           /\ traders' = With(traders, m, trader)
           /\ emailIdx' = With(emailIdx, email, m)
           /\ Done("createTrader")
           /\ UNCHANGED markets
  <2>1. m \notin DOMAIN traders /\ email \notin DOMAIN emailIdx /\ m \in WellFormed
    BY <1>3 DEF CreateTraderCheck
  <2>2. trader \in Trader BY DEF Trader
  <2>3. traders' \in Partial(WellFormed, Trader)
    BY <1>3, <2>1, <2>2, WithType DEF Inv, TypeOK
  <2>4. /\ DOMAIN traders' = DOMAIN traders \cup {m}
        /\ traders'[m] = trader
        /\ \A t \in DOMAIN traders : traders'[t] = traders[t]
    BY <1>3, <2>1 DEF With
  <2>5. /\ DOMAIN emailIdx' = DOMAIN emailIdx \cup {email}
        /\ emailIdx'[email] = m
        /\ \A e \in DOMAIN emailIdx : emailIdx'[e] = emailIdx[e]
    BY <1>3, <2>1 DEF With
  <2>6. emailIdx' \in Partial(Emails, DOMAIN traders')
    <3>1. DOMAIN emailIdx \in SUBSET Emails /\ emailIdx \in [DOMAIN emailIdx -> DOMAIN traders]
      BY PartialType DEF Inv, TypeOK
    <3>2. emailIdx' \in [DOMAIN emailIdx \cup {email} -> DOMAIN traders']
      BY <1>3, <2>4, <3>1 DEF With
    <3>3. DOMAIN emailIdx \cup {email} \in SUBSET Emails BY <3>1
    <3> QED BY <3>2, <3>3, PartialIntro
  <2>7. TypeOK'
    BY <1>3, <2>3, <2>6 DEF Inv, TypeOK, Done, Calls, Outcomes
  <2>8. EmailIndexAgrees'
    <3>1. EmailsOf(traders)' = EmailsOf(traders) \cup {email}
      BY <2>4 DEF EmailsOf
    <3>2. DOMAIN emailIdx' = EmailsOf(traders)'
      BY <2>5, <3>1 DEF Inv, EmailIndexAgrees
    <3>3. ASSUME NEW e \in DOMAIN emailIdx'
          PROVE  emailIdx'[e] \in DOMAIN traders' /\ traders'[emailIdx'[e]].email = e
      <4>1. CASE e = email BY <4>1, <2>4, <2>5
      <4>2. CASE e # email
        <5>1. e \in DOMAIN emailIdx BY <4>2, <2>5
        <5>2. emailIdx[e] \in DOMAIN traders /\ traders[emailIdx[e]].email = e
          BY <5>1 DEF Inv, EmailIndexAgrees
        <5> QED BY <5>1, <5>2, <2>4, <2>5
      <4> QED BY <4>1, <4>2
    <3> QED BY <3>2, <3>3 DEF EmailIndexAgrees
  <2>9. MarketDaysOrdered' BY <1>3 DEF Inv, MarketDaysOrdered
  <2> QED BY <2>7, <2>8, <2>9 DEF Inv
<1> QED BY <1>1, <1>2, <1>3 DEF CreateTrader

LEMMA UpdateTraderKeeps ==
  ASSUME Inv, NEW m \in Mnems, NEW display \in Displays, UpdateTrader(m, display)
  PROVE  Inv'
<1>1. CASE m \notin DOMAIN traders /\ Refuse("updateTrader", "NotFound")
  <2>1. "updateTrader" \in Calls /\ "NotFound" \in Errors BY DEF Calls, Errors
  <2> QED BY <1>1, <2>1, RefuseKeeps
<1>2. CASE /\ m \in DOMAIN traders
           /\ traders' = [traders EXCEPT ![m].display = display]
           /\ Done("updateTrader")
           /\ UNCHANGED <<markets, emailIdx>>
  <2>1. DOMAIN traders \in SUBSET WellFormed /\ traders \in [DOMAIN traders -> Trader]
    BY PartialType DEF Inv, TypeOK
  <2>2. traders' \in [DOMAIN traders -> Trader]
    BY <1>2, <2>1 DEF Trader
  <2>3. traders' \in Partial(WellFormed, Trader)
    BY <2>1, <2>2, PartialIntro
  <2>4. \A t \in DOMAIN traders : traders'[t].email = traders[t].email
    BY <1>2, <2>1 DEF Trader
  <2>5. DOMAIN traders' = DOMAIN traders BY <1>2
  <2>6. TypeOK' BY <1>2, <2>3, <2>5 DEF Inv, TypeOK, Done, Calls, Outcomes
  <2>7. EmailsOf(traders)' = EmailsOf(traders) BY <2>4, <2>5 DEF EmailsOf
  <2>8. EmailIndexAgrees'
    BY <1>2, <2>4, <2>5, <2>7 DEF Inv, EmailIndexAgrees
  <2>9. MarketDaysOrdered' BY <1>2 DEF Inv, MarketDaysOrdered
  <2> QED BY <2>6, <2>8, <2>9 DEF Inv
<1> QED BY <1>1, <1>2 DEF UpdateTrader

LEMMA OptionalType ==
  ASSUME NEW S, NEW X \in Optional(S)
  PROVE  X \in SUBSET S
BY DEF Optional

LEMMA InitEstablishes == Init => Inv
<1> SUFFICES ASSUME Init PROVE Inv OBVIOUS
<1>1. markets \in Partial(WellFormed, Market) /\ MarketDaysOrdered
  BY DEF Init, MarketDaysOrdered
<1>2. traders \in Partial(WellFormed, Trader) BY DEF Init
<1>3. /\ emailIdx \in [EmailsOf(traders) -> DOMAIN traders]
      /\ \A e \in DOMAIN emailIdx : traders[emailIdx[e]].email = e
  BY DEF Init
<1>4. EmailsOf(traders) \in SUBSET Emails
  <2>1. \A t \in DOMAIN traders : traders[t] \in Trader BY <1>2, PartialType
  <2>2. \A t \in DOMAIN traders : traders[t].email \in Emails BY <2>1 DEF Trader
  <2> QED BY <2>2 DEF EmailsOf
<1>5. emailIdx \in Partial(Emails, DOMAIN traders)
  BY <1>3, <1>4, PartialIntro
<1>6. EmailIndexAgrees BY <1>3 DEF EmailIndexAgrees
<1>7. last.call \in Calls \cup {"load"} /\ last.outcome \in Outcomes
  BY DEF Init, Outcomes
<1> QED BY <1>1, <1>2, <1>5, <1>6, <1>7 DEF Inv, TypeOK

LEMMA NextKeeps == Inv /\ [Next]_vars => Inv'
<1> SUFFICES ASSUME Inv, [Next]_vars PROVE Inv' OBVIOUS
<1>1. CASE UNCHANGED vars
  BY <1>1 DEF vars, Inv, TypeOK, EmailIndexAgrees, EmailsOf, MarketDaysOrdered
<1>2. CASE Next
  <2>1. PICK m \in Mnems :
          \/ \E display \in Displays, contr \in AnyContrs, settlDay, expiryDay \in Days,
                state \in States, busDay \in BusDays :
               CreateMarket(m, display, contr, settlDay, expiryDay, state, busDay)
          \/ \E displays \in Optional(Displays), states \in Optional(States) :
               UpdateMarket(m, displays, states)
          \/ \E display \in Displays, email \in Emails : CreateTrader(m, display, email)
          \/ \E display \in Displays : UpdateTrader(m, display)
    BY <1>2 DEF Next
  <2>2. CASE \E display \in Displays, contr \in AnyContrs, settlDay, expiryDay \in Days,
                state \in States, busDay \in BusDays :
               CreateMarket(m, display, contr, settlDay, expiryDay, state, busDay)
    BY <2>2, CreateMarketKeeps
  <2>3. CASE \E displays \in Optional(Displays), states \in Optional(States) :
               UpdateMarket(m, displays, states)
    BY <2>3, OptionalType, UpdateMarketKeeps
  <2>4. CASE \E display \in Displays, email \in Emails : CreateTrader(m, display, email)
    BY <2>4, CreateTraderKeeps
  <2>5. CASE \E display \in Displays : UpdateTrader(m, display)
    BY <2>5, UpdateTraderKeeps
  <2> QED BY <2>1, <2>2, <2>3, <2>4, <2>5
<1> QED BY <1>1, <1>2

\* The types, the agreement of the email index with the traders, and the order
\* of the days of every market hold at all times (Serv::Serv, createMarket,
\* createTrader and the updates).
THEOREM RegistrySafe == Spec => [](TypeOK /\ EmailIndexAgrees /\ MarketDaysOrdered)
<1>1. Init => Inv BY InitEstablishes
<1>2. Inv /\ [Next]_vars => Inv' BY NextKeeps
<1> QED BY <1>1, <1>2, PTL DEF Spec, Inv

\* No trader is created with the email of another, where it is not empty
\* (Serv::createTrader): the index that is asked knows every email, also those
\* that loaded traders share.
THEOREM NewEmailUnused == Spec => NewEmailIsUnused
<1> DEFINE A == \A t \in DOMAIN traders' \ DOMAIN traders :
                  traders'[t].email # NoEmail =>
                    traders'[t].email \notin EmailsOf(traders)
<1>1. ASSUME Inv, [Next]_vars PROVE A
  <2>1. CASE UNCHANGED traders BY <2>1
  <2>2. ASSUME NEW m \in Mnems, NEW display \in Displays, NEW email \in Emails,
               CreateTraderCheck(m, email) = "ok",
               traders' = With(traders, m, [display |-> display, email |-> email])
        PROVE  A
    <3>1. email \notin DOMAIN emailIdx BY <2>2 DEF CreateTraderCheck
    <3>2. email \notin EmailsOf(traders) BY <3>1, <1>1 DEF Inv, EmailIndexAgrees
    <3> QED BY <2>2, <3>2 DEF With
  <2>3. ASSUME NEW m, NEW display, UpdateTrader(m, display) PROVE A
    BY <2>3 DEF UpdateTrader, Refuse
  <2>4. ASSUME NEW m, NEW display, NEW contr, NEW settlDay, NEW expiryDay, NEW state,
               NEW busDay,
               CreateMarket(m, display, contr, settlDay, expiryDay, state, busDay)
        PROVE  UNCHANGED traders
    BY <2>4 DEF CreateMarket, Refuse
  <2>5. ASSUME NEW m, NEW displays, NEW states, UpdateMarket(m, displays, states)
        PROVE  UNCHANGED traders
    BY <2>5 DEF UpdateMarket, Refuse
  <2>6. ASSUME NEW m \in Mnems, NEW display \in Displays, NEW email \in Emails,
               CreateTrader(m, display, email)
        PROVE  A
    BY <2>1, <2>2, <2>6 DEF CreateTrader, Refuse
  <2>7. CASE UNCHANGED vars BY <2>1, <2>7 DEF vars
  <2>8. CASE Next BY <2>1, <2>3, <2>4, <2>5, <2>6, <2>8 DEF Next
  <2> QED BY <1>1, <2>7, <2>8
<1>2. Init => Inv BY InitEstablishes
<1>3. Inv /\ [Next]_vars => Inv' BY NextKeeps
<1>4. Inv /\ [Next]_vars => [A]_vars BY <1>1
<1> QED BY <1>2, <1>3, <1>4, PTL DEF Spec, NewEmailIsUnused

----------------------------------------------------------------------------
(* The request object.                                                     *)

\* What the shared object holds when a request is routed comes from the body of
\* that request alone: its fields, their values, and the zeros of the others.
LEMMA HeardSays ==
  ASSUME NEW r \in Requests, request' = Heard(r.body)
  PROVE  /\ request'.fields = DOMAIN r.body.says
         /\ DOMAIN r.body.says \subseteq Fields
         /\ \A f \in Fields : request'.val[f] = Says(r.body, f)
BY RestAssumption DEF Heard, Cleared, Says

\* The values of markets and traders are those of the registry, where they are
\* given or may be left out.
LEMMA HeardValues ==
  ASSUME NEW r \in Requests, request' = Heard(r.body)
  PROVE  /\ \A f \in request'.fields \cap DOMAIN ValuesOf : request'.val[f] \in ValuesOf[f]
         /\ request'.val["state"] \in States
         /\ request'.val["email"] \in Emails
         /\ \A f \in Dates : maybeIsoToJd(request'.val[f]) \in Days
<1>1. DOMAIN ValuesOf \cup Dates \subseteq Fields BY ValuesAssumption
<1>2. {"state", "email"} \subseteq DOMAIN ValuesOf BY DEF ValuesOf
<1>3. \A f \in DOMAIN r.body.says \cap DOMAIN ValuesOf : r.body.says[f] \in ValuesOf[f]
  BY <1>1, ValuesAssumption
<1>4. ValuesOf["state"] = States /\ ValuesOf["email"] = Emails BY DEF ValuesOf
<1>5. \A f \in request'.fields \cap DOMAIN ValuesOf : request'.val[f] \in ValuesOf[f]
  BY <1>1, <1>3, HeardSays DEF Says
<1>6. request'.val["state"] \in States /\ request'.val["email"] \in Emails
  BY <1>1, <1>2, <1>3, <1>4, ValuesAssumption, HeardSays DEF Says
<1>7. ASSUME NEW f \in Dates PROVE maybeIsoToJd(request'.val[f]) \in Days
  <2>1. CASE f \in DOMAIN r.body.says
    BY <1>1, <2>1, ValuesAssumption, HeardSays DEF Says
  <2>2. CASE f \notin DOMAIN r.body.says
    <3>1. request'.val[f] = 0 BY <1>1, <2>2, ValuesAssumption, HeardSays DEF Says
    <3> QED BY <3>1, RegistryAssumption DEF maybeIsoToJd
  <2> QED BY <2>1, <2>2
<1> QED BY <1>5, <1>6, <1>7

----------------------------------------------------------------------------
(* The steps of the service.                                               *)

\* What a request comes to: it leaves the registry alone, or makes one call of it
\* and relays the outcome.
LEMMA HttpSteps ==
  ASSUME NEW r \in Requests, HttpRequest(r)
  PROVE  LET call == Route(r.method, r.uri).call
             p == Path(r.uri)
             v == request'.val
         IN \/ UNCHANGED <<registryVars, last>>
            \/ /\ call = "postMarket" /\ {"mnem", "display", "contr"} \subseteq request'.fields
               /\ CreateMarket(v["mnem"], v["display"], v["contr"],
                    maybeIsoToJd(v["settlDate"]), maybeIsoToJd(v["expiryDate"]),
                    v["state"], r.busDay)
               /\ Relay
            \/ /\ call = "putMarket"
               /\ UpdateMarket(Named(p), Given("display"), Given("state"))
               /\ Relay
            \/ /\ call = "postTrader" /\ {"mnem", "display"} \subseteq request'.fields
               /\ CreateTrader(v["mnem"], v["display"], v["email"])
               /\ Relay
            \/ /\ call = "putTrader" /\ "display" \in request'.fields
               /\ UpdateTrader(Named(p), v["display"])
               /\ Relay
<1> DEFINE call == Route(r.method, r.uri).call
           p == Path(r.uri)
           v == request'.val
<1>1. \A o : Decline(o) => UNCHANGED <<registryVars, last>> BY DEF Decline
<1>2. CASE ~Perform(call, p, r.user, r.busDay)
  BY <1>1, <1>2 DEF HttpRequest
<1>3. CASE call = "postMarket" /\ PostMarket(r.busDay)
  BY <1>1, <1>3 DEF PostMarket, Valid, Has
<1>4. CASE call = "putMarket" /\ PutMarket(p)
  BY <1>1, <1>4 DEF PutMarket
<1>5. CASE call = "postTrader" /\ PostTrader
  BY <1>1, <1>5 DEF PostTrader, Valid, Has
<1>6. CASE call = "putTrader" /\ PutTrader(p)
  BY <1>1, <1>6 DEF PutTrader, Has
<1>7. CASE PostOrder(p, r.user, r.busDay)
  BY <1>1, <1>7 DEF PostOrder
<1>8. CASE \E known : Get(p, known)
  BY <1>1, <1>8 DEF Get
<1> HIDE DEF call, p, v
<1>9. CASE Perform(call, p, r.user, r.busDay)
  BY <1>1, <1>3, <1>4, <1>5, <1>6, <1>7, <1>8, <1>9 DEF Perform
<1> QED BY <1>2, <1>9 DEF call, p, v

\* A page leaves the registry alone.
LEMMA PageSteps ==
  ASSUME NEW r \in Requests, ServePage(r)
  PROVE  UNCHANGED <<registryVars, last>> /\ status' = 0
BY DEF ServePage

\* Every call is made with arguments that the registry knows.
LEMMA HttpRefines ==
  ASSUME NEW r \in Requests, HttpRequest(r)
  PROVE  [Next]_vars
<1> DEFINE call == Route(r.method, r.uri).call
           p == Path(r.uri)
           v == request'.val
<1>1. request' = Heard(r.body) BY DEF HttpRequest
<1>2. r.busDay \in BusDays BY RestAssumption
<1>3. \A f \in request'.fields \cap DOMAIN ValuesOf : v[f] \in ValuesOf[f]
  BY <1>1, HeardValues
<1>4. /\ "mnem" \in request'.fields => v["mnem"] \in Mnems
      /\ "display" \in request'.fields => v["display"] \in Displays
      /\ "contr" \in request'.fields => v["contr"] \in AnyContrs
      /\ "state" \in request'.fields => v["state"] \in States
  BY <1>3 DEF ValuesOf
<1>5. v["state"] \in States /\ v["email"] \in Emails BY <1>1, HeardValues
<1>6. maybeIsoToJd(v["settlDate"]) \in Days /\ maybeIsoToJd(v["expiryDate"]) \in Days
  BY <1>1, HeardValues DEF Dates
<1>7. call \in {"putMarket", "putTrader"} => Named(p) \in Mnems BY PathsAssumption
<1>8. CASE UNCHANGED <<registryVars, last>> BY <1>8 DEF registryVars, vars
<1>9. CASE /\ call = "postMarket" /\ {"mnem", "display", "contr"} \subseteq request'.fields
           /\ CreateMarket(v["mnem"], v["display"], v["contr"],
                maybeIsoToJd(v["settlDate"]), maybeIsoToJd(v["expiryDate"]),
                v["state"], r.busDay)
  BY <1>2, <1>4, <1>5, <1>6, <1>9 DEF Next
<1>10. CASE call = "putMarket" /\ UpdateMarket(Named(p), Given("display"), Given("state"))
  <2>1. Given("display") \in Optional(Displays) BY <1>4 DEF Given, Optional
  <2>2. Given("state") \in Optional(States) BY <1>4 DEF Given, Optional
  <2> QED BY <1>7, <1>10, <2>1, <2>2 DEF Next
<1>11. CASE /\ call = "postTrader" /\ {"mnem", "display"} \subseteq request'.fields
            /\ CreateTrader(v["mnem"], v["display"], v["email"])
  BY <1>4, <1>5, <1>11 DEF Next
<1>12. CASE /\ call = "putTrader" /\ "display" \in request'.fields
            /\ UpdateTrader(Named(p), v["display"])
  BY <1>4, <1>7, <1>12 DEF Next
<1> QED BY <1>8, <1>9, <1>10, <1>11, <1>12, HttpSteps

\* Whatever requests follow one another, whatever their bodies say or lack and
\* whenever memory runs out, the registry behind the service takes only steps of
\* its own specification (RestServ::httpRequest, the calls of Rest).
THEOREM ServiceIsRegistry == RestSpec => ImplementsRegistry
<1>1. RestInit => Init BY DEF RestInit
<1>2. [RestNext]_restVars => [Next]_vars
  <2> SUFFICES ASSUME [RestNext]_restVars PROVE [Next]_vars OBVIOUS
  <2>1. CASE UNCHANGED restVars BY <2>1 DEF restVars, vars
  <2>2. ASSUME NEW r \in Requests, ServePage(r) PROVE [Next]_vars
    BY <2>2, PageSteps DEF registryVars, vars
  <2>3. ASSUME NEW r \in Requests, HttpRequest(r) PROVE [Next]_vars BY <2>3, HttpRefines
  <2> QED BY <2>1, <2>2, <2>3 DEF RestNext
<1> QED BY <1>1, <1>2, PTL DEF RestSpec, ImplementsRegistry, Spec

\* What follows for the service from the proofs of the registry.
COROLLARY ServiceSafe ==
  RestSpec => [](EmailIndexAgrees /\ MarketDaysOrdered) /\ NewEmailIsUnused
<1>1. RestSpec => Spec BY ServiceIsRegistry DEF ImplementsRegistry
<1> QED BY <1>1, RegistrySafe, NewEmailUnused, PTL

----------------------------------------------------------------------------
(* What clients are told.                                                  *)

\* A call of the registry that fails, fails before it has changed anything.
LEMMA CallsFailCleanly ==
  /\ \A m, display, contr, settlDay, expiryDay, state, busDay :
       CreateMarket(m, display, contr, settlDay, expiryDay, state, busDay) =>
         last'.outcome = "ok" \/ UNCHANGED registryVars
  /\ \A m, displays, states :
       UpdateMarket(m, displays, states) =>
         last'.outcome = "ok" \/ UNCHANGED registryVars
  /\ \A m, display, email :
       CreateTrader(m, display, email) =>
         last'.outcome = "ok" \/ UNCHANGED registryVars
  /\ \A m, display :
       UpdateTrader(m, display) =>
         last'.outcome = "ok" \/ UNCHANGED registryVars
<1> USE DEF Refuse, Done, registryVars
<1>1. ASSUME NEW m, NEW display, NEW contr, NEW settlDay, NEW expiryDay, NEW state,
             NEW busDay,
             CreateMarket(m, display, contr, settlDay, expiryDay, state, busDay)
      PROVE  last'.outcome = "ok" \/ UNCHANGED registryVars
  BY <1>1 DEF CreateMarket
<1>2. ASSUME NEW m, NEW displays, NEW states, UpdateMarket(m, displays, states)
      PROVE  last'.outcome = "ok" \/ UNCHANGED registryVars
  BY <1>2 DEF UpdateMarket
<1>3. ASSUME NEW m, NEW display, NEW email, CreateTrader(m, display, email)
      PROVE  last'.outcome = "ok" \/ UNCHANGED registryVars
  BY <1>3 DEF CreateTrader
<1>4. ASSUME NEW m, NEW display, UpdateTrader(m, display)
      PROVE  last'.outcome = "ok" \/ UNCHANGED registryVars
  BY <1>4 DEF UpdateTrader
<1> QED BY <1>1, <1>2, <1>3, <1>4

\* An answer other than success leaves markets, traders and their index alone:
\* every call of the registry that fails, be it for want of memory, fails before
\* it has changed anything.  Of the orders and the journal this says nothing.
THEOREM RefusalsAreClean == RestSpec => RefusedKeepsRegistry
<1>1. ASSUME NEW r \in Requests, HttpRequest(r), ~UNCHANGED registryVars
      PROVE  status' = 200
  <2>1. Relay /\ last'.outcome = "ok"
    BY <1>1, HttpSteps, CallsFailCleanly DEF registryVars
  <2> QED BY <2>1 DEF Relay, Answer, StatusOf
<1>2. [RestNext]_restVars => [status' # 200 => UNCHANGED registryVars]_restVars
  BY <1>1, PageSteps DEF RestNext
<1> QED BY <1>2, PTL DEF RestSpec, RefusedKeepsRegistry

\* A request that is accepted had, in its own body, what the route requires,
\* whatever the shared object held before.
LEMMA AcceptedHasAll ==
  ASSUME NEW r \in Requests, HttpRequest(r), status' = 200
  PROVE  AcceptedHaveFields'
<1> DEFINE call == Route(r.method, r.uri).call
           p == Path(r.uri)
<1>1. /\ request' = Heard(r.body)
      /\ asked'.call = call /\ asked'.body = r.body /\ asked'.user = r.user
  BY DEF HttpRequest
<1>2. request'.fields = DOMAIN r.body.says BY <1>1, HeardSays
<1>3. \A o \in {"BadRequest", "Invalid", "Unauthorized", "NotFound", "MethodNotAllowed",
                "bad_alloc"} : ~Decline(o)
  BY DEF Decline, Answer, StatusOf
<1>4. /\ r.body.form \notin {"cut", "malformed"}
      /\ Perform(call, p, r.user, r.busDay)
  BY <1>3 DEF HttpRequest
<1>5. r.body.form \in {"whole", "absent"} BY <1>4, RestAssumption DEF Forms
<1> HIDE DEF call, p
<1> SUFFICES /\ call \notin Unchecked => Required(call) \subseteq request'.fields
             /\ call = "postOrder" => r.user \in DOMAIN traders'
  BY <1>1, <1>2, <1>5 DEF AcceptedHaveFields
<1>6. CASE call = "postMarket" /\ PostMarket(r.busDay)
  BY <1>3, <1>6 DEF PostMarket, Valid, Has, Required
<1>7. CASE call = "postTrader" /\ PostTrader
  BY <1>3, <1>7 DEF PostTrader, Valid, Has, Required
<1>8. CASE call = "putTrader" /\ PutTrader(p)
  BY <1>3, <1>8 DEF PutTrader, Has, Required
<1>9. CASE call = "postOrder" /\ PostOrder(p, r.user, r.busDay)
  <2>1. /\ Valid({"side", "lots", "ticks"}, {"ref", "minLots"})
        /\ r.user \in DOMAIN traders
        /\ Decline("ok")
    BY <1>3, <1>9 DEF PostOrder
  <2> QED BY <1>9, <2>1 DEF Valid, Has, Required, Decline, registryVars
<1>10. CASE call \notin {"postMarket", "postTrader", "putTrader", "postOrder"}
  BY <1>10 DEF Required, Unchecked
<1> QED BY <1>4, <1>6, <1>7, <1>8, <1>9, <1>10 DEF Perform, ListCalls, NotImplemented

\* A request is accepted only with a body that is whole or absent, and an order
\* only from a trader who is known; all calls but the three that are Unchecked
\* are accepted only with every field that the documentation requires of them.
THEOREM AcceptedAreFilled == RestSpec => []AcceptedHaveFields
<1>1. RestInit => AcceptedHaveFields BY DEF RestInit, AcceptedHaveFields
<1>2. AcceptedHaveFields /\ [RestNext]_restVars => AcceptedHaveFields'
  <2> SUFFICES ASSUME AcceptedHaveFields, [RestNext]_restVars PROVE AcceptedHaveFields'
    OBVIOUS
  <2>1. CASE UNCHANGED restVars BY <2>1 DEF restVars, AcceptedHaveFields
  <2>2. CASE status' # 200 BY <2>2 DEF AcceptedHaveFields
  <2>3. CASE RestNext BY <2>2, <2>3, AcceptedHasAll, PageSteps DEF RestNext
  <2> QED BY <2>1, <2>3
<1> QED BY <1>1, <1>2, PTL DEF RestSpec

\* What is created is what its own request said, an earlier one's values never
\* showing in what it left out.
LEMMA CreatedFromBody ==
  ASSUME NEW r \in Requests, HttpRequest(r)
  PROVE  CreatesAsAsked
<1> DEFINE v == request'.val
           says(f) == Says(r.body, f)
<1>1. request' = Heard(r.body) /\ asked'.body = r.body BY DEF HttpRequest
<1>2. /\ v["mnem"] = says("mnem") /\ v["display"] = says("display")
      /\ v["contr"] = says("contr") /\ v["email"] = says("email")
      /\ v["state"] = says("state") /\ v["settlDate"] = says("settlDate")
      /\ v["expiryDate"] = says("expiryDate")
  BY <1>1, HeardSays, ValuesAssumption DEF ValuesOf, Dates
<1> HIDE DEF v, says
<1> DEFINE marketsAsAsked ==
             \A m \in DOMAIN markets' \ DOMAIN markets :
               /\ m = says("mnem")
               /\ markets'[m] =
                    [contr |-> says("contr"), display |-> says("display"),
                     state |-> says("state"),
                     settlDay |-> maybeIsoToJd(says("settlDate")),
                     expiryDay |-> maybeIsoToJd(says("expiryDate"))]
           tradersAsAsked ==
             \A t \in DOMAIN traders' \ DOMAIN traders :
               /\ t = says("mnem")
               /\ traders'[t] = [display |-> says("display"), email |-> says("email")]
<1>3. ASSUME CreateMarket(v["mnem"], v["display"], v["contr"],
                          maybeIsoToJd(v["settlDate"]), maybeIsoToJd(v["expiryDate"]),
                          v["state"], r.busDay)
      PROVE  marketsAsAsked /\ tradersAsAsked
  BY <1>2, <1>3 DEF CreateMarket, Refuse, With
<1>4. ASSUME NEW p, NEW displays, NEW states, UpdateMarket(p, displays, states)
      PROVE  marketsAsAsked /\ tradersAsAsked
  <2>1. DOMAIN markets' = DOMAIN markets /\ UNCHANGED traders
    BY <1>4 DEF UpdateMarket, Refuse
  <2> QED BY <2>1
<1>5. ASSUME CreateTrader(v["mnem"], v["display"], v["email"])
      PROVE  marketsAsAsked /\ tradersAsAsked
  BY <1>2, <1>5 DEF CreateTrader, Refuse, With
<1>6. ASSUME NEW p, NEW display, UpdateTrader(p, display)
      PROVE  marketsAsAsked /\ tradersAsAsked
  <2>1. UNCHANGED markets /\ DOMAIN traders' = DOMAIN traders
    BY <1>6 DEF UpdateTrader, Refuse
  <2> QED BY <2>1
<1>7. ASSUME UNCHANGED <<registryVars, last>>
      PROVE  marketsAsAsked /\ tradersAsAsked
  BY <1>7 DEF registryVars
<1>8. marketsAsAsked /\ tradersAsAsked
  <2> HIDE DEF marketsAsAsked, tradersAsAsked
  <2> QED BY <1>3, <1>4, <1>5, <1>6, <1>7, HttpSteps DEF v
<1> QED BY <1>1, <1>8 DEF CreatesAsAsked, says

\* The theorem of the two: new records are what their requests say
\* (RestRequest::reset, RestServ::httpRequest, Rest::postMarket, Rest::postTrader).
THEOREM CreatedFromOwnBody == RestSpec => CreatedAsAsked
<1>1. ASSUME NEW r \in Requests, ServePage(r) PROVE CreatesAsAsked
  BY <1>1, PageSteps DEF registryVars, CreatesAsAsked
<1>2. [RestNext]_restVars => [CreatesAsAsked]_restVars
  BY <1>1, CreatedFromBody DEF RestNext
<1> QED BY <1>2, PTL DEF RestSpec, CreatedAsAsked


----------------------------------------------------------------------------
(* Dates and days.                                                         *)

\* q is what a divided by b comes to.
IsQuot(q, a, b) == b * q <= a /\ a < b * q + b

\* Division of the language, where it meets no negative number.
LEMMA Divides ==
  ASSUME NEW a \in Nat, NEW b \in Nat \ {0}
  PROVE  \E q \in Nat : q = Quot(a, b) /\ IsQuot(q, a, b)
<1>1. a \div b \in Nat /\ b * (a \div b) <= a /\ a < b * (a \div b) + b
  OBVIOUS
<1> QED BY <1>1 DEF Quot, IsQuot

LEMMA QuotIs ==
  ASSUME NEW a \in Nat, NEW b \in Nat \ {0}, NEW q \in Nat, IsQuot(q, a, b)
  PROVE  Quot(a, b) = q
<1>1. a \div b = q
  BY DEF IsQuot
<1> QED BY <1>1 DEF Quot

\* How jdToIso takes a day apart: into centuries, years, months and days, all
\* counted from a first of March.
PartsFit(n, i, j, k) ==
  /\ n \in Nat /\ i \in Nat /\ j \in Nat /\ k \in Nat
  /\ n >= 49 /\ i <= 99 /\ j >= 1 /\ j <= 12 /\ k >= 1 /\ k <= 31

\* The days of whole centuries, years and months, and what was divided for them.
AddUp(jd, n, i, j, k, a, b, c, x, y, z) ==
  /\ a \in Nat /\ b \in Nat /\ c \in Nat /\ x \in Nat /\ y \in Nat /\ z \in Nat
  /\ IsQuot(a, 146097 * n + 3, 4) /\ IsQuot(b, 1461 * i, 4) /\ IsQuot(c, 2447 * j, 80)
  /\ jd + 68569 = a + b - 31 + c + k
  /\ x = 4 * (jd + 68569) /\ IsQuot(n, x, 146097)
  /\ y = 4000 * (b + c + k - 30) /\ IsQuot(i, y, 1461001)
  /\ z = 80 * (c + k) /\ IsQuot(j, z, 2447)

PartsAddUp(jd, n, i, j, k) ==
  \E a, b, c, x, y, z : AddUp(jd, n, i, j, k, a, b, c, x, y, z)

IsParted(jd, n, i, j, k) == PartsFit(n, i, j, k) /\ PartsAddUp(jd, n, i, j, k)

\* A day is one of a century of at most 36525 days, and of a year of at most 366.
LEMMA InCentury ==
  ASSUME NEW l \in Nat, NEW n \in Nat, NEW a \in Nat,
         IsQuot(n, 4 * l, 146097), IsQuot(a, 146097 * n + 3, 4)
  PROVE  l - a \in Nat /\ l - a <= 36524
BY SMT DEF IsQuot

LEMMA InYear ==
  ASSUME NEW l \in Nat, l <= 36524, NEW x \in Nat, x = 4000 * (l + 1),
         NEW i \in Nat, i <= 99, IsQuot(i, x, 1461001), NEW b \in Nat, IsQuot(b, 1461 * i, 4)
  PROVE  l - b + 31 \in Nat /\ l - b + 31 >= 31 /\ l - b + 31 <= 396
BY SMT DEF IsQuot

\* The same months, counted the other way.
LEMMA MonthsBack ==
  ASSUME NEW j \in Nat, j >= 1, j <= 12, NEW c \in Nat, IsQuot(c, 2447 * j, 80)
  PROVE  IsQuot(c, 367 * j, 12)
BY SMT DEF IsQuot

\* The days of whole centuries, and of the years after them.
LEMMA YearsBack ==
  ASSUME NEW n \in Nat, NEW i \in Nat, i <= 99, NEW b \in Nat, NEW y \in Nat, NEW r \in Nat,
         y = 100 * (n - 1) + i, r = 36525 * (n - 1) + b, IsQuot(b, 1461 * i, 4)
  PROVE  IsQuot(r, 1461 * y, 4)
BY SMT DEF IsQuot

LEMMA CenturiesBack ==
  ASSUME NEW n \in Nat, NEW a \in Nat, NEW d \in Nat,
         IsQuot(a, 146097 * n + 3, 4), IsQuot(d, 3 * n, 4)
  PROVE  a = 36525 * n - d
BY SMT DEF IsQuot

\* The year begins in January, the last but one of twelve months.
Late(j) == IF j >= 11 THEN 1 ELSE 0

IsoOf(n, i, j, k) ==
  (100 * (n - 49) + i + Late(j)) * 10000 + (j + 2 - 12 * Late(j)) * 100 + k

\* The first day of March of the year 0.  From here on the years of the dates
\* count up, and dates are positive.
FirstDay == 1721120

\* jdToIso takes a day apart in this way, each part in its bounds.
LEMMA Parting ==
  ASSUME NEW jd \in Nat, jd >= FirstDay
  PROVE  \E n, i, j, k :
           IsParted(jd, n, i, j, k) /\ jdToIso(jd) = IsoOf(n, i, j, k)
<1>0. PICK l \in Nat : l = jd + 68569
  BY SMT
<1>1. PICK n \in Nat : n = Quot(4 * l, 146097) /\ IsQuot(n, 4 * l, 146097)
  BY Divides, SMT
<1>2. PICK a \in Nat : a = Quot(146097 * n + 3, 4) /\ IsQuot(a, 146097 * n + 3, 4)
  BY Divides, SMT
<1>3. n >= 49
  BY <1>0, <1>1, SMT DEF FirstDay, IsQuot
<1>4. PICK l2 \in Nat : l2 = l - a /\ l2 <= 36524
  BY <1>1, <1>2, InCentury, SMT
<1>a. PICK x \in Nat : x = 4000 * (l2 + 1)
  BY SMT
<1>5. PICK i \in Nat : i = Quot(x, 1461001) /\ IsQuot(i, x, 1461001)
  BY Divides, SMT
<1>6. i <= 99
  <2>1. l2 \in Nat /\ l2 <= 36524 /\ x \in Nat /\ x = 4000 * (l2 + 1)
    BY <1>4, <1>a, SMT
  <2>2. i \in Nat /\ IsQuot(i, x, 1461001)
    BY <1>5, SMT
  <2>3. x <= 146100000
    BY <2>1, SMT
  <2>4. 1461001 * i <= x
    BY <2>2, SMT DEF IsQuot
  <2>5. ASSUME i >= 100 PROVE FALSE
    <3>1. 1461001 * i >= 146100100
      BY <2>5, SMT
    <3> QED BY <2>3, <2>4, <3>1, SMT
  <2> QED BY <2>2, <2>5, SMT
<1>7. PICK b \in Nat : b = Quot(1461 * i, 4) /\ IsQuot(b, 1461 * i, 4)
  BY Divides, SMT
<1>8. PICK l3 \in Nat : l3 = l2 - b + 31 /\ l3 >= 31 /\ l3 <= 396
  BY <1>4, <1>a, <1>5, <1>6, <1>7, InYear, SMT
<1>b. PICK z \in Nat : z = 80 * l3
  BY SMT
<1>9. PICK j \in Nat : j = Quot(z, 2447) /\ IsQuot(j, z, 2447)
  BY Divides, SMT
<1>10. j >= 1 /\ j <= 12
  <2>1. IsQuot(j, z, 2447) /\ z = 80 * l3 /\ l3 >= 31 /\ l3 <= 396
    BY <1>8, <1>b, <1>9, SMT
  <2>2. 2447 * j <= z /\ z < 2447 * j + 2447
    BY <2>1, SMT DEF IsQuot
  <2> QED BY <2>1, <2>2, SMT
<1>11. PICK c \in Nat : c = Quot(2447 * j, 80) /\ IsQuot(c, 2447 * j, 80)
  BY Divides, SMT
<1>12. PICK k \in Nat : k = l3 - c /\ k >= 1 /\ k <= 31
  <2>1. IsQuot(j, z, 2447) /\ z = 80 * l3 /\ IsQuot(c, 2447 * j, 80)
    BY <1>8, <1>b, <1>9, <1>11, SMT
  <2>2. 2447 * j <= z /\ z < 2447 * j + 2447 /\ 80 * c <= 2447 * j /\ 2447 * j < 80 * c + 80
    BY <2>1, SMT DEF IsQuot
  <2>3. l3 - c \in Nat /\ l3 - c >= 1 /\ l3 - c <= 31
    BY <1>10, <2>1, <2>2, SMT
  <2> QED BY <2>3, SMT
<1>13. IsParted(jd, n, i, j, k)
  <2>1. jd + 68569 = a + b - 31 + c + k
    BY <1>0, <1>4, <1>8, <1>12, SMT
  <2>a. x = 4000 * (b + c + k - 30) /\ z = 80 * (c + k) /\ IsQuot(i, x, 1461001) /\ IsQuot(j, z, 2447)
    BY <1>8, <1>a, <1>5, <1>b, <1>9, <1>12, SMT
  <2>b. PICK w \in Nat : w = 4 * (jd + 68569) /\ IsQuot(n, w, 146097)
    BY <1>0, <1>1, SMT
  <2>c. AddUp(jd, n, i, j, k, a, b, c, w, x, z)
    BY <1>2, <1>7, <1>11, <2>1, <2>a, <2>b, SMT DEF AddUp
  <2>2. PartsAddUp(jd, n, i, j, k)
    BY <2>c DEF PartsAddUp
  <2>3. PartsFit(n, i, j, k)
    BY <1>3, <1>6, <1>10, <1>12, SMT DEF PartsFit
  <2> QED BY <2>2, <2>3 DEF IsParted
<1>14. Quot(j, 11) = Late(j)
  <2>1. Late(j) \in Nat /\ IsQuot(Late(j), j, 11)
    BY <1>10, SMT DEF Late, IsQuot
  <2> QED BY <2>1, QuotIs, SMT
<1>15. jdToIso(jd) =
         (100 * (n - 49) + i + Late(j)) * 10000 + (j + 2 - 12 * Late(j)) * 100 + k
  BY <1>0, <1>1, <1>2, <1>4, <1>a, <1>5, <1>7, <1>8, <1>b, <1>9, <1>11, <1>12,
     <1>14, SMT DEF jdToIso
<1> QED BY <1>13, <1>15, SMT DEF IsoOf

\* isoToJd puts the parts together again.
LEMMA Together ==
  ASSUME NEW jd \in Nat, NEW n, NEW i, NEW j, NEW k, IsParted(jd, n, i, j, k)
  PROVE  IsoOf(n, i, j, k) \in Nat \ {0} /\ isoToJd(IsoOf(n, i, j, k)) = jd
<1>1. n \in Nat /\ i \in Nat /\ j \in Nat /\ k \in Nat
  /\ n >= 49 /\ i <= 99 /\ j >= 1 /\ j <= 12 /\ k >= 1 /\ k <= 31
  BY SMT DEF IsParted, PartsFit
<1>a. PICK a, b, c, x, y0, z : AddUp(jd, n, i, j, k, a, b, c, x, y0, z)
  BY DEF IsParted, PartsAddUp
<1>2. /\ a \in Nat /\ b \in Nat /\ c \in Nat
      /\ IsQuot(a, 146097 * n + 3, 4) /\ IsQuot(b, 1461 * i, 4) /\ IsQuot(c, 2447 * j, 80)
      /\ jd + 68569 = a + b - 31 + c + k
  BY <1>a, SMT DEF AddUp
<1>3. PICK year \in Nat, month \in 1..12 :
        year = 100 * (n - 49) + i + Late(j) /\ month = j + 2 - 12 * Late(j)
  <2>1. 100 * (n - 49) + i + Late(j) \in Nat /\ j + 2 - 12 * Late(j) \in 1..12
    BY <1>1, SMT DEF Late
  <2> QED BY <2>1, SMT
<1>4. PICK iso \in Nat : iso = IsoOf(n, i, j, k) /\ iso = year * 10000 + month * 100 + k
  <2>1. year * 10000 + month * 100 + k \in Nat
    BY <1>1, SMT
  <2> QED BY <1>1, <1>3, <2>1, SMT DEF IsoOf
<1>5. iso # 0
  BY <1>1, <1>3, <1>4, SMT
<1>6. isoToJd(iso) = ymdToJd(year, month - 1, k)
  <2>1. PICK m \in Nat : m = year * 100 + month
    BY SMT
  <2>2. IsQuot(m, iso, 100) /\ IsQuot(year, iso, 10000)
    BY <1>1, <1>4, <2>1, SMT DEF IsQuot
  <2>3. Quot(iso, 100) = m /\ Quot(iso, 10000) = year
    BY <2>2, QuotIs, SMT
  <2>4. m - 100 * year = month /\ iso - 100 * m = k
    BY <1>1, <1>3, <1>4, <2>1, SMT
  <2> QED BY <2>3, <2>4, SMT DEF isoToJd
<1>7. PICK q \in {-1, 0} : q = (IF month <= 2 THEN -1 ELSE 0)
  BY SMT
<1>8. Quot(month - 14, 12) = q
  <2>1. CASE month <= 2
    <3>1. -(month - 14) \in 12..13 /\ ~(month - 14 >= 0)
      BY <1>3, <2>1, SMT
    <3>2. (-(month - 14)) \div 12 = 1
      BY <3>1, SMT
    <3> QED BY <1>7, <2>1, <3>1, <3>2, SMT DEF Quot
  <2>2. CASE month > 2
    <3>2. -(month - 14) \in 2..11 /\ ~(month - 14 >= 0)
      BY <1>3, <2>2, SMT
    <3>3. (-(month - 14)) \div 12 = 0
      BY <3>2, SMT
    <3> QED BY <1>7, <2>2, <3>2, <3>3, SMT DEF Quot
  <2> QED BY <1>3, <2>1, <2>2, SMT
<1>9. PICK y \in Nat : y = 100 * (n - 1) + i
  <2>1. 100 * (n - 1) + i \in Nat
    BY <1>1, SMT
  <2> QED BY <2>1, SMT
<1>10. /\ year + 4800 + q = y /\ year + 4900 + q = y + 100 /\ month - 2 - q * 12 = j
       /\ (month - 1) + 1 = month
  <2>1. CASE j >= 11
    BY <1>1, <1>3, <1>7, <1>9, <2>1, SMT DEF Late
  <2>2. CASE ~(j >= 11)
    BY <1>1, <1>3, <1>7, <1>9, <2>2, SMT DEF Late
  <2> QED BY <2>1, <2>2, SMT
<1>11. ymdToJd(year, month - 1, k) =
         k - 32075 + Quot(1461 * y, 4) + Quot(367 * j, 12) - Quot(3 * Quot(y + 100, 100), 4)
  BY <1>8, <1>10, SMT DEF ymdToJd
<1>12. PICK r \in Nat : r = 36525 * (n - 1) + b /\ Quot(1461 * y, 4) = r
  <2>1. PICK r \in Nat : r = 36525 * (n - 1) + b
    <3>1. 36525 * (n - 1) + b \in Nat
      BY <1>1, <1>2, SMT
    <3> QED BY <3>1, SMT
  <2>2. IsQuot(r, 1461 * y, 4)
    BY <1>1, <1>2, <1>9, <2>1, YearsBack, SMT
  <2> QED BY <2>1, <2>2, QuotIs, SMT
<1>13. Quot(367 * j, 12) = c
  <2>1. IsQuot(c, 367 * j, 12)
    BY <1>1, <1>2, MonthsBack, SMT
  <2>2. 367 * j \in Nat
    BY <1>1, SMT
  <2> QED BY <1>2, <2>1, <2>2, QuotIs, SMT
<1>14. Quot(y + 100, 100) = n
  <2>1. IsQuot(n, y + 100, 100)
    BY <1>1, <1>9, SMT DEF IsQuot
  <2> QED BY <1>1, <2>1, QuotIs, SMT
<1>15. PICK d \in Nat : d = Quot(3 * n, 4) /\ IsQuot(d, 3 * n, 4)
  <2>1. \A w \in Nat : \E e \in Nat : e = Quot(w, 4) /\ IsQuot(e, w, 4)
    BY Divides, SMT
  <2>2. 3 * n \in Nat
    BY <1>1, SMT
  <2> QED BY <2>1, <2>2
<1>16. a = 36525 * n - d
  BY <1>1, <1>2, <1>15, CenturiesBack, SMT
<1>17. jd = k - 32075 + r + c - d
  BY <1>1, <1>2, <1>12, <1>16, SMT
<1> QED BY <1>4, <1>5, <1>6, <1>11, <1>12, <1>13, <1>14, <1>15, <1>17, SMT

\* A larger number has no smaller quotient, and a number has one.
LEMMA QuotOrder ==
  ASSUME NEW b \in Nat \ {0}, NEW a \in Nat, NEW c \in Nat, a <= c,
         NEW q \in Nat, NEW r \in Nat, IsQuot(q, a, b), IsQuot(r, c, b)
  PROVE  q <= r
<1>1. ASSUME q >= r + 1 PROVE FALSE
  <2>1. PICK e \in Nat : q = r + 1 + e
    <3>1. q - (r + 1) \in Nat
      BY <1>1
    <3> QED BY <3>1
  <2>2. b * q = b * r + b + b * e /\ b * e \in Nat /\ b * r \in Nat
    BY <2>1
  <2> QED BY <2>2 DEF IsQuot
<1> QED BY <1>1

\* The order of dates is the order of days.
LEMMA LaterIso ==
  ASSUME NEW jd \in Nat, NEW n, NEW i, NEW j, NEW k, IsParted(jd, n, i, j, k),
         NEW d \in Nat, NEW m, NEW f, NEW g, NEW h, IsParted(d, m, f, g, h),
         jd <= d
  PROVE  IsoOf(n, i, j, k) <= IsoOf(m, f, g, h)
<1>1. /\ n \in Nat /\ i \in Nat /\ j \in Nat /\ k \in Nat
      /\ n >= 49 /\ i <= 99 /\ j >= 1 /\ j <= 12 /\ k >= 1 /\ k <= 31
  BY SMT DEF IsParted, PartsFit
<1>2. /\ m \in Nat /\ f \in Nat /\ g \in Nat /\ h \in Nat
      /\ m >= 49 /\ f <= 99 /\ g >= 1 /\ g <= 12 /\ h >= 1 /\ h <= 31
  BY SMT DEF IsParted, PartsFit
<1>a. PICK a, b, c, x, y, z : AddUp(jd, n, i, j, k, a, b, c, x, y, z)
  BY DEF IsParted, PartsAddUp
<1>b. PICK p, q, r, u, v, w : AddUp(d, m, f, g, h, p, q, r, u, v, w)
  BY DEF IsParted, PartsAddUp
<1>3. /\ a \in Nat /\ b \in Nat /\ c \in Nat /\ x \in Nat /\ y \in Nat /\ z \in Nat
      /\ IsQuot(a, 146097 * n + 3, 4) /\ IsQuot(b, 1461 * i, 4) /\ IsQuot(c, 2447 * j, 80)
      /\ jd + 68569 = a + b - 31 + c + k
      /\ x = 4 * (jd + 68569) /\ IsQuot(n, x, 146097)
      /\ y = 4000 * (b + c + k - 30) /\ IsQuot(i, y, 1461001)
      /\ z = 80 * (c + k) /\ IsQuot(j, z, 2447)
  BY <1>a, SMT DEF AddUp
<1>4. /\ p \in Nat /\ q \in Nat /\ r \in Nat /\ u \in Nat /\ v \in Nat /\ w \in Nat
      /\ IsQuot(p, 146097 * m + 3, 4) /\ IsQuot(q, 1461 * f, 4) /\ IsQuot(r, 2447 * g, 80)
      /\ d + 68569 = p + q - 31 + r + h
      /\ u = 4 * (d + 68569) /\ IsQuot(m, u, 146097)
      /\ v = 4000 * (q + r + h - 30) /\ IsQuot(f, v, 1461001)
      /\ w = 80 * (r + h) /\ IsQuot(g, w, 2447)
  BY <1>b, SMT DEF AddUp
<1>c. /\ a \in Nat /\ b \in Nat /\ c \in Nat /\ x \in Nat /\ y \in Nat /\ z \in Nat
      /\ p \in Nat /\ q \in Nat /\ r \in Nat /\ u \in Nat /\ v \in Nat /\ w \in Nat
  BY <1>3, <1>4
<1>5. \A e \in Nat, s, t, o, l \in Nat :
        e # 0 /\ s <= t /\ IsQuot(o, s, e) /\ IsQuot(l, t, e) => o <= l
  BY QuotOrder, SMT
<1>6. n <= m
  <2>1. x <= u /\ IsQuot(n, x, 146097) /\ IsQuot(m, u, 146097)
    BY <1>3, <1>4, SMT
  <2> QED BY <1>1, <1>2, <1>c, <1>5, <2>1, SMT
<1>7. n = m => i <= f
  <2>1. ASSUME n = m PROVE a = p
    <3>1. PICK s \in Nat : s = 146097 * n + 3
      BY <1>1, SMT
    <3>2. IsQuot(a, s, 4) /\ IsQuot(p, s, 4)
      BY <1>3, <1>4, <2>1, <3>1, SMT
    <3>3. a <= p /\ p <= a
      BY <1>c, <1>5, <3>2, SMT
    <3> QED BY <1>c, <3>3, SMT
  <2>2. ASSUME n = m PROVE y <= v /\ IsQuot(i, y, 1461001) /\ IsQuot(f, v, 1461001)
    BY <1>1, <1>2, <1>3, <1>4, <2>1, <2>2, SMT
  <2> QED BY <1>1, <1>2, <1>c, <1>5, <2>2, SMT
<1>8. n = m /\ i = f => j <= g
  <2> SUFFICES ASSUME n = m, i = f PROVE j <= g
    OBVIOUS
  <2>1. a = p /\ b = q
    <3>1. PICK s \in Nat, t \in Nat : s = 146097 * n + 3 /\ t = 1461 * i
      BY <1>1, SMT
    <3>2. IsQuot(a, s, 4) /\ IsQuot(p, s, 4) /\ IsQuot(b, t, 4) /\ IsQuot(q, t, 4)
      BY <1>3, <1>4, <3>1, SMT
    <3>3. a <= p /\ p <= a /\ b <= q /\ q <= b
      BY <1>c, <1>5, <3>2, SMT
    <3> QED BY <1>c, <3>3, SMT
  <2>2. z <= w /\ IsQuot(j, z, 2447) /\ IsQuot(g, w, 2447)
    BY <1>1, <1>2, <1>3, <1>4, <2>1, SMT
  <2> QED BY <1>1, <1>2, <1>c, <1>5, <2>2, SMT
<1>9. n = m /\ i = f /\ j = g => k <= h
  <2> SUFFICES ASSUME n = m, i = f, j = g PROVE k <= h
    OBVIOUS
  <2>1. a = p /\ b = q /\ c = r
    <3>1. PICK s \in Nat, t \in Nat, o \in Nat : s = 146097 * n + 3 /\ t = 1461 * i /\ o = 2447 * j
      BY <1>1, SMT
    <3>2. /\ IsQuot(a, s, 4) /\ IsQuot(p, s, 4) /\ IsQuot(b, t, 4) /\ IsQuot(q, t, 4)
          /\ IsQuot(c, o, 80) /\ IsQuot(r, o, 80)
      BY <1>3, <1>4, <3>1, SMT
    <3>3. a <= p /\ p <= a /\ b <= q /\ q <= b /\ c <= r /\ r <= c
      BY <1>c, <1>5, <3>2, SMT
    <3> QED BY <1>c, <3>3, SMT
  <2> QED BY <1>1, <1>2, <1>3, <1>4, <2>1, SMT
\* A year of dates begins in March.
<1>10. /\ IsoOf(n, i, j, k) = (100 * n + i) * 10000 + (j + 2) * 100 + k + Late(j) * 8800 - 49000000
       /\ IsoOf(m, f, g, h) = (100 * m + f) * 10000 + (g + 2) * 100 + h + Late(g) * 8800 - 49000000
  <2>1. Late(j) \in Nat /\ Late(g) \in Nat
    BY SMT DEF Late
  <2> QED BY <1>1, <1>2, <2>1, SMT DEF IsoOf
<1>11. CASE n < m \/ (n = m /\ i < f)
  <2>1. PICK s \in Nat, t \in Nat : s = 100 * n + i /\ t = 100 * m + f
    BY <1>1, <1>2, SMT
  <2>2. s + 1 <= t
    BY <1>1, <1>2, <1>11, <2>1, SMT
  <2>3. (j + 2) * 100 + k + Late(j) * 8800 <= 10231 /\ Late(j) \in Nat
    BY <1>1, SMT DEF Late
  <2>4. (g + 2) * 100 + h + Late(g) * 8800 >= 301 /\ Late(g) \in Nat
    BY <1>2, SMT DEF Late
  <2> QED BY <1>1, <1>2, <1>10, <2>1, <2>2, <2>3, <2>4, SMT
<1>12. CASE n = m /\ i = f
  <2>1. j <= g /\ (j = g => k <= h)
    BY <1>8, <1>9, <1>12
  <2>2. (j + 2) * 100 + k + Late(j) * 8800 <= (g + 2) * 100 + h + Late(g) * 8800
    BY <1>1, <1>2, <2>1, SMT DEF Late
  <2>3. Late(j) \in Nat /\ Late(g) \in Nat
    BY SMT DEF Late
  <2> QED BY <1>1, <1>2, <1>10, <1>12, <2>2, <2>3, SMT
<1> QED BY <1>1, <1>2, <1>6, <1>7, <1>11, <1>12, SMT

\* What maybeJdToIso makes of a day is a date again, in the order of the days.
LEMMA DayAndBack ==
  ASSUME NEW jd \in Nat, jd >= FirstDay
  PROVE  jdToIso(jd) \in Nat \ {0} /\ isoToJd(jdToIso(jd)) = jd
<1>1. PICK n, i, j, k : IsParted(jd, n, i, j, k) /\ jdToIso(jd) = IsoOf(n, i, j, k)
  BY Parting
<1> QED BY <1>1, Together

LEMMA DaysInOrder ==
  ASSUME NEW jd \in Nat, NEW d \in Nat, jd >= FirstDay, d >= FirstDay, jd <= d
  PROVE  jdToIso(jd) <= jdToIso(d)
<1>1. PICK n, i, j, k : IsParted(jd, n, i, j, k) /\ jdToIso(jd) = IsoOf(n, i, j, k)
  BY Parting
<1>2. PICK m, f, g, h : IsParted(d, m, f, g, h) /\ jdToIso(d) = IsoOf(m, f, g, h)
  BY Parting
<1> QED BY <1>1, <1>2, LaterIso

\* The conversions of JulianDay.hpp agree for every day from the first of March of
\* the year 0 on: a day leads to a date, the date back to the day, and dates come in
\* the order of their days (jdToIso, isoToJd).
THEOREM DatesAreDays ==
  \A jd, d \in Nat :
    jd >= FirstDay /\ jd <= d =>
      isoToJd(jdToIso(jd)) = jd /\ jdToIso(jd) <= jdToIso(d)
BY DayAndBack, DaysInOrder DEF FirstDay

\* The days that clients use are days of such dates.
DaysAreDates == \A d \in Days : d = 0 \/ d >= FirstDay

\* The dates that a client reads of a market lead back to the days that the market
\* has, and are in their order.
THEOREM DatesAreReadBack ==
  ASSUME DaysAreDates
  PROVE  RestSpec => []DatesReadBack
<1>1. RestSpec => [](TypeOK /\ MarketDaysOrdered)
  <2>1. RestSpec => Spec BY ServiceIsRegistry DEF ImplementsRegistry
  <2> QED BY <2>1, RegistrySafe, PTL
<1>2. TypeOK /\ MarketDaysOrdered => DatesReadBack
  <2> SUFFICES ASSUME TypeOK, MarketDaysOrdered, NEW m \in DOMAIN markets
               PROVE  LET settlDate == maybeJdToIso(markets[m].settlDay)
                          expiryDate == maybeJdToIso(markets[m].expiryDay)
                      IN /\ maybeIsoToJd(settlDate) = markets[m].settlDay
                         /\ maybeIsoToJd(expiryDate) = markets[m].expiryDay
                         /\ expiryDate <= settlDate
    BY DEF DatesReadBack
  <2>1. markets[m] \in Market /\ DaysOrdered(markets[m])
    BY PartialType DEF TypeOK, MarketDaysOrdered
  <2>2. PICK settlDay \in Nat, expiryDay \in Nat :
          /\ settlDay = markets[m].settlDay /\ expiryDay = markets[m].expiryDay
          /\ settlDay = 0 <=> expiryDay = 0
          /\ expiryDay <= settlDay
          /\ settlDay # 0 => settlDay >= FirstDay /\ expiryDay >= FirstDay
    BY <2>1, RegistryAssumption DEF Market, DaysOrdered, DaysAreDates
  <2>3. CASE settlDay = 0
    BY <2>2, <2>3 DEF maybeJdToIso, maybeIsoToJd
  <2>4. CASE settlDay # 0
    <3>1. /\ maybeJdToIso(settlDay) = jdToIso(settlDay)
          /\ maybeJdToIso(expiryDay) = jdToIso(expiryDay)
      BY <2>2, <2>4 DEF maybeJdToIso
    <3>2. /\ jdToIso(settlDay) # 0 /\ isoToJd(jdToIso(settlDay)) = settlDay
          /\ jdToIso(expiryDay) # 0 /\ isoToJd(jdToIso(expiryDay)) = expiryDay
          /\ jdToIso(expiryDay) <= jdToIso(settlDay)
      BY <2>2, <2>4, DayAndBack, DaysInOrder
    <3> QED BY <2>2, <3>1, <3>2 DEF maybeIsoToJd
  <2> QED BY <2>3, <2>4
<1> QED BY <1>1, <1>2, PTL

\* What the constructor of Market asserts of the two days holds of every market that
\* clients make, whatever business day their requests name (Rest::postMarket).
THEOREM MarketsAreOrdered == RestSpec => []MarketDaysOrdered
BY ServiceSafe, PTL
=============================================================================
