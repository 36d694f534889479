# Swirly: models, checks and proofs

Swirly is a matching engine: traders send limit orders for markets, the engine matches them in
price-time priority, keeps orders, trades and positions per trader, writes a journal and answers
over HTTP. This directory holds TLA+ models of it, the TLC configurations that check them, and proofs
checked by TLAPS. Below, `Serv.cpp` is `src/fig/Serv.cpp`, `RestServ.cpp` is
`src/swirlyd/RestServ.cpp`, `Main.cpp` is `src/swirlyd/Main.cpp` and so on.

The daemon is one thread. What is hard about this code is therefore not threads but

* **leaving a function half way**: allocations and the journal throw in the middle of
  `createOrder`, and the code undoes what it has done with finalisers;
* **one fact kept in several places**: list and levels of a book side, raw pointers between them,
  executions that run ahead of their orders, sessions, positions and journal, traders and the index
  of their emails;
* **a two-phase transaction**: matching computes, a `noexcept` commit phase applies, and assumes that
  nothing changed between the two and that all memory has been reserved;
* **one object used by all requests**: parser state, fields and values of a request outlive it;
* **the outside world between any two steps**: bytes that arrive in pieces, clients that hang up,
  buffers that are written in part, signals at any moment.

## 1. Inventory

| Component | Source | State | Operations | What makes it correct |
|---|---|---|---|---|
| Book side | `elm/BookSide`, `elm/Level`, `OrderList` in `elm/Order.hpp` | price levels keyed by signed price, list of orders, raw pointers both ways | insert, create, remove, revise, cancel, take | levels are the sums of the list; pointers are live; best price first, oldest first |
| Market book | `elm/MarketBook` | two book sides, last trade, id counters, view | dispatch to a side, allocate ids | sides never cross; ids unique |
| Orders, executions | `elm/Order`, `elm/Exec`, `elm/Request`, `elm/Factory` | state, lots, residual, executed, cost | create, revise, cancel, trade, copy to execution | residual and executed lots add up; execution and order agree |
| Positions | `elm/Posn` | lots and cost bought and sold | addTrade | sum of the trades |
| Trader session | `fig/TraderSess`, `fig/TraderSessSet` | orders, trades, positions, reference index, email index | insert, remove, lazyPosn | knows exactly what its calls committed |
| Engine | `fig/Serv.cpp` | markets, traders, pending `matches` | createOrder; revision, cancellation, archiving and end of day are empty functions | price-time matching, all or nothing |
| Registry | `fig/Serv.cpp`, `TraderSessSet` | markets, traders, email index | load, createMarket, updateMarket, createTrader, updateTrader | index and traders agree, days in order |
| Response | `fig/Response` | orders, executions, position of a call | reserve, insert | never outgrows what was reserved |
| Journal, model | `elm/Journ`, `elm/Model`, `fig/Mock` | external | createExec of a batch | enough to restore every order |
| REST facade | `fir/Rest`, `fir/EntitySet` | none | one function per resource | what is accepted has what it needs |
| Request parser | `fir/RestRequest` (Ragel) | fields seen, values, partial token | parse, reset, valid | nothing of one request reaches the next; a body in pieces is understood as the whole |
| Router | `swirlyd/RestServ`, `ash/Tokeniser` | method and match bits, path, shared request | route, reset | serves the documented resources, refuses the rest truthfully |
| HTTP server | `contrib/mongoose.c`, `Mongoose.hpp`, `swirlyd/Stream` | connections, receive and send buffers, flags, user data | poll, accept, read, handle, write, close | one answer per request, in order |
| Main loop | `Main.cpp` | `sig_`, log file | poll, take signal, reopen, leave | no signal is lost or acted on twice |
| Utilities | `ash/*` | reference counts, tokeniser, calendar | | |

How they meet: the poll loop reads bytes of a connection into its receive buffer; when a message is
whole, the callback given to the web server finds the `RestServ` in the user data of the connection.
`RestServ` resets and fills the shared `RestRequest` from the body, routes by path and method, checks
the fields that the route asks for and calls `Rest`, which calls `Serv`; the answer is written into the send
buffer of the connection through `Stream`, and a later poll sends it. In `createOrder` the engine
asks the market book for ids and the opposite side for makers, copies orders to executions, puts matches
into `Impl::matches`, places the rest of the order, writes the journal, allocates the position and
the response, and then commits to sessions, positions and book. All of it happens inside one poll, and
signals interrupt only to set `sig_`.

`PROJECT.json` lists the hazards of the code, each at its line, with the properties that watch it.

## 2. Modules

```
 Daemon ──extends──> HttpServer ······refines······> RequestReply
 RestServ ─extends─> Routes ──> Tokeniser            BookSide ···refines···> PriceTime
     │└────extends─> Calendar                        Serv ···refines···> PriceTimeMatching
     └─────extends─> Registry (also what it refines)      RequestParser
```

The layers meet where one hands a value to the next: `HttpServer` reduces a request to
whether it is refused, `RestServ` takes the body as the parser leaves it and follows an order to the door
of `createOrder`, `Serv` starts there. Each is checked against all values that it can be
handed, so no run has to hold the whole daemon.

### `BookSide` (and `PriceTime`)

| Model | Code |
|---|---|
| `list` | `BookSide::orders_` |
| `levels[k]`, records of `first`, `ticks`, `resd`, `count` | `BookSide::levels_`, class `Level` |
| `order[o].level`, a key or `NoLevel` | `Order::level_` |
| `InsertOrder` ... `TakeOrder` | the public functions of `BookSide` |

Assertions of the code are guards. Every operation is called in any order, on orders inside and
outside the book, so that sequences no test has are covered; `createOrder` may also fail to allocate
its level. `PriceTime` is the abstract specification: a queue of orders per price. The run shows
that `BookSide` implements it, reading the queue of a price off the list (`ImplementsPriceTime`).

### `Serv` (and `PriceTimeMatching`)

One market, any number of traders. One call of `createOrder` is a sequence of steps, cut where an
exception may leave it:

| Phase | Steps | Code |
|---|---|---|
| idle | `Reject`, `CreateOrder`, `CreateThrows` | validation, ids, order and first execution |
| match | `MatchMaker`, `MatchThrows`, `MatchEnd` | the loop of `matchOrders`, one maker a step |
| place | `PlaceOrder`, `PlaceThrows`, `PlaceAborts` | `insertOrder` of what is left, with its assertions |
| journal | `WriteJournal`, `JournalThrows` | the batch and the inner finaliser |
| respond | `PrepareResponse`, `ResponseThrows` | position, capacities, session insertion |
| commit | `CommitMatch`, `CommitAborts`, `Return` | `commitMatches`, one match a step |

`Faults` is the set of points that may throw: order creation (`create`), a match (`match`), a level
(`level`), the journal (`journal`), the taker's position (`posn`), the response (`reserve`). A step is
enabled as the code's conditions say, and `Leave` is what every exit has in common. An assertion that
fails ends the process (`aborted`), as in a build with assertions. The default build type leaves them out
(`CMakeLists.txt:11` sets RELWITHDEBINFO, which defines NDEBUG): there the engine goes on with a book that breaks what
its functions rely on, which is not modelled. `NeverAborts` says for both builds that this point is not reached.

A book side is the set of its resting orders here, walked by `Precedes`, price first and id second.
That is what `BookSide` shows the list to be: `BestPriceFirst` and `ImplementsPriceTime` give the
order of the list, and an order enters the book once, in the order of ids. `orders` keeps a record
while something refers to it; only the order of the running call is ever freed.

`PriceTimeMatching` is the abstract specification: a submitted order trades at once, and what every
resting order gives is a closed form, its residual limited by what those ahead of it leave.
`committed` is a history variable, the public state (accounts, positions, fills) when the last call
ended; `ImplementsMatching` maps the abstract state to it, so a call that fails maps to a stutter. That
the sides are not crossed after a call follows from the closed form.

### `Registry`

Markets and traders are functions from mnemonics to records, `emailIdx` a function from emails to
mnemonics. The containers behind them, `RecSet` and `TraderSessSet`, are intrusive: only the factory that makes the
record allocates, and may fail, and insertions do not; the code makes all its lookups before the first insertion. `Init` is what loading
makes of any loaded records, of which several may share an email: `emailIdx` then finds one of them.

### `Routes` and `Tokeniser`

`Tokeniser` gives the three positions of `Tokeniser.hpp` as operators on a buffer; `Loop` is the loop that
all callers write, a recursive function. `Routes` is the nested matching of `restRequest`, `recRequest`,
`sessRequest` and those below them: for a method and a path, whether `MatchUri` is set and which call
is made. The reference is the table of `doc/RestApi.md`: `Listed` has the resources that are spelt out, `Documented` adds
the reads of a list of entities (`entity[,entity]...`). `Undocumented` says apart from it what the code serves besides.

### `RestServ`, with `Calendar`

`HttpRequest(r)` is one call of `httpRequest`: `reset`, `parse` of the body (`Heard`), the route, `valid` of
the required and optional fields, the call, and the status that the exception classes stand for. `request` is the
shared object and survives the call. The code makes the call and tests the match bits after it; as it sets
both before every call, the model tests the route first. `PostOrder` ends at the door of `createOrder`: its outcome is
nondeterministic there, and neither book nor journal are variables. `asked` is a history variable. `Calendar` holds the conversions of
`JulianDay.hpp` as written, with division that rounds towards zero. The business day is an input of the request,
because a client may send the time (`Swirly-Time`).

### `RequestParser`

The automaton of `RestRequest.rl`, with the actions that Ragel runs on its transitions. Tokens are characters
where actions run on characters (digits, signs, strings, escapes) and whole words where the automaton only
compares them. `scratch` is the union of `num_` and `str_`: what a string finds there after a number is
`stale`. Numbers have widths (`Long`, `Int32`) and wrap. A step feeds one token, so a body may be split between any
two tokens: inside a number, a string or an escape, but not inside a key, `null` or an enumerator, which are one token
each. `reset` may come after any of them.

### `HttpServer` (and `RequestReply`)

| Model | Code |
|---|---|
| `Select`, `Accept`, `Read`, `ReadEnd`, `Write`, `Close`, `PollEnd` | `mg_mgr_poll` with `mg_accept_conn`, `mg_read_from_socket`, `mg_write_to_socket`, `mg_close_conn` |
| `Receive`, `MessageLen`, `Result` | `mg_http_handler` on `MG_EV_RECV`, `mg_parse_http`, `Mgr::httpRequest` |
| `Written` | `OStream::reset` and what follows, or the web server's own answer |
| `Throw`, by `ThrowRead` or `ThrowClose` | `bad_alloc` of `StreamBuf` (`RestServ.cpp:124`), outside the `try` of line 127 |
| `recv`, `send`, `flags`, `userData` | members of `mg_connection` |
| `Connect`, `SendHead`, `SendBody`, `Finish` | clients (external) |

The network delivers head and body of a request separately, a read takes any prefix of what is there, and
a write any prefix of the two pieces of an answer. Kinds of requests: with and without body, a body
without length, a page that the web server serves, and bytes that are no HTTP. Only as much of the embedded web server
is modelled as the daemon uses. `RequestReply` is the abstract specification: per client three
counters, of what was asked, performed and answered.

The send buffer of a connection is allocated with its first answer (`Unbuffered`). When there is no memory for it,
the exception leaves handler and poll in the middle of what was ready: the request has been read and stays in the
receive buffer, unanswered. What becomes of the daemon then is a matter of `Daemon`; `HttpServer` alone lets whoever polls
poll again (`PollThrows`).

### `Daemon`

Extends `HttpServer` with `main`: `loop` is where it is between the poll, the two statements that read and
reset `sig_`, the reaction, and the way out, on which `RestServ` is destroyed (`Leave` clears the user
data), `~Mgr` polls once more and frees every connection (`Free`). The exception of a poll is caught by `main`, which
leaves with status 1 (`LeaveByThrow`); one that is thrown by the last poll or by a close after it meets the `noexcept`
destructor and terminates the process (`Abort`). `starved` remembers that it was thrown. `Hangup` and `Terminate` are the signal
handler and may come at any step. `path` and `log` say which file the name stands for and which is written.

### Proof modules

`FoldProofs` (folds and sums over sequences and sets, sequences in a row, rounds of a loop), `BookSideProofs`, `ServProofs` (types, journal,
positions, book, orders, failed calls), `ServMatchProofs` (the matching loop and its closed form),
`RestServProofs` (registry and service), `RoutesProofs` (tokeniser and router), `RequestParserProofs`,
`DaemonProofs` (server and main loop); see section 5. `MC*` modules hold values of constants; `MCRoutes` also has the client that writes a
URI part by part.

## 3. Runs

| Run | Instance | Shows |
|---|---|---|
| `bookside` | 3 orders, 3 prices, up to 2 lots, both sides | levels, list and pointers stay in step; queues are first come, first served |
| `serv_undone` | 4 orders, 2 traders, 2 prices, up to 2 lots, expired market; `create`, `level`, `journal` throw | what createOrder undoes is undone: balanced orders, journal restores them, nothing left of failed calls, reserved capacity suffices, no assertion fails; seen between calls, it is the closed form of price-time matching |
| `serv_not_undone` | 4 orders, 2 traders, 2 prices of which one is zero, up to 2 lots; `match`, `posn`, `reserve` throw | positions are the sum of trades, trades are paired and journalled first, and every call ends, even when stale matches are committed and orders orphaned |
| `rest` | requests for every route with bodies of every kind, 2 names, 2 emails, 2 days; a model with up to two traders | accepted requests have what is documented, save for three calls that check less (`Unchecked`), and create what they say; refused ones leave markets, traders and index alone; the registry behind takes its own steps only |
| `routes` | every method on every URI of up to 5 parts below `/api`, lists and empty parts included | parts are found as they lie; served are the documented resources and the lists of `Undocumented`, nothing else; refusals say which it is |
| `parser` | a field of each kind, up to 10 tokens, in pieces, after any earlier body | what is accepted is a list of pairs and is understood as it; every list is accepted |
| `http` | 2 clients, one of which does not wait for its answers; 2 requests each, with and without body | handed on once and in order; answers whole and in order; request and reply; also when memory for a send buffer is missing |
| `daemon` | 1 client, 2 requests of all five kinds, signals at every step, one hangup, memory missing at any first answer | what signals do, answers, and every end of the daemon |
| `serv_stale_matches` | `match` throws | violation: matches stay behind (`Serv.cpp:369`) |
| `serv_orphan_order` | `reserve` throws | violation: order in the book and the journal, in no session (`Serv.cpp:414`) |
| `serv_aborts` | price zero, lots and minimum of -1 | violation: the assertions of `BookSide.cpp:30` and `:31` fail |
| `daemon_hangup` | hangups only | violation: a hangup is lost (`Main.cpp:243`) |

*Bounds.* `MaxOrders` bounds the orders accepted, `MaxLots` the lots of an order on a book side. Three
orders on a side give a first, a middle and a last order of a level and
three levels; a fourth adds no new neighbourhood, since an operation touches an order, its level and
the next level only. In the engine, two makers and a taker give a loop with two passes, a partial fill
of the last maker and a rest of the taker; a fourth order meets what they leave, stale matches included.
Two traders make every order meet its own trader or the other. Two prices cross, do not cross or
are equal. In `serv_not_undone` price zero makes placing abort, and with it what an abort leaves.

`MaxParts`: the deepest resource has four parts below `/api`, a fifth makes it wrong. Names and lists stand
for the cases that the router tells apart. `MaxTokens` = 10 is two pairs, or one number longer than the type of
5 bits, or one string longer than its buffer of 2. `MaxRequests` = 2: the second request of a connection meets what the
first left in both buffers and in the connection's flags; a third meets nothing else. `MaxHangups` = 1 is
enough to lose it.

*Symmetry.* Orders of `bookside` and traders of `serv_undone` are interchangeable: no action compares
them. It is not used for liveness.

*Deadlock* is checked where the system never stops (`bookside`, `serv_undone`, `rest`). It is switched off
where the model can run out of orders, requests or tokens, abort, or where the daemon stops.

*Fairness.* `FairSpec` of `Serv` has weak fairness of `Step`, the steps of a call that has begun: createOrder
runs in one thread and waits for nothing, so a call that can go on does. `HttpServer` and `Daemon` have weak fairness of the
server and of `main`, a loop that polls for ever with a timeout, and strong fairness of a poll
that finds a connection writable: a client that reads makes room again and again, and one that does not read is
a client that hung up as far as the daemon is concerned. No client is ever required to send or to finish, and
no signal to arrive. `RepeatedStopIsObeyed` asks for a signal again and again, because one alone may be lost.

## 4. What disagrees

Each violation run shows one disagreement between the code and what it says of itself:

* `Serv.cpp:370` means to clear the matches when the scope exits, but the finaliser is made after
  `matchOrders`.
* `doc/Style.md:41` promises all-or-nothing transactions; three calls that may throw lie between the
  journal write and the commit phase.
* The book asserts a price that is not zero and positive lots; no check on the way enforces it. In the default
  build, without assertions, such an order goes into the book.
* `doc/Admin.md:28` says that a hangup reopens the log; `main` reads `sig_` and resets it in two
  statements, and it holds one signal only.

Others were met while modelling. The models follow the code; no run states the other side:

* A second trader with an empty email is refused (`Serv.cpp:332`), `doc/RestApi.md:63` makes it optional. So
  `NewEmailIsUnused` speaks only of emails that are not empty.
* Lists with entities of the other side are served (`RestServ.cpp:196`), and a list that comes to one entity, like
  `market,market`, is taken for that entity with every method, where `doc/RestApi.md` has lists for `GET` only.
  `Undocumented` sets both apart in `ServedAsDocumented`.
* Three calls answer 200 without fields that `doc/RestApi.md` marks as required: `PUT` of a market without the display
  (`RestServ.cpp:340`, RestApi.md:46), `PUT` of an order without lots (`:537`, RestApi.md:107), `POST` of a trade
  without trader, side, lots and ticks (`:581`, RestApi.md:125-128). `Required` is the documentation's table;
  `Unchecked` names the three in `AcceptedHaveFields`.
* `PUT` of a trader ignores an email; `/api/rec` leaves the traders out (`RestServ.cpp:186`).
* `PUT` and `DELETE` of orders and `POST` of trades are not implemented and answer 200.
* A `POST` of an order may be answered with 500 although the order is in the book and the journal: the same exit that
  `serv_orphan_order` shows. `RefusedKeepsRegistry` is about markets, traders and their index only.
* A second request in one read waits until more is received (`mongoose.c:5213`); a client that sends both at
  once and waits gets one answer (hence `Patient` in `AnswersInOrder`). A request that was half received is handed on when the connection
  closes (`mongoose.c:5091`); `OnlyWholeRequestsTakeEffect` shows that it then has no effect: a part of a body is refused, and
  the three calls above, which accept an empty one, change nothing by it.
* `~Mgr` polls after the members of `RestServ` are destroyed (`Mongoose.hpp:91`): requests handed on by that
  poll do not find their server, which is why `ServerOutlivesLoop` speaks of the loop only.

## 5. Proofs

All theorems hold for every value of the constants that satisfies the named assumptions.

**Book side.** `PointersStayLive` and `BookStaysSorted` (`BookSideProofs`): whatever is done with any number of
orders, the pointers between list and levels lead where they should, and the list is in price order. Neither is
inductive. An insertion goes before the first order of the next level, so the list stays sorted
only if that pointer is to the first order of its price (`FirstLive`) and every price in the list has a level
(`Covered`). A removal takes the level along when its count is zero, and otherwise moves its pointer to the next
order in the list, which has the same price only because the count says that another one is there
(`Counted`, over the orders that point to the level) and the list is sorted. `LeastMember`, that a set of
numbers has a least one, is derived from the library's well-founded ordering of finite sets; it gives the
next level.

`LevelsAreSums` adds what a level says of its orders: count and residual are the sums over the
queue of its price. The queue of a price is the part of the list at that price (`AtKey`). A new order is put
behind all of its price, so its queue grows at the end; a removal closes the gap where the order stood; a
reduction changes one summand. The sums over sequences that this needs are proved in `FoldProofs`, by induction over the length
written out with the least counterexample, because the library's induction theorems cannot be used. `BookIsPriceTime`
(`Spec => ImplementsPriceTime`) maps each operation to a step of the abstract queues: placing is `Join`,
reducing `Shrink`, removing `Leave`.

**Engine.** `TypeCorrect` (`Spec => []TypeOK`): any traders, any
integer prices and lots, any fault points, any number of orders. `TypeOK` includes that `resting` and
every session refer only to orders that have not been freed, which is not inductive: a failing call
frees its order. The invariant adds `TakerFresh` (until the commit phase the call's order is in no session,
and until it is placed not in the book) and `MakersKnown` (a match's maker is a live order other
than the call's own, also when the match is a stale one). One lemma per phase shows each step.

`TradesArePaired` and `JournalIsFirst` build on it. A trade enters the journal as
half of a match, so `PairInv` adds that the two executions of every match mirror each other, stale
matches included, and that the execution written before them is not a trade. That an id is new
when it is written follows only from what is known while it waits in a match: `IdInv` adds
that ids grow from match to match, up to `maxExecId`, and that none of them is in the journal before
the batch is written; from there to the commit every trade of a match is in the journal.

`PositionsAreSums` holds for every set of failing points too. `PosnInv` says that sessions are finite sets, that the
trades of a match that is not committed are in no session, and that positions are sums. A sum over a
set does not depend on the order in which a fold takes its elements (`SumRemove` in `FoldProofs`, by induction
over the cardinality); with it, adding a new trade adds its lots and cost, and a trade is new because the ids of
`IdInv` tell it from all that are in the session.

`ServProofs` also proves the invariants of `serv_undone`. `ReservedIsEnough` holds of every specification. The others have
the hypotheses that they need, about the constants only, and the violation runs show that these cannot be left out:

| Hypothesis | Means | Without it |
|---|---|---|
| `MatchingIsSafe` | a match never throws (`match`) | `serv_stale_matches` |
| `FaultsAreUndone` | nor does what lies between journal and commit (`posn`, `reserve`) | `serv_orphan_order` |
| `OrdersAreSane` | no price is zero, lots and minimum are not negative | `serv_aborts` |
| `LotsAreNatural` | lots are not negative | an order of negative lots has a negative residual from the start |

The invariants rest one on the other:

* `NoStaleMatches`: only a call has matches. With it, `MatchInv`: the makers of the drafts rest in the book, and no two
  drafts have one maker, since the loop has walked past those it has drafted.
* `OrdersStayBalanced` (`BalanceInv`): what is left and what is done make up the lots. A draft takes at most what
  its maker has, all of them at most what the taker has, so the commit, which comes
  later and one match at a time, still finds it.
* `FailedCallsLeaveNothing` (`KnownInv`): book and journal have only orders of sessions, and from placing to commit the
  call's own; every failure in between takes it out again.
* `JournalIsEnough` (`RestoreInv`): executions are made and written before the orders change. The last execution
  of an order shows the order, or what it will be when the match that is written and not committed is (`Restorable`); that
  matches have different makers makes this one match.
* `ReservedIsEnough`: the response grows by what a commit adds, and the matches still to come fit into what is left.
* `AssertionsHold`: an order that is placed has lots and a price, a maker that trades has the lots that it gives.

`MatchingIsPriceTime` (`ServMatchProofs`, `Spec => ImplementsMatching`) is the refinement, under `FaultsAreUndone` and
`LotsAreNatural`: a call that is accepted is one `Submit` at its return, and every other step is a stutter. It takes four
steps.

* *The same order of makers.* Whom the closed form crosses is what the loop finds (`CrossingIs`), and who is ahead of a
  maker is what it has walked past when it comes there (`AheadIs`, `NextGives`).
* *The loop.* `WalkInv` says that the loop's sums are the totals of `Given` and `Paid` over the makers walked, and
  that the lots taken are the least of the order's lots and the residuals walked; `Drafted` says of each match that it holds
  what the closed form gives. So the loop ends exactly when its makers are those who give (`LoopServes`), whether it
  ended for lack of lots or of makers.
* *The commit*, one match at a time: accounts, positions and fills are those of the closed form after the makers in
  `Settled` (`AccountsSettled`, `PosnsSettled`, `FillsSettled`), which is why `PriceTimeMatching` has `AccountAfter`,
  `PosnAfter` and `FillsAfter` for any set of makers. A sum over a set that grows by one is `TotalGrows`.
* *The return.* With all matches settled, the state is what `Submit` leaves (`ReturnSubmits`).

The invariant, `MatchingInv`, was model-checked on the instance of `serv_undone` before it was proved.

**Registry and service.** `RegistrySafe` and `NewEmailUnused` (`RestServProofs`): the index finds exactly the
traders there are, days are in order, and a new trader's email, if it has one, is one that nobody has. `EmailIndexAgrees` is inductive
together with the type of the records; the step that matters is `createTrader`, where the index alone is
asked.

`ServiceIsRegistry` shows that every step of the service is a step of the registry or a stutter. The
invariant is the type of the shared request object; `HeardSays` says that after reset and parse its values are
those of the body or zeros, `HttpSteps` takes the routes apart, and `HttpRefines` maps each. So
`RegistrySafe` holds of the service (`ServiceSafe`), and with it `MarketsAreOrdered`. On the same lemmas rest `RefusalsAreClean`,
`AcceptedAreFilled` and `CreatedFromOwnBody`: what is refused changes nothing of the registry, what is accepted
had a body that was whole or absent, and, save for the calls of `Unchecked`, all the fields in it that the documentation
requires, and what is created is what that body says.

`DatesAreDays` is about `Calendar` alone: a date from 1 March of the year 0 on that is turned into a Julian day and
back is the same date. Days count on from month to month by (153 m + 2) / 5, from year to year with a leap day in every
fourth, and so on up to 400 years; each division is taken apart with its quotient and remainder, for unbounded
integers. `DatesAreReadBack` carries it to the markets of the service, given that the days that clients send
are dates (`DaysAreDates`).

**Connections.** `ServedInOrder` and `WholeRequestsOnly` (`DaemonProofs`): requests of a connection are handed on in the
order in which they were sent, once each and none passed over, and take effect only when all of them was sent.
The invariant `StreamInv` says that what is in the receive buffer and on the way, taken together, is what the client
sent from the request after the last one handed on: it begins with a head, each piece is followed by its
successor, and the last piece is the last that was sent. One lemma per action; reading splits into nothing whole, one piece
taken, two taken.

`AnswersAreInOrder` is about clients that wait. `AnswerInv` says that all they have received is right (`GotRight`), that
they lack the answer to their last request at most (`OneInDoubt`), and that while they listen the send buffer is exactly what
they still have to receive (`SendRight`). So it is empty when the next request is performed, and emptying it loses nothing.
`ServerKeepsPromise` (`Spec => ImplementsRequestReply`) follows step by step: sending a head is `Ask`, reading a whole
request `Perform`, writing the last piece of an answer `Answer`, closing `Disconnect`.

**Main loop.** `NoHangupTwice` needs that each hangup is counted at most once in `sig_`, `taken` and `reopened`
together (`HangupsCounted`); `NoStopUntold` that a signal to stop in either variable was told (`StopsAsked`): with that and the count of hangups, a
daemon that leaves has been told to, could not open its log again after a hangup, or met `Throw` (`starved`). `ServerIsThere`
needs that while the loop runs every open connection and the listener have their user data (`ServerBehind`).

`DaemonTakesWholeRequests`, `DaemonServesInOrder` and `DaemonAnswersInOrder` prove the properties of the server again,
of the daemon: `DaemonSteps` says that each step of the daemon is one of the server, or what only the
end of the loop does, forgetting the `RestServ`, closing a connection that is not flagged, dropping those that were not
accepted. `TodoOK` makes the second harmless: outside of the poll's handling no socket waits for its turn.
`DaemonTypes` is the type invariant of all of it.

**Tokeniser and router.** `TextIsSplit` (`RoutesProofs`): the loop that pops a tokeniser sees the parts of any text over any
alphabet. `Tokens` is the loop written as a recursive function of the number of rounds. That such a function
satisfies its own equation is not free: `RoundsExist` (`FoldProofs`) derives it from the existence of its restrictions to
0..n, by least counterexample. Then, round by round, the loop stands behind the last delimiter it has passed and has
seen the parts before it (`RoundProgress`), with `PartBetween` for what lies between two delimiters.

`TokensAreRight` is the same of every URI that a client writes. The invariant, `TypeInv` and `PathInv`, says that the
parts of the URI are `api` and then the parts that were written, that there are as many slashes, and that the last
one ends it just when the last part is empty; it was model-checked on the instance of `routes` first. The step is
`PartsOfLonger`: text behind a new delimiter is one more part and leaves the earlier ones alone.

`RefusalsAreTrue` follows resource by resource from the shape of the nested matching: each
`...Tells` lemma shows that a resource refuses a method only where it has another. `DocumentedIsServed` compares
that matching with the flat list of documented resources, over a form between the two: `Accepted` says what the code
serves in terms of what the second part lists. Each `...Serves` lemma says what one branch serves, and
`ServesAccepted` puts them together; `AcceptedIsKnown` then shows that what is accepted is documented or undocumented and
nothing else: a part without a comma is one word (`NoCommaIsWord`), and with one it is a documented list or set apart. Both
theorems hold for any number of parts, any names and lists that satisfy `PartsAssumption`: they are made of words and
commas, and a list has just one word between commas. That parsing it finds each word as a token of its own
(`ListingIsParsed`) is `TextIsSplit` again, with the comma as delimiter.

**Request parser.** `ValuesFit` (`RequestParserProofs`) holds of any list of fields, lengths of strings and
widths of numbers: the parser never writes past a string and leaves every value within its type. `scratch`, the union of
`num_` and `str_`, makes this more than a look at one action: `addChar` compares and writes what `str_` points to.
`ScratchOK` says that a state inside a string finds there the very field that it is a state of, and one inside a
number a sign and digits. The rest is the wrap-around of `Signed` and `Unsigned`; `PowersAssumption` states
what it takes of powers of two, as the provers know nothing of them, and that an int has no more bits than a long.
TLC evaluates it for the widths of `parser`.

`CompleteBodies` is that a complete body is a list of pairs and is kept as what that list says, for bodies of any
length. The invariant, `ReadInv`, reads the text backwards from the state: without its spaces it is the text of
a list of pairs, then a key, then the beginning of a value (`TextSoFar`, `ValueSoFar`), `fields` and `val` are what
the list says (`IsSaid`), and within a value `val` and `scratch` hold what its beginning stands for. For a
number that is congruence modulo 2^`Long` only, because `addDigit` wraps; `StoredCongruent` and the ranges of
the types make of it the one number that `Meaning` chooses. `Transitions` lists the steps of the automaton, and one
lemma for each (`StructureReads`, `BeginReads`, `DigitReads`, `StringReads`, `EndReads`) shows the invariant kept. The
definitions of what bodies mean are folds and a function that recurs over lengths; that they satisfy their own
equations (`FoldOfMore`, `ListsAre`, and `FlattenOfMore` in `FoldProofs`) is proved first.

`PairsAccepted` is the converse: what a body begins with is never refused, and the whole of it is complete. `AcceptInv`
says that every text that completes what was fed to a body can be read from the present state (`CanRead`), which tells
for each state what may be left: pairs, the rest of a value, as many characters as the string still has room for, digits
of a number that is no negative state. A space between the digits of one number would end the number, so `CanRead`
remembers that the last digit is followed by spaces (`IsCut`), and `NumbersWhole` excludes a digit there. The lemmas
`...Next` take the first token off each form of text, `KeptAccepts` and `SkippedAccepts` follow the automaton.

What stays with TLC: liveness (`CallsEnd`, `WaitingClientIsAnswered`, `RepeatedStopIsObeyed`). Every invariant that a
run checks is stated by a theorem.

## 6. Not modelled

* Most of `contrib/mongoose.c` and `mongoose.h`, 13000 lines of third-party code. CGI, CoAP, WebDAV, DNS, digest
  authentication, websockets, JSON-RPC, MQTT and server-side includes are compiled out
  (`src/swirlyd/CMakeLists.txt:10`); the JSON and hash functions are never called. Two parts that are
  reachable are left out: chunked request bodies (`mg_handle_chunked`), and the pieces in which a large file is
  sent (`mg_http_transfer_file_data`): a page is one answer here. As this is more than half of the lines of the
  repository, models of everything else cover a small share of all.
* Headers of types, conversions, exceptions and enumerations (`ash/`, `elm/`): declarations without control.
* JSON output, formatting, logging, statistics and the test library.
* Reference counts (`RefCounted`) and the index of orders by reference (`OrderRefSet`), which is written and never
  read in this version; a hazard names the index.
* Revision, cancellation, archiving, settlement and end of day of the engine: empty functions. `minLots` is
  checked and stored, and nothing in the code enforces it when matching, so nothing does here.
* Several markets in one engine: they share `Impl::matches` only, and what that does with stale matches is shown
  on one market.
* Costs and ids are unbounded integers in `Serv`; overflow of `lots * ticks` is listed as a hazard.
* Memory that runs out below the answer: `mbuf_append` fails silently, so that an answer is cut off (`StreamBuf::xsputn`)
  or bytes that were received are lost; a read that finds no buffer (`mongoose.c:3301`) is
  tried again by the next poll. The one
  allocation that throws, for the send buffer, is modelled; in `Serv`, `Registry` and `RestServ` those of the engine are.
* What a build without assertions does after one that would have failed.
* Options, becoming a daemon and opening the port, before the loop of `main`.
