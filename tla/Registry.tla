------------------------------ MODULE Registry ------------------------------
(***************************************************************************)
(* The registry of Serv (Serv.cpp, TraderSessSet.hpp): the markets and the   *)
(* traders by mnemonic, and the index of the traders by email.  Records are  *)
(* loaded when the server starts, and clients create and update them.       *)
(*                                                                          *)
(* Days are Julian days and 0 is no day.  The business day of a call is an   *)
(* argument: a client may send the time with its request.                   *)
(***************************************************************************)
EXTENDS Integers

CONSTANTS
  Mnems,        \* mnemonics that clients use
  WellFormed,   \* those that match mnemPattern
  Contrs,       \* contracts, which are only ever loaded
  AnyContrs,    \* names of contracts that clients use
  Displays,
  Emails,       \* NoEmail is one of them
  NoEmail,      \* the empty string
  States,       \* MarketState
  Days,         \* Julian days that clients use, 0 included
  BusDays       \* business days on which calls are made

ASSUME RegistryAssumption ==
  /\ WellFormed \subseteq Mnems /\ Contrs \subseteq AnyContrs
  /\ NoEmail \in Emails
  /\ Days \subseteq Nat /\ 0 \in Days
  /\ BusDays \subseteq Nat \ {0}

VARIABLES
  markets,    \* MarketSet: mnemonic -> market
  traders,    \* TraderSet: mnemonic -> trader
  emailIdx,   \* TraderSessSet: email -> mnemonic of the trader that it finds
  last        \* the last call and what became of it

vars == <<markets, traders, emailIdx, last>>

Errors == {"NotFound", "Invalid", "AlreadyExists", "bad_alloc"}
Outcomes == {"ok"} \cup Errors
Calls == {"createMarket", "updateMarket", "createTrader", "updateTrader"}

Market == [contr : Contrs, settlDay : Days, expiryDay : Days,
           display : Displays, state : States]
Trader == [display : Displays, email : Emails]

\* Market::Market asserts the first of these.
DaysOrdered(mkt) ==
  /\ mkt.settlDay = 0 <=> mkt.expiryDay = 0
  /\ mkt.expiryDay <= mkt.settlDay

EmailsOf(f) == {f[t].email : t \in DOMAIN f}

\* Add one record to those of f.
With(f, k, v) == [x \in DOMAIN f \cup {k} |-> IF x = k THEN v ELSE f[x]]

Partial(S, T) == UNION {[D -> T] : D \in SUBSET S}

----------------------------------------------------------------------------
(* Serv::Serv: all loaded traders are offered to the index in the order of   *)
(* their mnemonics; a second one with the same email is not inserted.  Which *)
(* mnemonic comes first is left open.                                       *)

Init ==
  /\ markets \in {f \in Partial(WellFormed, Market) :
                    \A m \in DOMAIN f : DaysOrdered(f[m])}
  /\ traders \in Partial(WellFormed, Trader)
  /\ emailIdx \in {f \in [EmailsOf(traders) -> DOMAIN traders] :
                     \A e \in DOMAIN f : traders[f[e]].email = e}
  /\ last = [call |-> "load", outcome |-> "ok"]

Refuse(call, error) ==
  /\ last' = [call |-> call, outcome |-> error]
  /\ UNCHANGED <<markets, traders, emailIdx>>

Done(call) == last' = [call |-> call, outcome |-> "ok"]

\* A plausible slip: without an expiry day the days are not looked at.
MutDaysAllowed(settlDay, expiryDay, busDay) ==
  expiryDay # 0 => expiryDay <= settlDay /\ busDay <= expiryDay

\* createMarket: busDay <= expiryDay <= settlDay, or neither of the two.
DaysAllowed(settlDay, expiryDay, busDay) ==
  IF settlDay = 0 THEN expiryDay = 0
  ELSE expiryDay <= settlDay /\ busDay <= expiryDay

\* The checks of createMarket in their order; the mnemonic is the last of them.
CreateMarketCheck(m, contr, settlDay, expiryDay, busDay) ==
  IF contr \notin Contrs THEN "NotFound"
  ELSE IF ~DaysAllowed(settlDay, expiryDay, busDay) THEN "Invalid"
  ELSE IF m \in DOMAIN markets THEN "AlreadyExists"
  ELSE IF m \notin WellFormed THEN "Invalid"
  ELSE "ok"

CreateMarket(m, display, contr, settlDay, expiryDay, state, busDay) ==
  LET check == CreateMarketCheck(m, contr, settlDay, expiryDay, busDay) IN
  \/ check \in Errors /\ Refuse("createMarket", check)
  \/ check = "ok" /\ Refuse("createMarket", "bad_alloc")
  \/ /\ check = "ok"
     /\ markets' = With(markets, m,
          [contr |-> contr, settlDay |-> settlDay, expiryDay |-> expiryDay,
           display |-> display, state |-> state])
     /\ Done("createMarket")
     /\ UNCHANGED <<traders, emailIdx>>

\* updateMarket: displays and states are sets of at most one value, the
\* optional arguments.
UpdateMarket(m, displays, states) ==
  \/ m \notin DOMAIN markets /\ Refuse("updateMarket", "NotFound")
  \/ /\ m \in DOMAIN markets
     /\ \E display \in IF displays = {} THEN {markets[m].display} ELSE displays,
           state \in IF states = {} THEN {markets[m].state} ELSE states :
          markets' = [markets EXCEPT ![m].display = display, ![m].state = state]
     /\ Done("updateMarket")
     /\ UNCHANGED <<traders, emailIdx>>

\* A plausible slip: only traders are looked at, by their mnemonic.
MutCreateTraderCheck(m, email) ==
  IF m \in DOMAIN traders THEN "AlreadyExists"
  ELSE IF m \notin WellFormed THEN "Invalid"
  ELSE "ok"

CreateTraderCheck(m, email) ==
  IF m \in DOMAIN traders THEN "AlreadyExists"
  ELSE IF email \in DOMAIN emailIdx THEN "AlreadyExists"
  ELSE IF m \notin WellFormed THEN "Invalid"
  ELSE "ok"

\* A plausible slip: the trader is not put into the index.
MutCreateTrader(m, display, email) ==
  LET check == CreateTraderCheck(m, email)
      trader == [display |-> display, email |-> email] IN
  \/ check \in Errors /\ Refuse("createTrader", check)
  \/ /\ check = "ok"
     /\ traders' = With(traders, m, trader)
     /\ Done("createTrader")
     /\ UNCHANGED <<markets, emailIdx>>

\* A plausible slip: the trader is inserted before its email is looked up.
MutCreateTraderEarly(m, display, email) ==
  LET check == CreateTraderCheck(m, email)
      trader == [display |-> display, email |-> email]
      used == email \in DOMAIN emailIdx IN
  \/ check \in Errors /\ (m \in DOMAIN traders \/ ~used) /\ Refuse("createTrader", check)
  \/ /\ m \in WellFormed \ DOMAIN traders
     /\ traders' = With(traders, m, trader)
     /\ emailIdx' = IF used THEN emailIdx ELSE With(emailIdx, email, m)
     /\ last' = [call |-> "createTrader", outcome |-> check]
     /\ UNCHANGED markets

\* The containers are intrusive: only the trader itself is allocated, before it is
\* put into the first of them.
CreateTrader(m, display, email) ==
  LET check == CreateTraderCheck(m, email)
      trader == [display |-> display, email |-> email] IN
  \/ check \in Errors /\ Refuse("createTrader", check)
  \/ check = "ok" /\ Refuse("createTrader", "bad_alloc")
  \/ /\ check = "ok"
     /\ traders' = With(traders, m, trader)
     /\ emailIdx' = With(emailIdx, email, m)
     /\ Done("createTrader")
     /\ UNCHANGED markets

UpdateTrader(m, display) ==
  \/ m \notin DOMAIN traders /\ Refuse("updateTrader", "NotFound")
  \/ /\ m \in DOMAIN traders
     /\ traders' = [traders EXCEPT ![m].display = display]
     /\ Done("updateTrader")
     /\ UNCHANGED <<markets, emailIdx>>

Optional(S) == {{}} \cup {{x} : x \in S}

Next ==
  \E m \in Mnems :
    \/ \E display \in Displays, contr \in AnyContrs, settlDay, expiryDay \in Days,
          state \in States, busDay \in BusDays :
         CreateMarket(m, display, contr, settlDay, expiryDay, state, busDay)
    \/ \E displays \in Optional(Displays), states \in Optional(States) :
         UpdateMarket(m, displays, states)
    \/ \E display \in Displays, email \in Emails : CreateTrader(m, display, email)
    \/ \E display \in Displays : UpdateTrader(m, display)

Spec == Init /\ [][Next]_vars

----------------------------------------------------------------------------
(* Properties.                                                             *)

\* Types of the state.
TypeOK ==
  /\ markets \in Partial(WellFormed, Market)
  /\ traders \in Partial(WellFormed, Trader)
  /\ emailIdx \in Partial(Emails, DOMAIN traders)
  /\ last.call \in Calls \cup {"load"} /\ last.outcome \in Outcomes

\* findTraderByEmail: an email finds a trader exactly when some trader has it,
\* and the trader it finds has it.  Server start, creation and update touch the
\* traders and the index in two steps.
EmailIndexAgrees ==
  /\ DOMAIN emailIdx = EmailsOf(traders)
  /\ \A e \in DOMAIN emailIdx :
       emailIdx[e] \in DOMAIN traders /\ traders[emailIdx[e]].email = e

\* What the constructor of Market asserts, and the order of the two days, hold
\* of every market at all times, whatever time its creator gave.
MarketDaysOrdered == \A m \in DOMAIN markets : DaysOrdered(markets[m])

\* No trader is ever created with the email of another, also when the loaded
\* traders share one and the index knows only one of them.  The code refuses a
\* second trader without an email, too; the property does not ask for it.
NewEmailIsUnused ==
  [][\A t \in DOMAIN traders' \ DOMAIN traders :
       traders'[t].email # NoEmail => traders'[t].email \notin EmailsOf(traders)]_vars

=============================================================================
