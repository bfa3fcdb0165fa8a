---------------------------- MODULE MarketIdentity ----------------------------
(***************************************************************************)
(* The Ingress Boundary: MarketIdentityResolver.resolve over the official  *)
(* listing, and the provenance of the VerifiedMarketIdentity objects the   *)
(* verifier issues.                                                        *)
(*                                                                         *)
(* External, as the code uses it: the provider's listing of markets, which *)
(* changes at any time, and the SDK's list_all, an iterable that fetches   *)
(* the matching markets page by page: a page shows the listing of its own  *)
(* moment, and no market is delivered twice.                               *)
(*                                                                         *)
(* Times are natural numbers; a window is Quarter long and starts at a     *)
(* multiple of Quarter.  A token is named by the object it was issued to;  *)
(* object names are never used again.  An object's window and strike are   *)
(* left out, since nothing reads them once it is issued, and so is the     *)
(* shadow comparison with a constructed ticker: it is observed, not used.  *)
(***************************************************************************)
EXTENDS Naturals, FiniteSets

CONSTANTS Assets,        \* the approved asset ids
          SeriesOf,      \* the approved series of each asset
          Markets,       \* the official markets there may ever be
          Missing,       \* an empty ticker or event
          Quarter,
          Requests,      \* the asset ids and instants resolve is asked for
          Listings,      \* what may be listed at the start
          Resolvers,
          MaxObjects,    \* bound on identity objects
          MaxChanges,    \* bound on changes of the listing
          None

Objects == 1..MaxObjects

(* The approved scope is a bijection; a ticker names one market, whose     *)
(* strike may be published later, and an event is of one series.           *)
ASSUME ScopeAssumption ==
    /\ Quarter \in Nat \ {0} /\ MaxObjects \in Nat /\ MaxChanges \in Nat
    /\ None \notin Objects
    /\ IsFiniteSet(Markets) /\ Listings \subseteq SUBSET Markets
    /\ DOMAIN SeriesOf = Assets
    /\ \A a, b \in Assets : SeriesOf[a] = SeriesOf[b] => a = b

ASSUME TickersNameOneMarket ==
    \A m, n \in Markets :
        /\ m.ticker = n.ticker /\ m.ticker # Missing =>
              /\ m.event = n.event /\ m.series = n.series
              /\ m.open = n.open /\ m.close = n.close
        /\ m.event = n.event /\ m.event # Missing => m.series = n.series

VARIABLES listed,        \* the official listing
          changes,       \* number of its changes so far
          objects,       \* the identity objects the process refers to
          made,          \* number of objects made so far
          registry,      \* _VERIFIED_MARKET_IDENTITIES
          pc, request, pages, fetched, result,
          ever,          \* history: markets listed at some moment of a call
          throughout,    \* history: markets listed all through a call
          issued         \* history: what each identity was issued from

callVars == <<pc, request, pages, fetched, result, ever, throughout>>
objectVars == <<objects, made, registry, issued>>
identityVars == <<listed, changes, objectVars, callVars>>

-----------------------------------------------------------------------------
(* Windows.                                                                *)
Window(t) == [open |-> t, close |-> t + Quarter]
Current(t) == Window(t - (t % Quarter))
NextWindow(w) == Window(w.close)

AskedWindows == {Current(q.at) : q \in Requests}
                    \cup {NextWindow(Current(q.at)) : q \in Requests}

(* The provider's answer to discover_markets: the series, and a closing    *)
(* time within a quarter of the window's.                                  *)
Matching(a, w) ==
    {m \in Markets : /\ m.series = SeriesOf[a]
                     /\ m.close \in w.close - Quarter .. w.close + Quarter}

Exact(a, w) == {m \in Matching(a, w) : m.open = w.open /\ m.close = w.close}

FirstMatchWins(a, w, found) ==                                \* mutant
    IF found \cap Exact(a, w) = {} THEN "no_match" ELSE "verified"
EnvelopeIsExact(a, w, found) ==                               \* mutant
    IF found = {} THEN "no_match"
    ELSE IF Cardinality(found) # 1 THEN "ambiguous" ELSE "verified"
Verification(a, w, found) ==
    LET exact == found \cap Exact(a, w)
    IN  IF exact = {} THEN "no_match"
        ELSE IF Cardinality(exact) # 1 THEN "ambiguous"
        ELSE IF \E m \in exact : m.ticker = Missing \/ m.event = Missing \/ ~m.usable
             THEN "invalid"
        ELSE "verified"

NoResult == [status |-> "none", object |-> None]

-----------------------------------------------------------------------------
Statuses == {"none", "unavailable", "verified", "no_match", "ambiguous", "invalid"}

Identity == [token : Objects \cup {None}, asset : Assets,
             ticker : {m.ticker : m \in Markets}, event : {m.event : m \in Markets}]

Issue == [object : Objects, asset : Assets, window : AskedWindows, market : Markets,
          ever : SUBSET Markets, throughout : SUBSET Markets]

IdentityTypeOK ==
    /\ listed \subseteq Markets
    /\ changes \in 0..MaxChanges
    /\ objects \in [Objects -> Identity \cup {None}]
    /\ made \in 0..MaxObjects
    /\ registry \subseteq [token : Objects, identity : Objects]
    /\ pc \in [Resolvers -> {"idle", "fetch"}]
    /\ request \in [Resolvers -> [asset : Assets, window : AskedWindows] \cup {None}]
    /\ pages \in [Resolvers -> SUBSET Markets]
    /\ fetched \in [Resolvers -> SUBSET Markets]
    /\ result \in [Resolvers -> [status : Statuses, object : Objects \cup {None}]]
    /\ ever \in [Resolvers -> SUBSET Markets]
    /\ throughout \in [Resolvers -> SUBSET Markets]
    /\ issued \subseteq Issue

IdentityInit ==
    /\ listed \in Listings
    /\ changes = 0
    /\ objects = [o \in Objects |-> None] /\ made = 0 /\ registry = {}
    /\ pc = [r \in Resolvers |-> "idle"]
    /\ request = [r \in Resolvers |-> None]
    /\ pages = [r \in Resolvers |-> {}]
    /\ fetched = [r \in Resolvers |-> {}]
    /\ result = [r \in Resolvers |-> NoResult]
    /\ ever = [r \in Resolvers |-> {}]
    /\ throughout = [r \in Resolvers |-> {}]
    /\ issued = {}

-----------------------------------------------------------------------------
(* resolve                                                                 *)
Answer(r, status, object) ==
    /\ pc' = [pc EXCEPT ![r] = "idle"]
    /\ pages' = [pages EXCEPT ![r] = {}]
    /\ fetched' = [fetched EXCEPT ![r] = {}]
    /\ result' = [result EXCEPT ![r] = [status |-> status, object |-> object]]

Resolve(r) == \E q \in Requests :
    /\ pc[r] = "idle"
    /\ IF q.asset \notin Assets
       THEN /\ Answer(r, "invalid", None)
            /\ UNCHANGED <<request, ever, throughout>>
       ELSE \E w \in {Current(q.at), NextWindow(Current(q.at))} :
            /\ pc' = [pc EXCEPT ![r] = "fetch"]
            /\ request' = [request EXCEPT ![r] = [asset |-> q.asset, window |-> w]]
            /\ pages' = [pages EXCEPT ![r] = Matching(q.asset, w)]
            /\ fetched' = [fetched EXCEPT ![r] = {}]
            /\ result' = [result EXCEPT ![r] = NoResult]
            /\ ever' = [ever EXCEPT ![r] = listed]
            /\ throughout' = [throughout EXCEPT ![r] = listed]
    /\ UNCHANGED <<listed, changes, objectVars>>

(* One page of the SDK's iterable: it passes some of the matching markets, *)
(* listed or not.                                                          *)
FetchPage(r) == \E page \in SUBSET pages[r] :
    /\ pc[r] = "fetch"
    /\ page # {}
    /\ pages' = [pages EXCEPT ![r] = @ \ page]
    /\ fetched' = [fetched EXCEPT ![r] = @ \cup (page \cap listed)]
    /\ UNCHANGED <<listed, changes, objectVars, pc, request, result, ever, throughout>>

(* The provider fails: discover raises, resolve answers nothing.           *)
FetchFails(r) ==
    /\ pc[r] = "fetch"
    /\ Answer(r, "unavailable", None)
    /\ UNCHANGED <<listed, changes, objectVars, request, ever, throughout>>

(* _issue_verified_market_identity: a fresh token, and a weak entry from   *)
(* the token to this very object.                                          *)
IssueIdentity(r, o, m) ==
    /\ o = made + 1
    /\ made' = o
    /\ objects' = [objects EXCEPT ![o] =
          [token |-> o, asset |-> request[r].asset, ticker |-> m.ticker,
           event |-> m.event]]
    /\ registry' = registry \cup {[token |-> o, identity |-> o]}
    /\ issued' = issued \cup
          {[object |-> o, asset |-> request[r].asset, window |-> request[r].window,
            market |-> m, ever |-> ever[r], throughout |-> throughout[r]]}

(* Every page is in: verify the fetched markets.                           *)
Verify(r) ==
    /\ pc[r] = "fetch"
    /\ pages[r] = {}
    /\ LET a == request[r].asset
           w == request[r].window
           status == Verification(a, w, fetched[r])
       IN  \/ /\ status = "verified"
              /\ \E m \in fetched[r] \cap Exact(a, w), o \in Objects :
                    /\ IssueIdentity(r, o, m)
                    /\ Answer(r, status, o)
           \/ /\ status # "verified"
              /\ Answer(r, status, None)
              /\ UNCHANGED objectVars
    /\ UNCHANGED <<listed, changes, request, ever, throughout>>

-----------------------------------------------------------------------------
(* The last reference goes: the weak entry goes with it.                   *)
DropIdentity(o) ==
    /\ objects[o] # None
    /\ objects' = [objects EXCEPT ![o] = None]
    /\ registry' = {e \in registry : e.identity # o}
    /\ result' = [r \in Resolvers |->
                     IF result[r].object = o THEN NoResult ELSE result[r]]
    /\ UNCHANGED <<made, issued, listed, changes, pc, request, pages, fetched,
                   ever, throughout>>

(* The provider lists, delists or replaces a market.                       *)
ChangeListing == \E m \in Markets :
    /\ changes < MaxChanges
    /\ changes' = changes + 1
    /\ listed' = IF m \in listed THEN listed \ {m}
                 ELSE {n \in listed : n.ticker # m.ticker} \cup {m}
    /\ ever' = [r \in Resolvers |->
                   IF pc[r] = "fetch" THEN ever[r] \cup listed' ELSE ever[r]]
    /\ throughout' = [r \in Resolvers |->
                   IF pc[r] = "fetch" THEN throughout[r] \cap listed' ELSE throughout[r]]
    /\ UNCHANGED <<objectVars, pc, request, pages, fetched, result>>

IdentityNext ==
    \/ \E r \in Resolvers : Resolve(r) \/ FetchPage(r) \/ FetchFails(r) \/ Verify(r)
    \/ \E o \in Objects : DropIdentity(o)
    \/ ChangeListing

IdentitySpec == IdentityInit /\ [][IdentityNext]_identityVars

-----------------------------------------------------------------------------
(* has_verified_provenance: the registry's entry for the token is this     *)
(* object itself.                                                          *)
TokenIsKnown(o) ==                                            \* mutant
    \E e \in registry : e.token = objects[o].token
HasVerifiedProvenance(o) ==
    [token |-> objects[o].token, identity |-> o] \in registry

(* An identity was issued from a market that the provider did list for     *)
(* exactly its window while resolve ran, and no second such market stayed  *)
(* listed all the while: pages read at different moments do not make an    *)
(* ambiguous window look certain (verification.py:30, discovery.py:26).    *)
IssuedFromTheOnlyMarket ==
    \A i \in issued :
        /\ i.market \in Exact(i.asset, i.window) \cap i.ever
        /\ i.market.usable /\ Missing \notin {i.market.ticker, i.market.event}
        /\ Exact(i.asset, i.window) \cap i.throughout \subseteq {i.market}

(* A refusal is about the listing, not about when the pages were read: no  *)
(* official market means none was there all along, ambiguity means two     *)
(* were listed at some moment of the call (verification.py:37-44).         *)
RefusalsReflectTheListing ==
    \A r \in Resolvers :
        pc[r] = "idle" /\ request[r] # None =>
            LET exact == Exact(request[r].asset, request[r].window)
            IN  /\ result[r].status = "no_match" => exact \cap throughout[r] = {}
                /\ result[r].status = "ambiguous" =>
                      Cardinality(exact \cap ever[r]) >= 2
=============================================================================
