---------------------------- MODULE MarketCapture ----------------------------
(***************************************************************************)
(* What a VerifiedMarketIdentity is used for: MarketStream subscribes by   *)
(* it, and CaptureBoundary.capture_market issues immutable facts under it. *)
(* Composed with the Ingress Boundary that issues the identities.          *)
(*                                                                         *)
(* External: the subscriptions of the SDK, and the messages the provider   *)
(* sends; the caller may pair any message with any identity object it has. *)
(* An identity does not expire: the code sets no limit to its use after    *)
(* its window has closed.                                                  *)
(***************************************************************************)
EXTENDS MarketIdentity

CONSTANT MaxUses         \* bound on streams opened and facts issued

ASSUME CaptureAssumption == MaxUses \in Nat

VARIABLES subscriptions, \* streams opened: which family, and for which ticker
          facts          \* CaptureFacts issued

marketVars == <<subscriptions, facts>>
vars == <<identityVars, marketVars>>

(* The subscription family of each stream.                                 *)
Family == [orderbook |-> "orderbook_delta", ticker |-> "ticker",
           trades |-> "trade", lifecycle |-> "market_lifecycle_v2"]
Streams == DOMAIN Family

(* What capture_market expects of a kind and records for it.               *)
Captured ==
    [snapshot  |-> [channel |-> "orderbook_delta", type |-> "orderbook_snapshot"],
     delta     |-> [channel |-> "orderbook_delta", type |-> "orderbook_delta"],
     ticker    |-> [channel |-> "ticker", type |-> "ticker"],
     trade     |-> [channel |-> "trade", type |-> "trade"],
     lifecycle |-> [channel |-> "market_lifecycle_v2", type |-> "market_lifecycle_v2"],
     fee       |-> [channel |-> "market_lifecycle_v2", type |-> "event_fee_update"]]
Kinds == DOMAIN Captured

(* A message is of an exact SDK type or of another one ("other"), carries  *)
(* that type's discriminator or not, and is about a market.                *)
Message == [kind : Kinds \cup {"other"}, genuine : BOOLEAN, market : Markets]

Fact == [asset : Assets, source : {m.ticker : m \in Markets}, channel : STRING,
         type : STRING, message : Message]

TypeOK ==
    /\ IdentityTypeOK
    /\ subscriptions \subseteq [channel : STRING, ticker : {m.ticker : m \in Markets}]
    /\ facts \subseteq Fact

Init == IdentityInit /\ subscriptions = {} /\ facts = {}

-----------------------------------------------------------------------------
(* The holders of identities (external): copy.copy or dataclasses.replace  *)
(* of one, or a constructor call; the token is copied or made up.          *)
CopyIdentity == \E o \in Objects, a \in Assets, m \in Markets :
    /\ o = made + 1
    /\ made' = o
    /\ \E t \in {objects[p].token : p \in {p \in Objects : objects[p] # None}} \cup {None} :
          objects' = [objects EXCEPT ![o] =
             [token |-> t, asset |-> a, ticker |-> m.ticker, event |-> m.event]]
    /\ UNCHANGED <<registry, issued, listed, changes, callVars, marketVars>>

(* MarketStream.<stream>: provenance is required before the socket is      *)
(* asked, which may fail; an identity whose capability is gone raises.     *)
Subscribe(o, stream) ==
    /\ objects[o] # None
    /\ HasVerifiedProvenance(o)
    /\ Cardinality(subscriptions) + Cardinality(facts) < MaxUses
    /\ subscriptions' = subscriptions \cup {[channel |-> Family[stream],
                                             ticker |-> objects[o].ticker]}
    /\ UNCHANGED <<identityVars, facts>>

(* A fee update is for every market of its event, any other message for    *)
(* one market.                                                             *)
TickerUnchecked(o, m) ==                                      \* mutant
    m.kind = "fee" => m.market.event = objects[o].event
Concerns(o, m) ==
    IF m.kind = "fee" THEN m.market.event = objects[o].event
    ELSE m.market.ticker = objects[o].ticker

CaptureOutcome(o, m) ==
    IF ~HasVerifiedProvenance(o) THEN "authority"
    ELSE IF m.kind \notin Kinds THEN "unsupported"
    ELSE IF ~m.genuine \/ ~Concerns(o, m) THEN "incompatible"
    ELSE "fact"

(* capture_market; every other outcome is an error and issues nothing.     *)
CaptureMarket(o, m) ==
    /\ objects[o] # None
    /\ CaptureOutcome(o, m) = "fact"
    /\ Cardinality(subscriptions) + Cardinality(facts) < MaxUses
    /\ facts' = facts \cup
          {[asset |-> objects[o].asset, source |-> objects[o].ticker,
            channel |-> Captured[m.kind].channel, type |-> Captured[m.kind].type,
            message |-> m]}
    /\ UNCHANGED <<identityVars, subscriptions>>

Next ==
    \/ IdentityNext /\ UNCHANGED marketVars
    \/ CopyIdentity
    \/ \E o \in Objects :
          \/ \E stream \in Streams : Subscribe(o, stream)
          \/ \E m \in Message : CaptureMarket(o, m)

Spec == Init /\ [][Next]_vars

-----------------------------------------------------------------------------
(* Only a ticker some verification found is ever subscribed, and a fact is *)
(* filed under an asset and a ticker that were verified together: neither  *)
(* a copy with another ticker or asset, nor an identity whose original is  *)
(* gone, nor a constructed one opens a stream or issues a fact             *)
(* (composition.py:59-65, boundary.py:237-246).                            *)
UsesWereVerified ==
    /\ \A s \in subscriptions : \E i \in issued : i.market.ticker = s.ticker
    /\ \A f \in facts : \E i \in issued :
          i.asset = f.asset /\ i.market.ticker = f.source

(* A fact is about the market its message was about, and never another     *)
(* asset's: a message of the next window, of a rival market or of another  *)
(* series cannot be captured under this identity (boundary.py:144, 255).   *)
FactsNameTheirMarket ==
    \A f \in facts :
        /\ f.message.market.series = SeriesOf[f.asset]
        /\ f.message.kind # "fee" => f.message.market.ticker = f.source
=============================================================================
