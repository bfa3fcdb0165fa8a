------------------------- MODULE MarketCaptureProofs -------------------------
(***************************************************************************)
(* Proofs about MarketCapture for every scope, listing, set of requests    *)
(* and resolvers, and every bound.                                         *)
(***************************************************************************)
EXTENDS MarketCapture, FiniteSetTheorems, TLAPS

-----------------------------------------------------------------------------
(* The registry knows only objects made so far, and they bear the asset,   *)
(* the ticker and the event some verification found together.              *)
Verified(asset, ticker, event) ==
    \E i \in issued : i.asset = asset /\ i.market.ticker = ticker /\ i.market.event = event

RegistryIsSound ==
    \A e \in registry :
        /\ e.identity \in 1..made
        /\ e.identity \in Objects
        /\ Verified(objects[e.identity].asset, objects[e.identity].ticker,
                    objects[e.identity].event)

ProvenanceInv ==
    /\ made \in Nat
    /\ objects = [o \in Objects |-> objects[o]]
    /\ RegistryIsSound
    /\ UsesWereVerified

-----------------------------------------------------------------------------
(* What has been verified stays so.                                        *)
LEMMA VerifiedStays ==
    ASSUME issued \subseteq issued', NEW asset, NEW ticker, NEW event,
           Verified(asset, ticker, event)
    PROVE  Verified(asset, ticker, event)'
BY DEF Verified

(* Uses already made stay backed, whatever else is issued.                 *)
LEMMA UsesStay ==
    ASSUME UsesWereVerified, issued \subseteq issued', UNCHANGED marketVars
    PROVE  UsesWereVerified'
BY DEF UsesWereVerified, marketVars

(* An object whose entry the registry holds bears verified names.          *)
LEMMA ProvenanceIsVerified ==
    ASSUME RegistryIsSound, NEW o, HasVerifiedProvenance(o)
    PROVE  Verified(objects[o].asset, objects[o].ticker, objects[o].event)
<1>1. PICK e \in registry : e = [token |-> objects[o].token, identity |-> o]
  BY DEF HasVerifiedProvenance
<1>2. e.identity = o
  BY <1>1
<1> QED
  BY <1>1, <1>2 DEF RegistryIsSound

LEMMA ProvenanceStep == ProvenanceInv /\ [Next]_vars => ProvenanceInv'
<1> SUFFICES ASSUME ProvenanceInv, [Next]_vars PROVE ProvenanceInv'
  OBVIOUS
<1> USE DEF ProvenanceInv
<1>1. CASE UNCHANGED <<objectVars, marketVars>>
  BY <1>1 DEF objectVars, marketVars, RegistryIsSound, Verified, UsesWereVerified
<1>2. ASSUME NEW r \in Resolvers, Verify(r), UNCHANGED marketVars,
             ~UNCHANGED objectVars
      PROVE  ProvenanceInv'
  <2>1. PICK o \in Objects : \E m : IssueIdentity(r, o, m)
    BY <1>2 DEF Verify
  <2>8. PICK m : IssueIdentity(r, o, m)
    BY <2>1
  <2>2. issued \subseteq issued'
    BY <2>8 DEF IssueIdentity
  <2>3. /\ made' = made + 1 /\ made' = o
        /\ objects' = [objects EXCEPT ![o] =
              [token |-> o, asset |-> request[r].asset, ticker |-> m.ticker,
               event |-> m.event]]
        /\ registry' = registry \cup {[token |-> o, identity |-> o]}
    BY <2>8 DEF IssueIdentity
  <2>4. /\ objects'[o].asset = request[r].asset
        /\ objects'[o].ticker = m.ticker
        /\ objects'[o].event = m.event
    <3>1. objects'[o] = [token |-> o, asset |-> request[r].asset,
                         ticker |-> m.ticker, event |-> m.event]
      BY <2>3
    <3> QED
      BY <3>1
  <2>5. Verified(objects[o].asset, objects[o].ticker, objects[o].event)'
    <3> DEFINE i == [object |-> o, asset |-> request[r].asset,
                     window |-> request[r].window, market |-> m,
                     ever |-> ever[r], throughout |-> throughout[r]]
    <3>1. i \in issued'
      BY <2>8 DEF IssueIdentity
    <3>2. i.asset = request[r].asset /\ i.market = m
      OBVIOUS
    <3> HIDE DEF i
    <3> QED
      BY <3>1, <3>2, <2>4 DEF Verified
  <2>6. ASSUME NEW e \in registry
        PROVE  /\ e.identity \in 1..made'
               /\ objects'[e.identity] = objects[e.identity]
    BY <2>3 DEF RegistryIsSound
  <2>7. RegistryIsSound'
    BY <2>2, <2>3, <2>4, <2>5, <2>6, VerifiedStays DEF RegistryIsSound
  <2> QED
    BY <1>2, <2>2, <2>3, <2>7, UsesStay
<1>3. ASSUME NEW o \in Objects, DropIdentity(o), UNCHANGED marketVars
      PROVE  ProvenanceInv'
  <2>1. /\ objects' = [objects EXCEPT ![o] = None]
        /\ registry' = {e \in registry : e.identity # o}
        /\ UNCHANGED <<made, issued>>
    BY <1>3 DEF DropIdentity
  <2>2. RegistryIsSound'
    BY <2>1, VerifiedStays DEF RegistryIsSound
  <2> QED
    BY <1>3, <2>1, <2>2, UsesStay
<1>4. CASE CopyIdentity
  <2>1. PICK o \in Objects : o = made + 1 /\ made' = o
    BY <1>4 DEF CopyIdentity
  <2>2. PICK x : objects' = [objects EXCEPT ![o] = x]
    BY <1>4, <2>1 DEF CopyIdentity
  <2>3. UNCHANGED <<registry, issued, marketVars>>
    BY <1>4 DEF CopyIdentity
  <2>4. ASSUME NEW e \in registry
        PROVE  /\ e.identity \in 1..made'
               /\ objects'[e.identity] = objects[e.identity]
    BY <2>1, <2>2 DEF RegistryIsSound
  <2>5. RegistryIsSound'
    BY <2>3, <2>4, VerifiedStays DEF RegistryIsSound
  <2> QED
    BY <2>1, <2>2, <2>3, <2>5, UsesStay
<1>5. ASSUME NEW o \in Objects, NEW stream \in Streams, Subscribe(o, stream)
      PROVE  ProvenanceInv'
  <2>1. Verified(objects[o].asset, objects[o].ticker, objects[o].event)
    BY <1>5, ProvenanceIsVerified DEF Subscribe
  <2>2. UNCHANGED <<objects, made, registry, issued, facts>>
    BY <1>5 DEF Subscribe, identityVars, objectVars
  <2>3. ASSUME NEW s \in subscriptions'
        PROVE  \E i \in issued' : i.market.ticker = s.ticker
    <3>1. s \in subscriptions \/ s.ticker = objects[o].ticker
      BY <1>5, <2>3 DEF Subscribe
    <3> QED
      BY <2>1, <2>2, <3>1 DEF UsesWereVerified, Verified
  <2> QED
    BY <2>2, <2>3 DEF RegistryIsSound, UsesWereVerified, Verified
<1>6. ASSUME NEW o \in Objects, NEW m \in Message, CaptureMarket(o, m)
      PROVE  ProvenanceInv'
  <2>1. HasVerifiedProvenance(o)
    BY <1>6 DEF CaptureMarket, CaptureOutcome
  <2>2. Verified(objects[o].asset, objects[o].ticker, objects[o].event)
    BY <2>1, ProvenanceIsVerified
  <2>3. UNCHANGED <<objects, made, registry, issued, subscriptions>>
    BY <1>6 DEF CaptureMarket, identityVars, objectVars
  <2>4. ASSUME NEW f \in facts'
        PROVE  \E i \in issued' : i.asset = f.asset /\ i.market.ticker = f.source
    <3>1. f \in facts \/ (f.asset = objects[o].asset /\ f.source = objects[o].ticker)
      BY <1>6, <2>4 DEF CaptureMarket
    <3> QED
      BY <2>2, <2>3, <3>1 DEF UsesWereVerified, Verified
  <2> QED
    BY <2>3, <2>4 DEF RegistryIsSound, UsesWereVerified, Verified
<1>7. ASSUME IdentityNext, UNCHANGED marketVars PROVE ProvenanceInv'
  <2>1. ASSUME NEW r \in Resolvers, Resolve(r) \/ FetchPage(r) \/ FetchFails(r)
        PROVE  UNCHANGED objectVars
    BY <2>1 DEF Resolve, FetchPage, FetchFails
  <2>2. ChangeListing => UNCHANGED objectVars
    BY DEF ChangeListing
  <2> QED
    BY <1>1, <1>2, <1>3, <1>7, <2>1, <2>2 DEF IdentityNext
<1>8. UNCHANGED vars => UNCHANGED <<objectVars, marketVars>>
  BY DEF vars, identityVars
<1> QED
  BY <1>1, <1>4, <1>5, <1>6, <1>7, <1>8 DEF Next

(* Every stream was opened by, and every fact filed under, names that one  *)
(* verification found together, whatever was copied, altered, made up or   *)
(* let go of in between.                                                   *)
THEOREM UsesAreVerified == Spec => []UsesWereVerified
<1>1. Init => ProvenanceInv
  BY DEF Init, IdentityInit, ProvenanceInv, RegistryIsSound, UsesWereVerified
<1>2. ProvenanceInv => UsesWereVerified
  BY DEF ProvenanceInv
<1> QED
  BY <1>1, <1>2, ProvenanceStep, PTL DEF Spec

-----------------------------------------------------------------------------
(* What each verdict says of the markets found.                            *)
LEMMA VerdictOfFound ==
    ASSUME NEW a, NEW w, NEW found
    PROVE  LET exact == found \cap Exact(a, w)
           IN  /\ IsFiniteSet(exact)
               /\ Verification(a, w, found) = "verified" =>
                     \A m \in exact : /\ exact = {m}
                                      /\ m.usable /\ Missing \notin {m.ticker, m.event}
               /\ Verification(a, w, found) = "no_match" => exact = {}
               /\ Verification(a, w, found) = "ambiguous" => Cardinality(exact) >= 2
<1> DEFINE exact == found \cap Exact(a, w)
<1>1. IsFiniteSet(exact)
  <2>1. exact \subseteq Markets
    BY DEF Exact, Matching
  <2> QED
    BY <2>1, ScopeAssumption, FS_Subset
<1>2. Cardinality(exact) = 1 => \A m \in exact : exact = {m}
  BY <1>1, FS_Singleton
<1>3. exact # {} /\ Cardinality(exact) # 1 => Cardinality(exact) >= 2
  BY <1>1, FS_EmptySet, FS_CardinalityType
<1> HIDE DEF exact
<1>4. Verification(a, w, found) =
         IF exact = {} THEN "no_match"
         ELSE IF Cardinality(exact) # 1 THEN "ambiguous"
         ELSE IF \E m \in exact : m.ticker = Missing \/ m.event = Missing \/ ~m.usable
              THEN "invalid"
         ELSE "verified"
  BY DEF Verification, exact
<1>5. /\ Verification(a, w, found) = "verified" =>
            \A m \in exact : /\ exact = {m}
                             /\ m.usable /\ Missing \notin {m.ticker, m.event}
      /\ Verification(a, w, found) = "no_match" => exact = {}
      /\ Verification(a, w, found) = "ambiguous" => Cardinality(exact) >= 2
  BY <1>2, <1>3, <1>4
<1> QED
  BY <1>1, <1>5 DEF exact

(* While a call fetches, what it found was listed in its time, and what    *)
(* stayed listed is found or still to come.                                *)
Fetching(r) ==
    /\ fetched[r] \subseteq ever[r]
    /\ listed \subseteq ever[r]
    /\ throughout[r] \subseteq listed
    /\ Exact(request[r].asset, request[r].window) \cap throughout[r]
           \subseteq fetched[r] \cup pages[r]

CallShape ==
    /\ pc = [r \in Resolvers |-> pc[r]]
    /\ request = [r \in Resolvers |-> request[r]]
    /\ pages = [r \in Resolvers |-> pages[r]]
    /\ fetched = [r \in Resolvers |-> fetched[r]]
    /\ result = [r \in Resolvers |-> result[r]]
    /\ ever = [r \in Resolvers |-> ever[r]]
    /\ throughout = [r \in Resolvers |-> throughout[r]]

(* A refusal, seen for one call that is over.                              *)
Reflects(r) == request[r] # None =>
    LET exact == Exact(request[r].asset, request[r].window)
    IN  /\ result[r].status = "no_match" => exact \cap throughout[r] = {}
        /\ result[r].status = "ambiguous" => Cardinality(exact \cap ever[r]) >= 2

CallInv ==
    /\ CallShape
    /\ \A r \in Resolvers :
          /\ pc[r] = "fetch" => Fetching(r)
          /\ pc[r] = "idle" => Reflects(r)

(* What a finished discovery found, against what was listed in its time.   *)
LEMMA FoundWasListed ==
    ASSUME NEW r, Fetching(r), pages[r] = {}
    PROVE  LET exact == Exact(request[r].asset, request[r].window)
           IN  /\ fetched[r] \cap exact \subseteq exact \cap ever[r]
               /\ exact \cap throughout[r] \subseteq fetched[r] \cap exact
BY DEF Fetching

LEMMA VerifyReflects ==
    ASSUME NEW r \in Resolvers, CallInv, Verify(r)
    PROVE  /\ Reflects(r)'
           /\ pc' = [pc EXCEPT ![r] = "idle"]
           /\ \A q \in Resolvers \ {r} : result'[q] = result[q]
           /\ CallShape'
<1> DEFINE a == request[r].asset
           w == request[r].window
           exact == Exact(a, w)
<1>1. PICK o : Answer(r, Verification(a, w, fetched[r]), o)
  BY DEF Verify
<1>2. /\ pc' = [pc EXCEPT ![r] = "idle"]
      /\ \A q \in Resolvers \ {r} : result'[q] = result[q]
      /\ result'[r].status = Verification(a, w, fetched[r])
      /\ UNCHANGED <<request, ever, throughout>>
  BY <1>1 DEF CallInv, CallShape, Answer, Verify
<1>3. CallShape'
  BY <1>1, <1>2 DEF CallInv, CallShape, Answer
<1>4. pc[r] = "fetch" /\ pages[r] = {}
  BY DEF Verify
<1>5. /\ fetched[r] \cap exact \subseteq exact \cap ever[r]
      /\ exact \cap throughout[r] \subseteq fetched[r] \cap exact
  BY <1>4, FoundWasListed DEF CallInv
<1>6. IsFiniteSet(exact \cap ever[r])
  BY ScopeAssumption, FS_Subset DEF Exact, Matching
<1> HIDE DEF exact, a, w
<1>7. Verification(a, w, fetched[r]) = "no_match" => exact \cap throughout[r] = {}
  BY <1>5, VerdictOfFound DEF exact
<1>8. Verification(a, w, fetched[r]) = "ambiguous" => Cardinality(exact \cap ever[r]) >= 2
  <2>1. Cardinality(fetched[r] \cap exact) <= Cardinality(exact \cap ever[r])
    BY <1>5, <1>6, FS_Subset
  <2>2. /\ Cardinality(exact \cap ever[r]) \in Nat
        /\ Cardinality(fetched[r] \cap exact) \in Nat
    BY <1>5, <1>6, FS_Subset, FS_CardinalityType
  <2>3. Verification(a, w, fetched[r]) = "ambiguous" =>
            Cardinality(fetched[r] \cap exact) >= 2
    BY VerdictOfFound DEF exact
  <2> QED
    BY <2>1, <2>2, <2>3
<1>9. Reflects(r)'
  BY <1>2, <1>7, <1>8 DEF Reflects, exact, a, w
<1> QED
  BY <1>2, <1>3, <1>9

-----------------------------------------------------------------------------
LEMMA CallStep == CallInv /\ [Next]_vars => CallInv'
<1> SUFFICES ASSUME CallInv, [Next]_vars PROVE CallInv'
  OBVIOUS
<1>1. CASE UNCHANGED <<listed, callVars>>
  BY <1>1 DEF callVars, CallInv, CallShape, Fetching, Reflects
<1>2. ASSUME NEW r \in Resolvers, Resolve(r) PROVE CallInv'
  <2>1. PICK q \in Requests :
          \/ /\ Answer(r, "invalid", None)
             /\ UNCHANGED <<request, ever, throughout>>
          \/ \E w \in {Current(q.at), NextWindow(Current(q.at))} :
             /\ pc' = [pc EXCEPT ![r] = "fetch"]
             /\ request' = [request EXCEPT ![r] = [asset |-> q.asset, window |-> w]]
             /\ pages' = [pages EXCEPT ![r] = Matching(q.asset, w)]
             /\ fetched' = [fetched EXCEPT ![r] = {}]
             /\ result' = [result EXCEPT ![r] = NoResult]
             /\ ever' = [ever EXCEPT ![r] = listed]
             /\ throughout' = [throughout EXCEPT ![r] = listed]
    BY <1>2 DEF Resolve
  <2>2. UNCHANGED listed
    BY <1>2 DEF Resolve
  <2>3. CASE Answer(r, "invalid", None)
             /\ UNCHANGED <<request, ever, throughout>>
    BY <2>2, <2>3 DEF Answer, CallInv, CallShape, Fetching, Reflects
  <2>4. ASSUME NEW w,
               /\ pc' = [pc EXCEPT ![r] = "fetch"]
               /\ request' = [request EXCEPT ![r] = [asset |-> q.asset, window |-> w]]
               /\ pages' = [pages EXCEPT ![r] = Matching(q.asset, w)]
               /\ fetched' = [fetched EXCEPT ![r] = {}]
               /\ result' = [result EXCEPT ![r] = NoResult]
               /\ ever' = [ever EXCEPT ![r] = listed]
               /\ throughout' = [throughout EXCEPT ![r] = listed]
        PROVE  CallInv'
    <3>1. CallShape'
      BY <2>4 DEF CallInv, CallShape
    <3>2. Fetching(r)'
      <4>1. /\ fetched'[r] = {} /\ ever'[r] = listed /\ throughout'[r] = listed
            /\ pages'[r] = Matching(q.asset, w)
            /\ request'[r] = [asset |-> q.asset, window |-> w]
        BY <2>4 DEF CallInv, CallShape
      <4> QED
        BY <2>2, <4>1 DEF Fetching, Exact
    <3>3. ASSUME NEW s \in Resolvers, s # r
          PROVE  /\ pc'[s] = "fetch" => Fetching(s)'
                 /\ pc'[s] = "idle" => Reflects(s)'
      BY <2>2, <2>4, <3>3 DEF CallInv, CallShape, Fetching, Reflects
    <3>4. pc'[r] = "fetch"
      BY <2>4 DEF CallInv, CallShape
    <3> QED
      BY <3>1, <3>2, <3>3, <3>4 DEF CallInv
  <2> QED
    BY <2>1, <2>3, <2>4
<1>3. ASSUME NEW r \in Resolvers, FetchPage(r) PROVE CallInv'
  <2>1. PICK page \in SUBSET pages[r] :
          /\ pages' = [pages EXCEPT ![r] = @ \ page]
          /\ fetched' = [fetched EXCEPT ![r] = @ \cup (page \cap listed)]
    BY <1>3 DEF FetchPage
  <2>2. pc[r] = "fetch" /\ UNCHANGED <<listed, pc, request, result, ever, throughout>>
    BY <1>3 DEF FetchPage
  <2>3. CallShape'
    BY <2>1, <2>2 DEF CallInv, CallShape
  <2>4. Fetching(r)'
    <3>1. /\ pages'[r] = pages[r] \ page
          /\ fetched'[r] = fetched[r] \cup (page \cap listed)
      BY <2>1 DEF CallInv, CallShape
    <3> QED
      BY <2>2, <3>1 DEF CallInv, Fetching
  <2>5. ASSUME NEW s \in Resolvers, s # r
        PROVE  /\ pc'[s] = "fetch" => Fetching(s)'
               /\ pc'[s] = "idle" => Reflects(s)'
    BY <2>1, <2>2, <2>5 DEF CallInv, CallShape, Fetching, Reflects
  <2> QED
    BY <2>2, <2>3, <2>4, <2>5 DEF CallInv
<1>4. ASSUME NEW r \in Resolvers, FetchFails(r) PROVE CallInv'
  BY <1>4 DEF FetchFails, Answer, CallInv, CallShape, Fetching, Reflects
<1>5. ASSUME NEW r \in Resolvers, Verify(r) PROVE CallInv'
  <2>1. UNCHANGED <<listed, request, ever, throughout>>
    BY <1>5 DEF Verify
  <2>2. ASSUME NEW s \in Resolvers, s # r
        PROVE  /\ pc'[s] = pc[s] /\ result'[s] = result[s]
               /\ pages'[s] = pages[s] /\ fetched'[s] = fetched[s]
    BY <1>5, <2>2 DEF Verify, Answer, CallInv, CallShape
  <2>3. ASSUME NEW s \in Resolvers, s # r
        PROVE  /\ pc'[s] = "fetch" => Fetching(s)'
               /\ pc'[s] = "idle" => Reflects(s)'
    BY <2>1, <2>2, <2>3 DEF CallInv, Fetching, Reflects
  <2>4. pc'[r] = "idle"
    BY <1>5, VerifyReflects DEF CallInv, CallShape
  <2> QED
    BY <1>5, <2>3, <2>4, VerifyReflects DEF CallInv
<1>6. ASSUME NEW o \in Objects, DropIdentity(o) PROVE CallInv'
  BY <1>6 DEF DropIdentity, CallInv, CallShape, Fetching, Reflects, NoResult
<1>7. CASE ChangeListing
  <2>1. UNCHANGED <<pc, request, pages, fetched, result>>
    BY <1>7 DEF ChangeListing
  <2>2. /\ ever' = [r \in Resolvers |->
                      IF pc[r] = "fetch" THEN ever[r] \cup listed' ELSE ever[r]]
        /\ throughout' = [r \in Resolvers |->
                      IF pc[r] = "fetch" THEN throughout[r] \cap listed' ELSE throughout[r]]
    BY <1>7 DEF ChangeListing
  <2>3. CallShape'
    BY <2>1, <2>2 DEF CallInv, CallShape
  <2>4. ASSUME NEW r \in Resolvers
        PROVE  /\ pc'[r] = "fetch" => Fetching(r)'
               /\ pc'[r] = "idle" => Reflects(r)'
    BY <2>1, <2>2 DEF CallInv, Fetching, Reflects
  <2> QED
    BY <2>3, <2>4 DEF CallInv
<1>8. ASSUME NEW o \in Objects PROVE
        /\ \A stream \in Streams : Subscribe(o, stream) => UNCHANGED <<listed, callVars>>
        /\ \A m \in Message : CaptureMarket(o, m) => UNCHANGED <<listed, callVars>>
  BY DEF Subscribe, CaptureMarket, identityVars
<1>9. CopyIdentity => UNCHANGED <<listed, callVars>>
  BY DEF CopyIdentity
<1>10. UNCHANGED vars => UNCHANGED <<listed, callVars>>
  BY DEF vars, identityVars
<1> QED
  BY <1>1, <1>2, <1>3, <1>4, <1>5, <1>6, <1>7, <1>8, <1>9, <1>10 DEF Next, IdentityNext

(* The issue of an identity is the only step that touches what was issued. *)
LEMMA OnlyVerifyIssues ==
    ASSUME [Next]_vars, issued' # issued
    PROVE  \E r \in Resolvers : Verify(r)
BY DEF Next, IdentityNext, Resolve, FetchPage, FetchFails, DropIdentity, ChangeListing,
       CopyIdentity, Subscribe, CaptureMarket, vars, identityVars, objectVars

LEMMA IssueStep ==
    CallInv /\ IssuedFromTheOnlyMarket /\ [Next]_vars => IssuedFromTheOnlyMarket'
<1> SUFFICES ASSUME CallInv, IssuedFromTheOnlyMarket, [Next]_vars, issued' # issued
             PROVE  IssuedFromTheOnlyMarket'
  BY DEF IssuedFromTheOnlyMarket
<1>1. PICK r \in Resolvers : Verify(r)
  BY OnlyVerifyIssues
<1> DEFINE a == request[r].asset
           w == request[r].window
           exact == Exact(a, w)
<1>2. /\ Verification(a, w, fetched[r]) = "verified"
      /\ \E m \in fetched[r] \cap exact, o \in Objects : IssueIdentity(r, o, m)
  BY <1>1 DEF Verify, objectVars
<1>3. PICK m \in fetched[r] \cap exact : \E o \in Objects : IssueIdentity(r, o, m)
  BY <1>2
<1>4. PICK o \in Objects : IssueIdentity(r, o, m)
  BY <1>3
<1>5. Fetching(r) /\ pages[r] = {}
  BY <1>1 DEF Verify, CallInv
<1>6. /\ fetched[r] \cap exact = {m}
      /\ m.usable /\ Missing \notin {m.ticker, m.event}
  BY <1>2, <1>3, VerdictOfFound
<1>7. m \in exact \cap ever[r] /\ exact \cap throughout[r] \subseteq {m}
  BY <1>5, <1>6, FoundWasListed
<1> HIDE DEF a, w, exact
<1>8. ASSUME NEW i \in issued', i \notin issued
      PROVE  /\ i.market = m /\ Exact(i.asset, i.window) = exact
             /\ i.ever = ever[r] /\ i.throughout = throughout[r]
  <2>1. i = [object |-> o, asset |-> a, window |-> w, market |-> m,
             ever |-> ever[r], throughout |-> throughout[r]]
    BY <1>4, <1>8 DEF IssueIdentity, a, w
  <2> QED
    BY <2>1 DEF exact
<1>9. ASSUME NEW i \in issued'
      PROVE  /\ i.market \in Exact(i.asset, i.window) \cap i.ever
             /\ i.market.usable /\ Missing \notin {i.market.ticker, i.market.event}
             /\ Exact(i.asset, i.window) \cap i.throughout \subseteq {i.market}
  BY <1>6, <1>7, <1>8 DEF IssuedFromTheOnlyMarket
<1> QED
  BY <1>9 DEF IssuedFromTheOnlyMarket

-----------------------------------------------------------------------------
LEMMA CallsAreSound == Spec => []CallInv
<1>1. Init => CallInv
  BY DEF Init, IdentityInit, CallInv, CallShape, Reflects
<1> QED
  BY <1>1, CallStep, PTL DEF Spec

(* An identity comes from a market listed for its very window during the   *)
(* call that issued it, beside no other that was listed all the while.     *)
THEOREM IdentitiesAreOfTheOnlyMarket == Spec => []IssuedFromTheOnlyMarket
<1>1. Init => IssuedFromTheOnlyMarket
  BY DEF Init, IdentityInit, IssuedFromTheOnlyMarket
<1> QED
  BY <1>1, CallsAreSound, IssueStep, PTL DEF Spec

(* No refusal is an artefact of when its pages were read.                  *)
THEOREM RefusalsAreTrue == Spec => []RefusalsReflectTheListing
<1>1. CallInv => RefusalsReflectTheListing
  BY DEF CallInv, Reflects, RefusalsReflectTheListing
<1> QED
  BY <1>1, CallsAreSound, PTL

-----------------------------------------------------------------------------
LEMMA FactsStep ==
    ProvenanceInv /\ IssuedFromTheOnlyMarket /\ FactsNameTheirMarket /\ [Next]_vars
        => FactsNameTheirMarket'
<1> SUFFICES ASSUME ProvenanceInv, IssuedFromTheOnlyMarket, FactsNameTheirMarket,
                    [Next]_vars, facts' # facts
             PROVE  FactsNameTheirMarket'
  BY DEF FactsNameTheirMarket
<1>1. PICK o \in Objects, m \in Message : CaptureMarket(o, m)
  <2>1. ~(IdentityNext /\ UNCHANGED marketVars) /\ ~CopyIdentity /\ ~UNCHANGED vars
    BY DEF CopyIdentity, marketVars, vars
  <2>2. \A p \in Objects, stream \in Streams : ~Subscribe(p, stream)
    BY DEF Subscribe
  <2>3. \E p \in Objects : \E n \in Message : CaptureMarket(p, n)
    BY <2>1, <2>2 DEF Next
  <2> QED
    BY <2>3
<1>2. PICK i \in issued : /\ i.asset = objects[o].asset
                          /\ i.market.ticker = objects[o].ticker
                          /\ i.market.event = objects[o].event
  <2>1. HasVerifiedProvenance(o)
    BY <1>1 DEF CaptureMarket, CaptureOutcome
  <2> QED
    BY <2>1, ProvenanceIsVerified DEF ProvenanceInv, Verified
<1>3. /\ i.market \in Markets /\ i.market.series = SeriesOf[i.asset]
      /\ i.market.ticker # Missing /\ i.market.event # Missing
  BY DEF IssuedFromTheOnlyMarket, Exact, Matching
<1>4. m.market \in Markets
  BY DEF Message
<1>5. Concerns(o, m)
  BY <1>1 DEF CaptureMarket, CaptureOutcome
<1>6. /\ m.market.series = SeriesOf[objects[o].asset]
      /\ m.kind # "fee" => m.market.ticker = objects[o].ticker
  BY <1>2, <1>3, <1>4, <1>5, TickersNameOneMarket DEF Concerns
<1>7. ASSUME NEW f \in facts', f \notin facts
      PROVE  f.asset = objects[o].asset /\ f.source = objects[o].ticker /\ f.message = m
  BY <1>1, <1>7 DEF CaptureMarket
<1> QED
  BY <1>6, <1>7 DEF FactsNameTheirMarket

(* A captured fact is about the market its message was about.              *)
THEOREM FactsAreOfTheirMarket == Spec => []FactsNameTheirMarket
<1>1. Init => ProvenanceInv
  BY DEF Init, IdentityInit, ProvenanceInv, RegistryIsSound, UsesWereVerified
<1>2. Init => FactsNameTheirMarket
  BY DEF Init, FactsNameTheirMarket
<1> QED
  BY <1>1, <1>2, ProvenanceStep, IdentitiesAreOfTheOnlyMarket, FactsStep, PTL DEF Spec
=============================================================================
