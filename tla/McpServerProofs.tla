---------------------------- MODULE McpServerProofs ----------------------------
(***************************************************************************)
(* Proofs about McpServer, for any tools, policy, clients and requests:    *)
(* what a served call passed through and whose it is, the progress that a  *)
(* client is shown, and the lease of a server that runs.                   *)
(***************************************************************************)
EXTENDS McpServer, TLAPS

Actors ==
    {System, Anonymous} \cup {TokenActor(o.token) : o \in {x \in Offers : x.token # None}}

\* A policy has its fields and no other.
Shaped(p) == p = [names |-> p.names, offNames |-> p.offNames, tags |-> p.tags,
                  offTags |-> p.offTags, rejects |-> p.rejects]

\* None is no value of anything; no component has the name or tag that stands for an
\* empty intersection.
ServedConstants ==
    /\ None \notin Actors /\ None \notin BOOLEAN /\ None \notin Nat
    /\ MaxServedTime \in Nat /\ Burst \in Nat
    /\ Shaped(Policy)
    /\ Nowhere # All /\ \A t \in Tools : t.name # Nowhere /\ Nowhere \notin t.tags

--------------------------------------------------------------------------------
(* The invariant *)

Startable == (Network => ListenerValid) /\ AuthValid /\ ProfileValid

\* How far a request came.
HasTool == {"confirm", "asked", "eliciting", "go", "done"}
WithActor == {"bound", "routed", "confirm", "eliciting", "go"}
AfterBind == {"bound", "routed"} \cup HasTool
AfterVerify == {"verified"} \cup AfterBind
AfterBoundary == {"auth"} \cup AfterVerify

\* A request is only served by a server that may serve.
ServedByRight ==
    /\ server = "serving" => Startable
    /\ \A r \in Requests : call[r].at # "idle" => server = "serving" /\ call[r].offer \in Offers

\* What the request passed, check by check.
PassedAll(r) ==
    LET c == call[r] IN
    /\ c.at = "called" => ~Network
    /\ Network /\ c.at \in AfterBoundary => Admitted(c.offer) /\ BodyFits(c.offer)
    /\ Network /\ Provider /\ c.at \in AfterVerify =>
         c.offer.token # None /\ c.offer.token.expires >= c.verified
    /\ Profile /\ c.at \in AfterBind => ProfileAdmits(c.offer.token)

Own(r) == RequestActor(r, config.auth = "none")

\* The actor is the request's own, and the tool one that is shown to it and that the
\* actor reaches.
Scoped(r) ==
    LET c == call[r] IN
    /\ c.at \in WithActor => bound[r] = Own(r)
    /\ c.at \in HasTool => /\ c.tool \in Tools /\ Permits(Policy, c.tool)
                           /\ Reaches(Own(r), c.tool.resource)

AcceptedFor(r) ==
    \E n \in DOMAIN asked : asked[n].answer = TRUE /\ asked[n].shown = Binding(r)

\* A question is about what was shown, and a destructive call that goes on was accepted.
Confirmed(r) ==
    LET c == call[r] IN
    /\ c.state # None => c.state \in DOMAIN asked
    /\ c.at \in {"asked", "eliciting"} => c.state # None
    /\ c.at = "eliciting" => asked[c.state].of = Binding(r)
    /\ c.at \in {"go", "done"} /\ Destructive(r, c.tool) => AcceptedFor(r)

QuestionsAreShown == \A n \in DOMAIN asked : asked[n].of = asked[n].shown

DoneAreOwn ==
    \A d \in done : d.request \in Requests /\ call[d.request].at = "done"
                    /\ d.actor = Own(d.request)

ServedInv ==
    /\ ServedTypeOK
    /\ ServedByRight
    /\ \A r \in Requests : PassedAll(r) /\ Scoped(r) /\ Confirmed(r)
    /\ QuestionsAreShown
    /\ DoneAreOwn

--------------------------------------------------------------------------------
(* Narrowing *)

\* What a filter leaves of a policy shows no component that the policy does not.
LEMMA NarrowedOnlyNarrows ==
    ASSUME ServedConstants, NEW p, Shaped(p), NEW f, NEW t \in Tools
    PROVE  /\ Shaped(Narrowed(p, f))
           /\ Permits(Narrowed(p, f), t) => Permits(p, t)
<1> USE DEF Shaped
<1>1. CASE Malformed(f)
    <2>1. Narrowed(p, f) = [p EXCEPT !.rejects = TRUE]
        BY <1>1 DEF Narrowed
    <2>2. /\ Narrowed(p, f) = [names |-> p.names, offNames |-> p.offNames, tags |-> p.tags,
                               offTags |-> p.offTags, rejects |-> TRUE]
        BY <2>1
    <2> QED BY <2>2 DEF Permits
<1>2. CASE ~Malformed(f)
    <2> DEFINE n == NarrowValues(p.names, f.names)
               g == NarrowValues(p.tags, f.tags)
    <2>1. Narrowed(p, f) = [names |-> n, offNames |-> p.offNames \cup f.offNames, tags |-> g,
                            offTags |-> p.offTags \cup f.offTags, rejects |-> p.rejects]
        BY <1>2 DEF Narrowed
    <2>2. ASSUME n \ {All} = {} \/ t.name \in n \ {All}
          PROVE  p.names \ {All} = {} \/ t.name \in p.names \ {All}
        BY <1>2, <2>2 DEF NarrowValues, ServedConstants, Malformed
    <2>3. g = {} => p.tags = {}
        BY DEF NarrowValues
    <2>4. ASSUME g # {}, t.tags \cap g # {}
          PROVE  p.tags = {} \/ t.tags \cap p.tags # {}
        BY <2>4 DEF NarrowValues, ServedConstants
    <2> HIDE DEF n, g
    <2>5. Shaped(Narrowed(p, f))
        BY <2>1
    <2>6. ASSUME Permits(Narrowed(p, f), t)
          PROVE  Permits(p, t)
        <3>1. ~p.rejects
            BY <2>1, <2>6 DEF Permits
        <3>2. NamePermitted(p, t.name)
            BY <2>1, <2>2, <2>6 DEF Permits, NamePermitted
        <3>3. TagsPermitted(p, t.tags)
            BY <2>1, <2>3, <2>4, <2>6 DEF Permits, TagsPermitted
        <3> QED BY <3>1, <3>2, <3>3 DEF Permits
    <2> QED BY <2>5, <2>6
<1> QED BY <1>1, <1>2

\* Neither do the query and the headers of a request.
LEMMA RequestsOnlyNarrow ==
    ASSUME ServedConstants, NEW q, NEW h, NEW t \in Tools, Permits(ForRequest(Policy, q, h), t)
    PROVE  Permits(Policy, t)
<1>1. Shaped(Policy)
    BY DEF ServedConstants
<1>2. Shaped(Narrowed(Policy, q)) /\ (Permits(Narrowed(Policy, q), t) => Permits(Policy, t))
    BY <1>1, NarrowedOnlyNarrows, Zenon
<1>3. Permits(Narrowed(Narrowed(Policy, q), h), t) => Permits(Narrowed(Policy, q), t)
    BY <1>2, NarrowedOnlyNarrows, Zenon
<1> QED BY <1>2, <1>3 DEF ForRequest

--------------------------------------------------------------------------------
(* What a step of one request does to the others *)

\* What depends only on how the server was started stays.
LEMMA ConfigStays ==
    ASSUME UNCHANGED config
    PROVE  /\ Network' = Network /\ Provider' = Provider /\ Profile' = Profile
           /\ Startable' = Startable
           /\ \A o : Admitted(o)' = Admitted(o)
BY DEF Network, Provider, Profile, Startable, ListenerValid, Exposable, TlsPresent,
       AuthValid, ProfileValid, Admitted, Hosts

LEMMA OwnStays ==
    ASSUME UNCHANGED config, NEW r \in Requests, call'[r].offer = call[r].offer
    PROVE  Own(r)' = Own(r)
<1>1. Network' = Network /\ Provider' = Provider
    BY ConfigStays
<1> QED BY <1>1 DEF Own, RequestActor

\* No question is taken back, and no acceptance.
AskedGrows ==
    \A n \in DOMAIN asked :
        /\ n \in DOMAIN asked'
        /\ asked'[n].of = asked[n].of /\ asked'[n].shown = asked[n].shown
        /\ asked[n].answer = TRUE => asked'[n].answer = TRUE

Request(r) == PassedAll(r) /\ Scoped(r) /\ Confirmed(r)

LEMMA OthersStay ==
    ASSUME UNCHANGED config, AskedGrows, NEW q \in Requests, Request(q),
           call'[q] = call[q], bound'[q] = bound[q]
    PROVE  Request(q)'
<1>1. /\ Network' = Network /\ Provider' = Provider /\ Profile' = Profile
      /\ \A o : Admitted(o)' = Admitted(o)
    BY ConfigStays
<1>2. Own(q)' = Own(q) /\ Binding(q)' = Binding(q)
    BY OwnStays DEF Binding
<1>3. PassedAll(q)'
    BY <1>1 DEF Request, PassedAll, BodyFits, ProfileAdmits
<1>4. Scoped(q)'
    BY <1>2 DEF Request, Scoped, Reaches
<1>5. AcceptedFor(q) => AcceptedFor(q)'
    BY <1>2 DEF AcceptedFor, AskedGrows
<1>6. Confirmed(q)'
    BY <1>2, <1>5 DEF Request, Confirmed, Destructive, AskedGrows
<1> QED BY <1>3, <1>4, <1>6 DEF Request

\* A step by request r: what is left to show is that r's own part is right.
LEMMA OneMoves ==
    ASSUME ServedInv, NEW r \in Requests, NEW c \in RequestState,
           UNCHANGED <<config, server>>, server = "serving",
           call[r].at # "done", c.at # "idle", c.offer \in Offers,
           call' = [call EXCEPT ![r] = c], Request(r)',
           DOMAIN bound' = Requests, \A q \in Requests \ {r} : bound'[q] = bound[q],
           \A b \in DOMAIN bucket' : bucket'[b] \in 0..Burst,
           AskedGrows, asked' \in Seq(Question), QuestionsAreShown',
           \A d \in done' : d \in done \/ (d.request = r /\ c.at = "done" /\ d.actor = Own(r)'),
           UNCHANGED servedNow
    PROVE  ServedInv'
<1> USE DEF ServedInv
<1>1. call'[r] = c /\ \A q \in Requests \ {r} : call'[q] = call[q]
    BY DEF ServedTypeOK
<1>2. ServedTypeOK'
    BY DEF ServedTypeOK
<1>3. ServedByRight'
    <2>1. Startable' = Startable
        BY ConfigStays
    <2> QED BY <1>1, <2>1 DEF ServedByRight
<1>4. ASSUME NEW q \in Requests
      PROVE  Request(q)'
    <2>1. CASE q = r
        BY <2>1
    <2>2. CASE q # r
        BY <2>2, <1>1, OthersStay DEF Request
    <2> QED BY <2>1, <2>2
<1>5. DoneAreOwn'
    <2> SUFFICES ASSUME NEW d \in done'
                 PROVE  /\ d.request \in Requests /\ call'[d.request].at = "done"
                        /\ d.actor = Own(d.request)'
        BY DEF DoneAreOwn
    <2>1. CASE d \in done
        <3>1. d.request \in Requests /\ d.request # r /\ d.actor = Own(d.request)
            BY <2>1 DEF DoneAreOwn
        <3>2. Own(d.request)' = Own(d.request)
            BY <3>1, <1>1, OwnStays
        <3> QED BY <3>1, <3>2, <1>1, <2>1 DEF DoneAreOwn
    <2>2. CASE d.request = r /\ c.at = "done" /\ d.actor = Own(r)'
        BY <2>2, <1>1
    <2> QED BY <2>1, <2>2
<1> QED BY <1>2, <1>3, <1>4, <1>5 DEF Request

--------------------------------------------------------------------------------
(* The steps *)

LEMMA Staged ==
    \A c \in RequestState, h \in Stages : [c EXCEPT !.at = h] \in RequestState
BY DEF RequestState

\* What the invariant says of one request, where it is served.
LEMMA OneOf ==
    ASSUME ServedInv, NEW r \in Requests
    PROVE  /\ call[r] \in RequestState /\ call[r].at \in Stages
           /\ PassedAll(r) /\ Scoped(r) /\ Confirmed(r)
           /\ call[r].at # "idle" => /\ server = "serving" /\ Startable
                                     /\ call[r].offer \in Offers
BY DEF ServedInv, ServedTypeOK, ServedByRight, RequestState

\* A request that only goes to another stage.
LEMMA StageMoves ==
    ASSUME ServedInv, NEW r \in Requests, NEW h \in Stages \ {"idle"},
           call[r].at \notin {"idle", "done"},
           call' = [call EXCEPT ![r].at = h],
           bound' = bound \/ (\E a : bound' = [bound EXCEPT ![r] = a]),
           UNCHANGED <<config, server, asked, servedNow>>,
           \A b \in DOMAIN bucket' : bucket'[b] \in 0..Burst,
           \A d \in done' : d \in done \/ (d.request = r /\ h = "done" /\ d.actor = Own(r)'),
           call'[r].at = h /\ call'[r].offer = call[r].offer => Request(r)'
    PROVE  ServedInv'
<1> DEFINE c == [call[r] EXCEPT !.at = h]
<1>1. call[r] \in RequestState /\ server = "serving" /\ call[r].offer \in Offers
    BY OneOf
<1>2. c \in RequestState /\ c.at = h /\ c.offer = call[r].offer
    <2>1. c \in RequestState
        BY <1>1, Staged
    <2> QED BY <1>1, <2>1 DEF RequestState
<1>3. call' = [call EXCEPT ![r] = c] /\ call'[r] = c
    BY DEF ServedInv, ServedTypeOK
<1>4. Request(r)'
    BY <1>2, <1>3
<1>5. /\ DOMAIN bound' = Requests
      /\ \A q \in Requests \ {r} : bound'[q] = bound[q]
    BY DEF ServedInv, ServedTypeOK
<1>6. AskedGrows /\ QuestionsAreShown' /\ asked' \in Seq(Question)
    BY DEF AskedGrows, QuestionsAreShown, ServedInv, ServedTypeOK
<1> HIDE DEF c
<1> QED BY <1>1, <1>2, <1>3, <1>4, <1>5, <1>6, OneMoves

\* A request that was turned away has nothing left to show but its question.
LEMMA TurnedAway ==
    ASSUME ServedInv, NEW r \in Requests, UNCHANGED <<config, asked>>,
           call'[r].at \in {"rejected", "limited", "refused", "cancelled"},
           call'[r].state = call[r].state
    PROVE  Request(r)'
BY OneOf DEF Request, PassedAll, Scoped, Confirmed, AfterBoundary, AfterVerify, AfterBind,
             HasTool, WithActor

LEMMA ArriveKeeps ==
    ASSUME ServedInv, NEW r \in Requests, NEW o \in Offers, Arrive(r, o), ServedConstants
    PROVE  ServedInv'
<1> USE DEF Arrive
<1> DEFINE c == [at |-> IF Network THEN "boundary" ELSE "called", offer |-> o,
                 action |-> o.action, arguments |-> o.arguments, tool |-> None,
                 state |-> None, modern |-> o.modern, verified |-> 0]
<1>1. /\ c.at = (IF Network THEN "boundary" ELSE "called") /\ c.offer = o
      /\ c.state = None
    OBVIOUS
<1>2. c \in RequestState
    <2>1. (IF Network THEN "boundary" ELSE "called") \in Stages
        BY DEF Stages
    <2>2. /\ o.action \in {x.action : x \in Offers}
          /\ o.arguments \in {x.arguments : x \in Offers}
          /\ o.modern \in {x.modern : x \in Offers}
        OBVIOUS
    <2>3. 0 \in 0..MaxServedTime
        BY DEF ServedConstants
    <2> QED BY <2>1, <2>2, <2>3 DEF RequestState
<1>3. call' = [call EXCEPT ![r] = c]
    OBVIOUS
<1> HIDE DEF c
<1>4. call'[r] = c
    BY <1>3 DEF ServedInv, ServedTypeOK
<1>5. Network' = Network
    BY ConfigStays
<1>6. Request(r)'
    BY <1>1, <1>4, <1>5 DEF Request, PassedAll, Scoped, Confirmed, AfterBoundary, AfterVerify,
                            AfterBind, HasTool, WithActor
<1>7. AskedGrows /\ QuestionsAreShown' /\ asked' \in Seq(Question)
    BY DEF AskedGrows, QuestionsAreShown, ServedInv, ServedTypeOK
<1>8. /\ DOMAIN bound' = Requests
      /\ \A b \in DOMAIN bucket' : bucket'[b] \in 0..Burst
    BY DEF ServedInv, ServedTypeOK
<1>9. c.at # "idle" /\ c.offer \in Offers
    BY <1>1
<1> QED BY <1>2, <1>3, <1>6, <1>7, <1>8, <1>9, OneMoves

\* Each action keeps the invariant.
LEMMA BoundaryKeeps ==
    ASSUME ServedInv, NEW r \in Requests, Boundary(r)
    PROVE  ServedInv'
<1> USE DEF Boundary, Leave
<1>1. call[r] \in RequestState /\ \A b \in DOMAIN bucket' : bucket'[b] \in 0..Burst
    BY OneOf DEF ServedInv, ServedTypeOK
<1>2. PICK h \in {"auth", "rejected"} :
          /\ call' = [call EXCEPT ![r].at = h]
          /\ h = "auth" => Admitted(call[r].offer) /\ BodyFits(call[r].offer)
    BY Zenon
<1>3. call'[r] = [call[r] EXCEPT !.at = h]
    BY <1>2 DEF ServedInv, ServedTypeOK
<1>4. ASSUME call'[r].at = h, call'[r].offer = call[r].offer
      PROVE  Request(r)'
    <2>1. CASE h = "rejected"
        BY <1>1, <1>3, <1>4, <2>1, TurnedAway DEF RequestState
    <2>2. CASE h = "auth"
        <3>1. \A o : Admitted(o)' = Admitted(o)
            BY ConfigStays
        <3>2. call'[r].state = call[r].state /\ Confirmed(r)
            BY <1>1, <1>3, OneOf DEF RequestState
        <3>3. PassedAll(r)'
            BY <1>2, <1>4, <2>2, <3>1 DEF PassedAll, BodyFits, AfterBoundary, AfterVerify,
                                          AfterBind, HasTool
        <3>4. Scoped(r)' /\ Confirmed(r)'
            BY <1>4, <2>2, <3>2 DEF Scoped, Confirmed, WithActor, HasTool
        <3> QED BY <3>3, <3>4 DEF Request
    <2> QED BY <2>1, <2>2
<1>5. h \in Stages \ {"idle"}
    BY DEF Stages
<1> QED BY <1>1, <1>2, <1>4, <1>5, StageMoves

LEMMA VerifyKeeps ==
    ASSUME ServedInv, NEW r \in Requests, Verify(r), ServedConstants
    PROVE  ServedInv'
<1> DEFINE token == call[r].offer.token
<1>1. /\ call[r] \in RequestState /\ server = "serving" /\ call[r].offer \in Offers
      /\ PassedAll(r) /\ Confirmed(r) /\ servedNow \in 0..MaxServedTime
      /\ \A b \in DOMAIN bucket' : bucket'[b] \in 0..Burst
      /\ call[r].at = "auth" /\ UNCHANGED <<config, server, bound, asked, done, servedNow>>
    BY OneOf DEF ServedInv, ServedTypeOK, Verify
<1>2. CASE Provider /\ (token = None \/ ~Current(token))
    <2>1. call' = [call EXCEPT ![r].at = "rejected"]
        BY <1>2 DEF Verify
    <2>2. call'[r] = [call[r] EXCEPT !.at = "rejected"]
        BY <2>1 DEF ServedInv, ServedTypeOK
    <2>3. Request(r)'
        <3>1. call'[r].at = "rejected" /\ call'[r].state = call[r].state
            BY <1>1, <2>2 DEF RequestState
        <3>2. UNCHANGED <<config, asked>>
            BY <1>1
        <3> QED BY <3>1, <3>2, TurnedAway, Zenon
    <2>4. "rejected" \in Stages \ {"idle"}
        BY DEF Stages
    <2> QED BY <1>1, <2>1, <2>3, <2>4, StageMoves
<1>3. CASE ~(Provider /\ (token = None \/ ~Current(token)))
    <2> DEFINE c == [call[r] EXCEPT !.at = "verified", !.verified = servedNow]
    <2>1. call' = [call EXCEPT ![r] = c] /\ call'[r] = c
        BY <1>3 DEF ServedInv, ServedTypeOK, Verify
    <2>2. /\ c \in RequestState
          /\ c.at = "verified" /\ c.verified = servedNow
          /\ c.offer = call[r].offer /\ c.state = call[r].state
        BY <1>1 DEF RequestState, Stages
    <2> HIDE DEF c
    <2>3. /\ Network' = Network /\ Provider' = Provider
          /\ \A o : Admitted(o)' = Admitted(o)
        BY <1>1, ConfigStays
    <2>4. Provider => token # None /\ token.expires >= servedNow
        BY <1>3 DEF Current
    <2>5. PassedAll(r)'
        BY <1>1, <2>1, <2>2, <2>3, <2>4 DEF PassedAll, BodyFits, AfterBoundary, AfterVerify,
                                            AfterBind, HasTool
    <2>6. Scoped(r)' /\ Confirmed(r)'
        BY <1>1, <2>1, <2>2 DEF Scoped, Confirmed, WithActor, HasTool
    <2>7. AskedGrows /\ QuestionsAreShown' /\ asked' \in Seq(Question) /\ DOMAIN bound' = Requests
        BY <1>1 DEF AskedGrows, QuestionsAreShown, ServedInv, ServedTypeOK
    <2> QED BY <1>1, <2>1, <2>2, <2>5, <2>6, <2>7, OneMoves DEF Request
<1> QED BY <1>2, <1>3

LEMMA BindKeeps ==
    ASSUME ServedInv, NEW r \in Requests, Bind(r)
    PROVE  ServedInv'
<1> USE DEF Bind, Leave, Context
<1>1. /\ call[r] \in RequestState /\ server = "serving" /\ Startable
      /\ PassedAll(r) /\ Confirmed(r)
      /\ \A b \in DOMAIN bucket' : bucket'[b] \in 0..Burst
    BY OneOf DEF ServedInv, ServedTypeOK
<1>2. PICK h \in {"bound", "rejected"} :
          /\ call' = [call EXCEPT ![r].at = h]
          /\ bound' = IF h = "bound" THEN [bound EXCEPT ![r] = Own(r)] ELSE bound
          /\ h = "bound" /\ Profile => ProfileAdmits(call[r].offer.token)
    BY DEF Own
<1>3. call'[r] = [call[r] EXCEPT !.at = h]
    BY <1>2 DEF ServedInv, ServedTypeOK
<1>4. ASSUME call'[r].at = h, call'[r].offer = call[r].offer
      PROVE  Request(r)'
    <2>1. CASE h = "rejected"
        BY <1>1, <1>3, <1>4, <2>1, TurnedAway DEF RequestState
    <2>2. CASE h = "bound"
        <3>1. /\ Network' = Network /\ Provider' = Provider /\ Profile' = Profile
              /\ \A o : Admitted(o)' = Admitted(o)
            BY ConfigStays
        <3>2. Own(r)' = Own(r) /\ bound'[r] = Own(r)
            BY <1>2, <1>4, <2>2, OwnStays DEF ServedInv, ServedTypeOK
        <3>3. call'[r].state = call[r].state /\ call'[r].verified = call[r].verified
            BY <1>1, <1>3 DEF RequestState
        <3>4. call[r].at = "verified" \/ ~Network
            BY <1>1 DEF PassedAll
        <3>5. PassedAll(r)'
            BY <1>1, <1>2, <1>4, <2>2, <3>1, <3>3, <3>4
               DEF PassedAll, BodyFits, ProfileAdmits, AfterBoundary, AfterVerify, AfterBind
        <3>6. Scoped(r)' /\ Confirmed(r)'
            BY <1>1, <1>4, <2>2, <3>2, <3>3 DEF Scoped, Confirmed, WithActor, HasTool
        <3> QED BY <3>5, <3>6 DEF Request
    <2> QED BY <2>1, <2>2
<1>5. h \in Stages \ {"idle"}
    BY DEF Stages
<1>6. bound' = bound \/ \E a : bound' = [bound EXCEPT ![r] = a]
    BY <1>2
<1> QED BY <1>1, <1>2, <1>4, <1>5, <1>6, StageMoves

--------------------------------------------------------------------------------
(* The actor of a bound request is its own *)

LEMMA ActorIsBound ==
    ASSUME ServedInv, ServedConstants, NEW r \in Requests, call[r].at \in WithActor
    PROVE  Actor(r) = Own(r)
<1>1. call[r].offer \in Offers /\ bound[r] = Own(r)
    BY OneOf DEF Scoped, WithActor
<1>2. Network /\ Provider => call[r].offer.token # None
    BY OneOf DEF PassedAll, WithActor, AfterVerify, AfterBind, HasTool
<1>3. Own(r) \in Actors
    BY <1>1, <1>2 DEF Own, RequestActor, Actors
<1>4. bound[r] # None
    BY <1>1, <1>3 DEF ServedConstants
<1> QED BY <1>1, <1>4 DEF Actor, Context

--------------------------------------------------------------------------------
(* Routing and the questions *)

LEMMA LimitKeeps ==
    ASSUME ServedInv, ServedConstants, NEW r \in Requests, Limit(r)
    PROVE  ServedInv'
<1>1. /\ call[r] \in RequestState /\ server = "serving" /\ call[r].at = "bound"
      /\ PassedAll(r) /\ Scoped(r) /\ Confirmed(r)
      /\ UNCHANGED <<config, server, asked, done, servedNow>>
    BY OneOf DEF Limit
<1>2. PICK h \in {"routed", "limited"} :
          /\ call' = [call EXCEPT ![r].at = h]
          /\ bound' = IF h = "routed" THEN bound ELSE [bound EXCEPT ![r] = None]
    BY Zenon DEF Limit, To, Ended, Context
<1>3. call'[r] = [call[r] EXCEPT !.at = h]
    BY <1>2 DEF ServedInv, ServedTypeOK
<1>4. \A b \in DOMAIN bucket' : bucket'[b] \in 0..Burst
    <2>1. \A b \in DOMAIN bucket : bucket[b] \in 0..Burst
        BY DEF ServedInv, ServedTypeOK
    <2>2. Left(Bucket(r)) \in 0..Burst
        BY <2>1 DEF Left, ServedConstants
    <2> QED BY <2>1, <2>2 DEF Limit, ServedConstants
<1>5. ASSUME call'[r].at = h, call'[r].offer = call[r].offer
      PROVE  Request(r)'
    <2>1. CASE h = "limited"
        BY <1>1, <1>3, <1>5, <2>1, TurnedAway DEF RequestState
    <2>2. CASE h = "routed"
        <3>1. /\ Network' = Network /\ Provider' = Provider /\ Profile' = Profile
              /\ \A o : Admitted(o)' = Admitted(o)
            BY <1>1, ConfigStays
        <3>2. Own(r)' = Own(r) /\ bound'[r] = bound[r]
            BY <1>1, <1>2, <1>5, <2>2, OwnStays
        <3>3. call'[r].state = call[r].state /\ call'[r].verified = call[r].verified
            BY <1>1, <1>3 DEF RequestState
        <3>4. PassedAll(r)'
            BY <1>1, <1>5, <2>2, <3>1, <3>3
               DEF PassedAll, BodyFits, ProfileAdmits, AfterBoundary, AfterVerify, AfterBind
        <3>5. Scoped(r)' /\ Confirmed(r)'
            BY <1>1, <1>5, <2>2, <3>2, <3>3 DEF Scoped, Confirmed, WithActor, HasTool
        <3> QED BY <3>4, <3>5 DEF Request
    <2> QED BY <2>1, <2>2
<1>6. h \in Stages \ {"idle"}
    BY DEF Stages
<1>7. bound' = bound \/ \E a : bound' = [bound EXCEPT ![r] = a]
    BY <1>2
<1> QED BY <1>1, <1>2, <1>4, <1>5, <1>6, <1>7, StageMoves

LEMMA RouteKeeps ==
    ASSUME ServedInv, ServedConstants, NEW r \in Requests, Route(r)
    PROVE  ServedInv'
<1>1. /\ call[r] \in RequestState /\ server = "serving" /\ call[r].at = "routed"
      /\ PassedAll(r) /\ Scoped(r) /\ Confirmed(r) /\ call[r].offer \in Offers
      /\ UNCHANGED <<config, server, bucket, asked, done, servedNow>>
      /\ \A b \in DOMAIN bucket' : bucket'[b] \in 0..Burst
    BY OneOf DEF Route, ServedInv, ServedTypeOK
<1>2. Actor(r) = Own(r)
    BY <1>1, ActorIsBound DEF WithActor
<1>3. CASE To(r, "refused")
    <2>1. call' = [call EXCEPT ![r].at = "refused"] /\ bound' = [bound EXCEPT ![r] = None]
        BY <1>3 DEF To, Ended, Context
    <2>2. call'[r] = [call[r] EXCEPT !.at = "refused"]
        BY <2>1 DEF ServedInv, ServedTypeOK
    <2>3. call'[r].at = "refused" /\ call'[r].state = call[r].state
        BY <1>1, <2>2 DEF RequestState
    <2>4. Request(r)'
        BY <1>1, <2>3, TurnedAway
    <2>5. "refused" \in Stages \ {"idle"}
        BY DEF Stages
    <2> QED BY <1>1, <2>1, <2>4, <2>5, StageMoves
<1>4. ASSUME NEW t \in Resolve(call[r].action), Permitted(r, t),
             Reaches(Actor(r), t.resource), UNCHANGED bound,
             call' = [call EXCEPT ![r].tool = t,
                          ![r].at = IF Destructive(r, t) THEN "confirm" ELSE "go"]
      PROVE  ServedInv'
    <2> DEFINE h == IF Destructive(r, t) THEN "confirm" ELSE "go"
               c == [call[r] EXCEPT !.tool = t, !.at = h]
    <2>1. t \in Tools
        BY <1>4 DEF Resolve, Named
    <2>2. call' = [call EXCEPT ![r] = c] /\ call'[r] = c
        BY <1>4 DEF ServedInv, ServedTypeOK
    <2>3. h \in {"confirm", "go"} /\ h \in Stages /\ (h = "go" => ~Destructive(r, t))
        BY DEF Stages
    <2> HIDE DEF h
    <2>4. /\ c \in RequestState
          /\ c.at = h /\ c.tool = t /\ c.offer = call[r].offer
          /\ c.state = call[r].state /\ c.verified = call[r].verified
        BY <1>1, <2>1, <2>3 DEF RequestState
    <2> HIDE DEF c
    <2>5. /\ Network' = Network /\ Provider' = Provider /\ Profile' = Profile
          /\ \A o : Admitted(o)' = Admitted(o)
        BY <1>1, ConfigStays
    <2>6. Own(r)' = Own(r) /\ bound'[r] = bound[r]
        BY <1>1, <1>4, <2>2, <2>4, OwnStays
    <2>7. Permits(Policy, t)
        BY <1>4, <2>1, RequestsOnlyNarrow DEF Permitted
    <2>8. PassedAll(r)'
        BY <1>1, <2>2, <2>3, <2>4, <2>5
           DEF PassedAll, BodyFits, ProfileAdmits, AfterBoundary, AfterVerify, AfterBind,
               HasTool
    <2>9. Scoped(r)'
        BY <1>1, <1>2, <1>4, <2>1, <2>2, <2>3, <2>4, <2>6, <2>7
           DEF Scoped, WithActor, HasTool, Reaches
    <2>10. Confirmed(r)'
        BY <1>1, <2>2, <2>3, <2>4 DEF Confirmed, Destructive
    <2>11. /\ AskedGrows /\ QuestionsAreShown' /\ asked' \in Seq(Question)
           /\ DOMAIN bound' = Requests /\ \A q \in Requests \ {r} : bound'[q] = bound[q]
        BY <1>1, <1>4 DEF AskedGrows, QuestionsAreShown, ServedInv, ServedTypeOK
    <2>12. Request(r)' /\ c.at # "idle" /\ c.offer \in Offers /\ call[r].at # "done"
        BY <1>1, <2>3, <2>4, <2>8, <2>9, <2>10 DEF Request
    <2> QED BY <1>1, <2>2, <2>4, <2>11, <2>12, OneMoves
<1> QED BY <1>3, <1>4 DEF Route

\* What a tool and its arguments make of a question.
LEMMA BindingIsChoice ==
    ASSUME ServedInv, NEW r \in Requests, call[r].at \in HasTool
    PROVE  Binding(r) \in Choice
<1>1. call[r] \in RequestState /\ call[r].tool \in Tools
    BY OneOf DEF Scoped
<1>2. /\ call[r].tool.name \in {t.name : t \in Tools}
      /\ call[r].arguments \in {o.arguments : o \in Offers} \cup Arguments \cup {None}
    BY <1>1 DEF RequestState
<1> QED BY <1>2 DEF Binding, Choice

LEMMA AskKeeps ==
    ASSUME ServedInv, ServedConstants, NEW r \in Requests, Ask(r)
    PROVE  ServedInv'
<1> DEFINE h == IF call[r].modern THEN "asked" ELSE "eliciting"
           c == [call[r] EXCEPT !.at = h, !.state = Len(asked) + 1]
           question == [of |-> Binding(r), answer |-> None, shown |-> Binding(r)]
<1>1. /\ call[r] \in RequestState /\ server = "serving" /\ call[r].at = "confirm"
      /\ PassedAll(r) /\ Scoped(r) /\ Confirmed(r) /\ call[r].offer \in Offers
      /\ UNCHANGED <<config, server, bucket, done, servedNow>>
      /\ \A b \in DOMAIN bucket' : bucket'[b] \in 0..Burst
      /\ asked \in Seq(Question) /\ QuestionsAreShown
    BY OneOf DEF Ask, ServedInv, ServedTypeOK
<1>2. asked' = Append(asked, question)
    BY DEF Ask, Binding
<1>3. question \in Question /\ question.of = Binding(r) /\ question.shown = Binding(r)
    <2>1. Binding(r) \in Choice
        BY <1>1, BindingIsChoice DEF HasTool
    <2> QED BY <2>1 DEF Question
<1> HIDE DEF question
<1>4. /\ asked' \in Seq(Question) /\ Len(asked') = Len(asked) + 1
      /\ asked'[Len(asked) + 1] = question
      /\ \A n \in DOMAIN asked : n \in DOMAIN asked' /\ asked'[n] = asked[n]
    BY <1>1, <1>2, <1>3
<1>5. AskedGrows /\ QuestionsAreShown'
    <2>1. AskedGrows
        BY <1>4 DEF AskedGrows
    <2>2. ASSUME NEW n \in DOMAIN asked'
          PROVE  asked'[n].of = asked'[n].shown
        <3>1. n \in DOMAIN asked \/ n = Len(asked) + 1
            BY <1>1, <1>4
        <3> QED BY <1>1, <1>3, <1>4, <3>1 DEF QuestionsAreShown
    <2> QED BY <2>1, <2>2 DEF QuestionsAreShown
<1>6. call' = [call EXCEPT ![r] = c] /\ call'[r] = c
    BY DEF Ask, ServedInv, ServedTypeOK
<1>7. h \in {"asked", "eliciting"} /\ h \in Stages /\ Len(asked) + 1 \in Nat
    BY <1>1 DEF Stages
<1>8. bound' = IF h = "asked" THEN [bound EXCEPT ![r] = None] ELSE bound
    BY DEF Ask, Context
<1> HIDE DEF h
<1>9. /\ c \in RequestState
      /\ c.at = h /\ c.tool = call[r].tool /\ c.offer = call[r].offer
      /\ c.arguments = call[r].arguments
      /\ c.state = Len(asked) + 1 /\ c.verified = call[r].verified
    BY <1>1, <1>7 DEF RequestState
<1> HIDE DEF c
<1>10. /\ Network' = Network /\ Provider' = Provider /\ Profile' = Profile
       /\ \A o : Admitted(o)' = Admitted(o)
    BY <1>1, ConfigStays
<1>11. Own(r)' = Own(r) /\ Binding(r)' = Binding(r)
    BY <1>1, <1>6, <1>9, OwnStays DEF Binding
<1>12. PassedAll(r)'
    BY <1>1, <1>6, <1>7, <1>9, <1>10
       DEF PassedAll, BodyFits, ProfileAdmits, AfterBoundary, AfterVerify, AfterBind, HasTool
<1>13. Scoped(r)'
    BY <1>1, <1>6, <1>7, <1>8, <1>9, <1>11 DEF Scoped, WithActor, HasTool, Reaches
<1>14. Confirmed(r)'
    <2>1. c.state # None /\ c.state \in DOMAIN asked'
        BY <1>1, <1>4, <1>7, <1>9 DEF ServedConstants
    <2>2. asked'[c.state].of = Binding(r)'
        BY <1>3, <1>4, <1>9, <1>11
    <2> QED BY <1>6, <1>7, <1>9, <2>1, <2>2 DEF Confirmed
<1>15. DOMAIN bound' = Requests /\ \A q \in Requests \ {r} : bound'[q] = bound[q]
    BY <1>8 DEF ServedInv, ServedTypeOK
<1>16. Request(r)' /\ c.at # "idle" /\ c.offer \in Offers /\ call[r].at # "done"
    BY <1>1, <1>7, <1>9, <1>12, <1>13, <1>14 DEF Request
<1> QED BY <1>1, <1>4, <1>5, <1>6, <1>9, <1>15, <1>16, OneMoves

\* A request that goes on with a confirmation, or is cancelled.
LEMMA GoesOnConfirmed ==
    ASSUME ServedInv, ServedConstants, NEW r \in Requests, NEW accepted \in BOOLEAN,
           call[r].at \in {"confirm", "eliciting"}, call[r].state # None,
           accepted => asked[call[r].state].answer = TRUE
                       /\ asked[call[r].state].of = Binding(r),
           To(r, IF accepted THEN "go" ELSE "cancelled"),
           UNCHANGED <<config, server, bucket, asked, done, servedNow>>
    PROVE  ServedInv'
<1> DEFINE h == IF accepted THEN "go" ELSE "cancelled"
<1>1. /\ call[r] \in RequestState /\ server = "serving"
      /\ PassedAll(r) /\ Scoped(r) /\ Confirmed(r)
      /\ \A b \in DOMAIN bucket' : bucket'[b] \in 0..Burst
      /\ QuestionsAreShown
    BY OneOf DEF ServedInv, ServedTypeOK
<1>2. /\ call' = [call EXCEPT ![r].at = h]
      /\ bound' = IF h = "go" THEN bound ELSE [bound EXCEPT ![r] = None]
    BY DEF To, Ended, Context
<1>3. h \in {"go", "cancelled"} /\ h \in Stages \ {"idle"} /\ (h = "go" => accepted)
    BY DEF Stages
<1> HIDE DEF h
<1>4. call'[r] = [call[r] EXCEPT !.at = h]
    BY <1>2 DEF ServedInv, ServedTypeOK
<1>5. ASSUME call'[r].at = h, call'[r].offer = call[r].offer
      PROVE  Request(r)'
    <2>1. CASE h = "cancelled"
        BY <1>1, <1>4, <1>5, <2>1, TurnedAway DEF RequestState
    <2>2. CASE h = "go"
        <3>1. /\ Network' = Network /\ Provider' = Provider /\ Profile' = Profile
              /\ \A o : Admitted(o)' = Admitted(o)
            BY ConfigStays
        <3>2. /\ call'[r].state = call[r].state /\ call'[r].verified = call[r].verified
              /\ call'[r].tool = call[r].tool /\ call'[r].arguments = call[r].arguments
            BY <1>1, <1>4 DEF RequestState
        <3>3. Own(r)' = Own(r) /\ Binding(r)' = Binding(r) /\ bound' = bound
            BY <1>2, <1>5, <2>2, <3>2, OwnStays DEF Binding
        <3>4. PassedAll(r)'
            BY <1>1, <1>5, <2>2, <3>1, <3>2
               DEF PassedAll, BodyFits, ProfileAdmits, AfterBoundary, AfterVerify, AfterBind,
                   HasTool
        <3>5. Scoped(r)'
            BY <1>1, <1>5, <2>2, <3>2, <3>3 DEF Scoped, WithActor, HasTool, Reaches
        <3>6. AcceptedFor(r)'
            BY <1>1, <1>3, <2>2, <3>3 DEF AcceptedFor, Confirmed, QuestionsAreShown
        <3>7. Confirmed(r)'
            BY <1>1, <1>5, <2>2, <3>2, <3>6 DEF Confirmed
        <3> QED BY <3>4, <3>5, <3>7 DEF Request
    <2> QED BY <1>3, <2>1, <2>2
<1>6. bound' = bound \/ \E a : bound' = [bound EXCEPT ![r] = a]
    BY <1>2
<1> QED BY <1>1, <1>2, <1>3, <1>5, <1>6, StageMoves

LEMMA ElicitedKeeps ==
    ASSUME ServedInv, ServedConstants, NEW r \in Requests, Elicited(r)
    PROVE  ServedInv'
<1>1. call[r].at = "eliciting" /\ Confirmed(r)
    BY OneOf DEF Elicited
<1>2. call[r].state # None /\ asked[call[r].state].of = Binding(r)
    BY <1>1 DEF Confirmed
<1> DEFINE accepted == asked[call[r].state].answer = TRUE
<1>3. /\ To(r, IF accepted THEN "go" ELSE "cancelled") /\ accepted \in BOOLEAN
      /\ UNCHANGED <<config, server, bucket, asked, done, servedNow>>
    BY DEF Elicited
<1> QED BY <1>1, <1>2, <1>3, GoesOnConfirmed

LEMMA ConfirmKeeps ==
    ASSUME ServedInv, ServedConstants, NEW r \in Requests, Confirm(r)
    PROVE  ServedInv'
<1> DEFINE accepted == asked[call[r].state].of = Binding(r) /\ asked[call[r].state].answer = TRUE
<1>1. /\ To(r, IF accepted THEN "go" ELSE "cancelled") /\ accepted \in BOOLEAN
      /\ call[r].at = "confirm" /\ call[r].state # None
      /\ UNCHANGED <<config, server, bucket, asked, done, servedNow>>
    BY DEF Confirm
<1> QED BY <1>1, GoesOnConfirmed

LEMMA RetryKeeps ==
    ASSUME ServedInv, NEW p \in Requests, NEW r \in Requests, NEW a \in Arguments,
           Retry(p, r, a)
    PROVE  ServedInv'
<1> DEFINE c == [call[r] EXCEPT !.state = call[p].state, !.arguments = a]
<1>1. /\ call[r] \in RequestState /\ call[p] \in RequestState /\ server = "serving"
      /\ call[p].at = "asked" /\ call[r].at = "confirm" /\ call[r].offer \in Offers
      /\ PassedAll(r) /\ Scoped(r) /\ Confirmed(p)
      /\ UNCHANGED <<config, server, bound, bucket, asked, done, servedNow>>
      /\ \A b \in DOMAIN bucket' : bucket'[b] \in 0..Burst
    BY OneOf DEF Retry, ServedInv, ServedTypeOK
<1>2. call' = [call EXCEPT ![r] = c] /\ call'[r] = c
    BY DEF Retry, ServedInv, ServedTypeOK
<1>3. /\ c \in RequestState
      /\ c.at = "confirm" /\ c.tool = call[r].tool /\ c.offer = call[r].offer
      /\ c.state = call[p].state /\ c.verified = call[r].verified
    BY <1>1 DEF RequestState
<1> HIDE DEF c
<1>4. /\ Network' = Network /\ Provider' = Provider /\ Profile' = Profile
      /\ \A o : Admitted(o)' = Admitted(o)
    BY <1>1, ConfigStays
<1>5. Own(r)' = Own(r)
    BY <1>1, <1>2, <1>3, OwnStays
<1>6. PassedAll(r)'
    BY <1>1, <1>2, <1>3, <1>4
       DEF PassedAll, BodyFits, ProfileAdmits, AfterBoundary, AfterVerify, AfterBind, HasTool
<1>7. Scoped(r)'
    BY <1>1, <1>2, <1>3, <1>5 DEF Scoped, WithActor, HasTool, Reaches
<1>8. Confirmed(r)'
    BY <1>1, <1>2, <1>3 DEF Confirmed
<1>9. /\ AskedGrows /\ QuestionsAreShown' /\ asked' \in Seq(Question)
      /\ DOMAIN bound' = Requests /\ \A q \in Requests \ {r} : bound'[q] = bound[q]
    BY <1>1 DEF AskedGrows, QuestionsAreShown, ServedInv, ServedTypeOK
<1>10. Request(r)' /\ c.at # "idle" /\ c.offer \in Offers /\ call[r].at # "done"
    BY <1>1, <1>3, <1>6, <1>7, <1>8 DEF Request
<1> QED BY <1>1, <1>2, <1>3, <1>9, <1>10, OneMoves

LEMMA InvokeKeeps ==
    ASSUME ServedInv, ServedConstants, NEW r \in Requests, Invoke(r)
    PROVE  ServedInv'
<1>1. /\ call[r] \in RequestState /\ server = "serving" /\ call[r].at = "go"
      /\ PassedAll(r) /\ Scoped(r) /\ Confirmed(r)
      /\ UNCHANGED <<config, server, bucket, asked, servedNow>>
      /\ \A b \in DOMAIN bucket' : bucket'[b] \in 0..Burst
      /\ done' = done \cup {[request |-> r, actor |-> Actor(r)]}
    BY OneOf DEF Invoke, ServedInv, ServedTypeOK
<1>2. Actor(r) = Own(r)
    BY <1>1, ActorIsBound DEF WithActor
<1>3. call' = [call EXCEPT ![r].at = "done"] /\ bound' = [bound EXCEPT ![r] = None]
    BY DEF Invoke, To, Ended, Context
<1>4. call'[r] = [call[r] EXCEPT !.at = "done"]
    BY <1>3 DEF ServedInv, ServedTypeOK
<1>5. /\ call'[r].state = call[r].state /\ call'[r].verified = call[r].verified
      /\ call'[r].tool = call[r].tool /\ call'[r].arguments = call[r].arguments
      /\ call'[r].at = "done" /\ call'[r].offer = call[r].offer
    BY <1>1, <1>4 DEF RequestState
<1>6. Own(r)' = Own(r) /\ Binding(r)' = Binding(r)
    BY <1>1, <1>5, OwnStays DEF Binding
<1>7. Request(r)'
    <2>1. /\ Network' = Network /\ Provider' = Provider /\ Profile' = Profile
          /\ \A o : Admitted(o)' = Admitted(o)
        BY <1>1, ConfigStays
    <2>2. PassedAll(r)'
        BY <1>1, <1>5, <2>1
           DEF PassedAll, BodyFits, ProfileAdmits, AfterBoundary, AfterVerify, AfterBind,
               HasTool
    <2>3. Scoped(r)'
        BY <1>1, <1>5, <1>6 DEF Scoped, WithActor, HasTool, Reaches
    <2>4. AcceptedFor(r) => AcceptedFor(r)'
        BY <1>1, <1>6 DEF AcceptedFor
    <2>5. Confirmed(r)'
        BY <1>1, <1>5, <1>6, <2>4 DEF Confirmed, Destructive
    <2> QED BY <2>2, <2>3, <2>5 DEF Request
<1>8. \A d \in done' : d \in done \/ (d.request = r /\ d.actor = Own(r)')
    BY <1>1, <1>2, <1>6
<1>9. "done" \in Stages \ {"idle"}
    BY DEF Stages
<1>10. \E a : bound' = [bound EXCEPT ![r] = a]
    BY <1>3
<1> QED BY <1>1, <1>3, <1>7, <1>8, <1>9, <1>10, StageMoves

\* Steps that no request makes.
LEMMA ElseKeeps ==
    ASSUME ServedInv, ServedConstants, UNCHANGED <<config, call, bound, bucket, done>>,
           (Start /\ UNCHANGED servedNow) \/ ServedTick
           \/ (\E n \in DOMAIN asked, accepted \in BOOLEAN : Answer(n, accepted))
           \/ UNCHANGED servedVars
    PROVE  ServedInv'
<1>1. AskedGrows /\ QuestionsAreShown' /\ asked' \in Seq(Question)
    <2>1. CASE UNCHANGED asked
        BY <2>1 DEF AskedGrows, QuestionsAreShown, ServedInv, ServedTypeOK
    <2>2. ASSUME NEW n \in DOMAIN asked, NEW accepted \in BOOLEAN, Answer(n, accepted)
          PROVE  AskedGrows /\ QuestionsAreShown' /\ asked' \in Seq(Question)
        <3> DEFINE question == [asked[n] EXCEPT !.answer = accepted]
        <3>1. asked \in Seq(Question) /\ asked[n] \in Question /\ asked[n].answer = None
            BY <2>2 DEF ServedInv, ServedTypeOK, Answer
        <3>2. /\ question \in Question
              /\ question.of = asked[n].of /\ question.shown = asked[n].shown
            BY <3>1 DEF Question
        <3>3. asked' = [asked EXCEPT ![n] = question]
            BY <2>2 DEF Answer
        <3> HIDE DEF question
        <3>4. asked' \in Seq(Question) /\ DOMAIN asked' = DOMAIN asked
            BY <3>1, <3>2, <3>3
        <3>5. AskedGrows
            BY <3>1, <3>2, <3>3 DEF AskedGrows, ServedConstants
        <3>6. QuestionsAreShown'
            BY <3>1, <3>2, <3>3, <3>4 DEF QuestionsAreShown, ServedInv
        <3> QED BY <3>4, <3>5, <3>6
    <2> QED BY <2>1, <2>2 DEF Start, ServedTick, servedVars
<1>2. ServedTypeOK'
    BY <1>1 DEF ServedInv, ServedTypeOK, Start, ServedTick, Answer, servedVars, ServedConstants
<1>3. ServedByRight'
    <2>1. Startable' = Startable
        BY ConfigStays
    <2>2. CASE Start
        <3>1. server = "new" /\ (server' = "serving" => Startable)
            BY <2>2 DEF Start, Startable
        <3> QED BY <2>1, <3>1 DEF ServedInv, ServedByRight
    <2>3. CASE UNCHANGED server
        BY <2>1, <2>3 DEF ServedInv, ServedByRight
    <2> QED BY <2>2, <2>3 DEF ServedTick, Answer, servedVars
<1>4. ASSUME NEW q \in Requests
      PROVE  Request(q)'
    BY <1>1, OneOf, OthersStay DEF Request
<1>5. DoneAreOwn'
    <2>1. \A r \in Requests : Own(r)' = Own(r)
        BY OwnStays
    <2> QED BY <2>1 DEF ServedInv, DoneAreOwn
<1> QED BY <1>1, <1>2, <1>3, <1>4, <1>5 DEF ServedInv, Request

--------------------------------------------------------------------------------
(* What a served call passed *)

LEMMA ServedStart ==
    ASSUME ServedConstants, ServedInit
    PROVE  ServedInv
<1> USE DEF ServedInit
<1>1. Idle \in RequestState
    BY DEF Idle, RequestState, Stages, ServedConstants
<1>2. Idle.at = "idle" /\ Idle.state = None
    BY DEF Idle
<1>3. ServedTypeOK
    BY <1>1 DEF ServedTypeOK, ServedConstants
<1>4. \A r \in Requests : call[r].at = "idle" /\ call[r].state = None
    BY <1>2
<1>5. \A r \in Requests : PassedAll(r) /\ Scoped(r) /\ Confirmed(r)
    BY <1>4 DEF PassedAll, Scoped, Confirmed, AfterBoundary, AfterVerify, AfterBind, HasTool,
                WithActor
<1>6. ServedByRight /\ QuestionsAreShown /\ DoneAreOwn
    BY <1>4 DEF ServedByRight, QuestionsAreShown, DoneAreOwn
<1> QED BY <1>3, <1>5, <1>6 DEF ServedInv

LEMMA ServedStep ==
    ASSUME ServedConstants, ServedInv, [ServedNext]_servedVars
    PROVE  ServedInv'
<1>1. ASSUME NEW r \in Requests, NEW o \in Offers, Arrive(r, o)  PROVE ServedInv'
    BY <1>1, ArriveKeeps
<1>2. ASSUME NEW r \in Requests, Boundary(r)  PROVE ServedInv'
    BY <1>2, BoundaryKeeps
<1>3. ASSUME NEW r \in Requests, Verify(r)  PROVE ServedInv'
    BY <1>3, VerifyKeeps
<1>4. ASSUME NEW r \in Requests, Bind(r)  PROVE ServedInv'
    BY <1>4, BindKeeps
<1>5. ASSUME NEW r \in Requests, Limit(r)  PROVE ServedInv'
    BY <1>5, LimitKeeps
<1>6. ASSUME NEW r \in Requests, Route(r)  PROVE ServedInv'
    BY <1>6, RouteKeeps
<1>7. ASSUME NEW r \in Requests, Ask(r)  PROVE ServedInv'
    BY <1>7, AskKeeps
<1>8. ASSUME NEW r \in Requests, Elicited(r)  PROVE ServedInv'
    BY <1>8, ElicitedKeeps
<1>9. ASSUME NEW r \in Requests, Confirm(r)  PROVE ServedInv'
    BY <1>9, ConfirmKeeps
<1>10. ASSUME NEW r \in Requests, Invoke(r)  PROVE ServedInv'
    BY <1>10, InvokeKeeps
<1>11. ASSUME NEW p \in Requests, NEW r \in Requests, NEW a \in Arguments, Retry(p, r, a)
       PROVE ServedInv'
    BY <1>11, RetryKeeps
<1>12. ASSUME Start \/ ServedTick
              \/ (\E n \in DOMAIN asked, accepted \in BOOLEAN : Answer(n, accepted))
              \/ UNCHANGED servedVars
       PROVE ServedInv'
    <2>1. UNCHANGED <<config, call, bound, bucket, done>>
        BY <1>12 DEF Start, ServedTick, Answer, servedVars
    <2>2. Start => UNCHANGED servedNow
        BY DEF Start
    <2> QED BY <1>12, <2>1, <2>2, ElseKeeps
<1> QED BY <1>1, <1>2, <1>3, <1>4, <1>5, <1>6, <1>7, <1>8, <1>9, <1>10, <1>11, <1>12
        DEF ServedNext

LEMMA ServedAlways ==
    ASSUME ServedConstants
    PROVE  ServedSpec => []ServedInv
BY ServedStart, ServedStep, PTL DEF ServedSpec

LEMMA AdmittedFollows ==
    ASSUME ServedInv
    PROVE  CallsAreAdmitted
<1> SUFFICES ASSUME NEW d \in done
             PROVE  LET c == call[d.request]
                        token == c.offer.token
                    IN  /\ Permits(Policy, c.tool)
                        /\ Network => c.offer.host \in Hosts /\ Sum(c.offer.body) <= MaxBytes
                        /\ Network /\ ~config.override /\ config.auth # "none" =>
                             /\ token.expires >= c.verified /\ token.tenant # None
                             /\ Required \subseteq token.scopes
                             /\ config.loopback \/ TlsPresent
    BY DEF CallsAreAdmitted
<1> DEFINE r == d.request
<1>1. r \in Requests /\ call[r].at = "done"
    BY DEF ServedInv, DoneAreOwn
<1>2. PassedAll(r) /\ Scoped(r) /\ Startable
    BY <1>1, OneOf
<1>3. Permits(Policy, call[r].tool)
    BY <1>1, <1>2 DEF Scoped, HasTool
<1>4. Network => Admitted(call[r].offer) /\ BodyFits(call[r].offer)
    BY <1>1, <1>2 DEF PassedAll, AfterBoundary, AfterVerify, AfterBind, HasTool
<1>5. ASSUME Network, ~config.override, config.auth # "none"
      PROVE  /\ Provider /\ ProfileAdmits(call[r].offer.token)
             /\ call[r].offer.token.expires >= call[r].verified
             /\ config.loopback \/ TlsPresent
    <2>1. Profile /\ Provider
        BY <1>2, <1>5 DEF Profile, Startable, ProfileValid
    <2>2. config.loopback \/ TlsPresent
        BY <1>2, <1>5 DEF Startable, ListenerValid, Exposable
    <2> QED BY <1>1, <1>2, <1>5, <2>1, <2>2
            DEF PassedAll, AfterVerify, AfterBind, HasTool
<1> QED BY <1>3, <1>4, <1>5 DEF Admitted, BodyFits, ProfileAdmits

LEMMA OwnFollows ==
    ASSUME ServedInv, ServedConstants
    PROVE  ActorIsOwn
<1> SUFFICES ASSUME NEW d \in done
             PROVE  /\ d.actor = RequestActor(d.request, config.auth = "none")
                    /\ d.actor.type = "system" => ~Network \/ config.auth = "none"
                    /\ call[d.request].tool.resource \in
                         EntitledResources(d.actor.caps, {t.resource : t \in Tools})
    BY DEF ActorIsOwn
<1> DEFINE r == d.request
<1>1. r \in Requests /\ call[r].at = "done" /\ d.actor = Own(r)
    BY DEF ServedInv, DoneAreOwn
<1>2. /\ call[r].tool \in Tools /\ Reaches(Own(r), call[r].tool.resource)
    BY <1>1, OneOf DEF Scoped, HasTool
<1>3. Own(r).type = "system" => ~Network \/ config.auth = "none"
    BY DEF Own, RequestActor, System, Anonymous, TokenActor
<1>4. call[r].tool.resource \in {t.resource : t \in Tools}
    BY <1>2
<1>5. call[r].tool.resource \in EntitledResources(Own(r).caps, {t.resource : t \in Tools})
    BY <1>2, <1>4 DEF Reaches, Entitled, EntitledResources
<1> QED BY <1>1, <1>3, <1>5 DEF Own

LEMMA ConfirmedFollows ==
    ASSUME ServedInv
    PROVE  DestructiveIsConfirmed
<1> SUFFICES ASSUME NEW d \in done,
                    LET t == call[d.request].tool
                    IN  IF t.marked # None THEN t.marked ELSE t.delete \/ t.token
             PROVE  \E n \in DOMAIN asked :
                        /\ asked[n].answer = TRUE
                        /\ asked[n].shown = [tool |-> call[d.request].tool.name,
                                             arguments |-> call[d.request].arguments]
    BY DEF DestructiveIsConfirmed
<1> DEFINE r == d.request
<1>1. r \in Requests /\ call[r].at = "done" /\ Confirmed(r)
    BY OneOf DEF ServedInv, DoneAreOwn
<1>2. Destructive(r, call[r].tool)
    BY DEF Destructive
<1>3. AcceptedFor(r)
    BY <1>1, <1>2 DEF Confirmed
<1> QED BY <1>3 DEF AcceptedFor, Binding

\* A client method runs over a network only for what the listener, the verifier and the
\* profile of a server that may serve let through, and never for a tool that the
\* server's policy hides, whatever the filters of the request (create_mcp_server).
THEOREM ServedIsAdmitted ==
    ASSUME ServedConstants
    PROVE  ServedSpec => []CallsAreAdmitted
BY ServedAlways, AdmittedFollows, PTL

\* A client method runs under the actor that its own request carries, and reaches only
\* what that actor is entitled to, however requests overlap (ActorBindingMiddleware).
THEOREM ServedForItsActor ==
    ASSUME ServedConstants
    PROVE  ServedSpec => []ActorIsOwn
BY ServedAlways, OwnFollows, PTL

\* A destructive call runs only after its user accepted that action with those arguments
\* (ctx_confirm_destructive), whatever the client sends with its second round.
THEOREM ServedIsConfirmed ==
    ASSUME ServedConstants
    PROVE  ServedSpec => []DestructiveIsConfirmed
BY ServedAlways, ConfirmedFollows, PTL

--------------------------------------------------------------------------------
(* Progress *)

ProgressConstants == Amounts \subseteq Nat /\ None \notin Nat

Summaries == [number : Nat, completed : Amounts, total : Amounts \cup {None}]

\* What the reporter remembers is the last summary, under the total since given.
ProgressInv ==
    /\ sent \in Seq(Summaries)
    /\ last \in [number : Nat, completed : Amounts \cup {None}, total : Amounts \cup {None}]
    /\ last.number = Len(sent)
    /\ Len(sent) = 0 => last.completed = None /\ last.total = None
    /\ Len(sent) > 0 => last.completed = sent[Len(sent)].completed
    /\ last.completed # None /\ last.total # None => last.completed <= last.total
    /\ \A n \in DOMAIN sent : sent[n].total \in {None, last.total}
    /\ ProgressGrows

LEMMA UpdateKeeps ==
    ASSUME ProgressConstants, ProgressInv, NEW t \in Tasks, NEW completed \in Amounts,
           NEW total \in Amounts \cup {None}, Update(t, completed, total)
    PROVE  ProgressInv'
<1> DEFINE n == Len(sent) + 1
<1>1. /\ completed \in Nat /\ (total # None => total \in Nat /\ completed <= total)
      /\ last.total # None => total = last.total
      /\ last.completed # None => last.completed \in Nat /\ completed >= last.completed
      /\ Len(sent) \in Nat /\ DOMAIN sent = 1..Len(sent)
      /\ \A m \in DOMAIN sent : sent[m] \in Summaries
    BY DEF ProgressConstants, ProgressInv, Update, Acceptable
<1>2. CASE completed = last.completed
    <2>1. last' = [last EXCEPT !.total = total] /\ sent' = sent
        BY <1>2 DEF Update
    <2>2. /\ last'.number = last.number /\ last'.completed = last.completed
          /\ last'.total = total
          /\ last' \in [number : Nat, completed : Amounts \cup {None},
                        total : Amounts \cup {None}]
        BY <2>1 DEF ProgressInv
    <2>3. last.completed # None
        BY <1>1, <1>2 DEF ProgressConstants
    <2> QED BY <1>1, <1>2, <2>1, <2>2, <2>3 DEF ProgressInv, ProgressGrows
<1>3. CASE completed # last.completed
    <2> DEFINE s == [number |-> last.number + 1, completed |-> completed, total |-> total]
    <2>1. last' = s /\ sent' = Append(sent, s)
        BY <1>3 DEF Update
    <2>2. /\ s \in Summaries
          /\ s.number = n /\ s.completed = completed /\ s.total = total
        BY DEF ProgressInv, Summaries
    <2> HIDE DEF s
    <2>3. /\ sent' \in Seq(Summaries) /\ Len(sent') = n /\ DOMAIN sent' = 1..n
          /\ sent'[n] = s /\ \A m \in 1..Len(sent) : sent'[m] = sent[m]
        BY <1>1, <2>1, <2>2 DEF ProgressInv
    <2>4. \A m \in 1..Len(sent) : sent[m].total \in {None, total}
        BY <1>1 DEF ProgressInv
    <2>5. Len(sent) > 0 => sent[Len(sent)].completed \in Nat /\ completed > sent[Len(sent)].completed
        <3>1. ASSUME Len(sent) > 0
              PROVE  Len(sent) \in DOMAIN sent /\ last.completed = sent[Len(sent)].completed
            BY <1>1, <3>1 DEF ProgressInv
        <3>2. ASSUME Len(sent) > 0
              PROVE  last.completed \in Amounts
            BY <1>1, <3>1, <3>2 DEF Summaries
        <3>3. ASSUME Len(sent) > 0
              PROVE  last.completed \in Nat /\ completed > last.completed
            <4>1. last.completed \in Nat /\ last.completed # None
                BY <3>2, <3>3 DEF ProgressConstants
            <4>2. completed \in Nat /\ completed >= last.completed
                BY <1>1, <4>1
            <4> QED BY <1>3, <4>1, <4>2
        <3> QED BY <3>1, <3>3
    <2>6. ASSUME NEW k \in DOMAIN sent'
          PROVE  /\ sent'[k].number = k
                 /\ k > 1 => sent'[k].completed > sent'[k - 1].completed
                 /\ \A m \in 1..(k - 1) : sent'[m].total \in {None, sent'[k].total}
                 /\ sent'[k].total # None => sent'[k].completed <= sent'[k].total
        <3>1. CASE k = n
            BY <1>1, <2>2, <2>3, <2>4, <2>5, <3>1
        <3>2. CASE k \in 1..Len(sent)
            <4>1. /\ sent'[k] = sent[k] /\ (k > 1 => sent'[k - 1] = sent[k - 1])
                  /\ \A m \in 1..(k - 1) : sent'[m] = sent[m]
                BY <1>1, <2>3, <3>2
            <4> QED BY <1>1, <3>2, <4>1 DEF ProgressInv, ProgressGrows
        <3> QED BY <1>1, <2>3, <3>1, <3>2
    <2>7. ProgressGrows'
        BY <2>6 DEF ProgressGrows
    <2>8. \A m \in DOMAIN sent' : sent'[m].total \in {None, last'.total}
        BY <1>1, <2>1, <2>2, <2>3, <2>4
    <2>9. last' \in [number : Nat, completed : Amounts \cup {None}, total : Amounts \cup {None}]
        BY <2>1, <2>2 DEF Summaries
    <2> QED BY <1>1, <2>1, <2>2, <2>3, <2>7, <2>8, <2>9 DEF ProgressInv
<1> QED BY <1>2, <1>3

LEMMA ProgressAlways ==
    ASSUME ProgressConstants
    PROVE  ScopeSpec => []ProgressInv
<1>1. ScopeInit => ProgressInv
    <2> SUFFICES ASSUME ScopeInit  PROVE ProgressInv
        OBVIOUS
    <2>1. /\ sent = <<>> /\ last.number = 0 /\ last.completed = None /\ last.total = None
          /\ last \in [number : Nat, completed : Amounts \cup {None},
                       total : Amounts \cup {None}]
        BY DEF ScopeInit
    <2> QED BY <2>1 DEF ProgressInv, ProgressGrows
<1>2. ProgressInv /\ [ScopeNext]_scopeVars => ProgressInv'
    <2> SUFFICES ASSUME ProgressInv, [ScopeNext]_scopeVars  PROVE ProgressInv'
        OBVIOUS
    <2>1. ASSUME NEW t \in Tasks, NEW completed \in Amounts, NEW total \in Amounts \cup {None},
                 Update(t, completed, total)
          PROVE  ProgressInv'
        BY <2>1, UpdateKeeps
    <2>2. ASSUME UNCHANGED <<last, sent>>
          PROVE  ProgressInv'
        BY <2>2 DEF ProgressInv, ProgressGrows
    <2>3. ASSUME ~(\E t \in Tasks, completed \in Amounts, total \in Amounts \cup {None} :
                     Update(t, completed, total))
          PROVE  UNCHANGED <<last, sent>>
        BY <2>3 DEF ScopeNext, Get, BeginPut, Close, Finish, EndPut, Sent, ScopeTick, scopeVars
    <2> QED BY <2>1, <2>2, <2>3
<1> QED BY <1>1, <1>2, PTL DEF ScopeSpec

\* The client is shown progress that grows, numbered without a gap and under one total,
\* whichever tasks report (OrderedProgress.update).
THEOREM ProgressHolds ==
    ASSUME ProgressConstants
    PROVE  ScopeSpec => []ProgressGrows
<1>1. ProgressInv => ProgressGrows
    BY DEF ProgressInv
<1> QED BY <1>1, ProgressAlways, PTL

\* Once the progress is finished, no summary follows.
THEOREM NothingAfterFinish ==
    ScopeSpec => [][EndedStep]_scopeVars
<1>1. [ScopeNext]_scopeVars => [EndedStep]_scopeVars
    BY DEF ScopeNext, Get, BeginPut, Close, Finish, EndPut, Sent, ScopeTick, scopeVars, Update,
           Acceptable, EndedStep
<1> QED BY <1>1, PTL DEF ScopeSpec

--------------------------------------------------------------------------------
(* The lease *)

\* lease_ttl_seconds is never below MIN_LEASE_TTL_SECONDS, which is 60.
LeaseConstants == LeaseTtl \in Nat /\ LeaseTtl >= 3 /\ MaxLeaseTime \in Nat

\* The next heartbeat is never overdue, and while at most one failed it comes before the
\* lease ends: two intervals are less than the lease.
LeaseInv ==
    /\ leaseNow \in Nat /\ lease \in Nat /\ missed \in Nat /\ beat \in Nat \cup {None}
    /\ leaseNow <= MaxLeaseTime
    /\ beat # None => leaseNow <= beat
    /\ lease > 0 /\ beat # None /\ missed = 0 => beat + LeaseTtl = lease + Interval
    /\ lease > 0 /\ beat # None /\ missed = 1 => beat + LeaseTtl = lease + 2 * Interval

LEMMA IntervalIsShort ==
    ASSUME LeaseConstants
    PROVE  Interval \in Nat /\ Interval > 0 /\ 2 * Interval < LeaseTtl
BY DEF LeaseConstants, Interval

LEMMA LeaseAlways ==
    ASSUME LeaseConstants, None \notin Nat
    PROVE  LeaseSpec => []LeaseInv
<1>1. LeaseInit => LeaseInv
    BY DEF LeaseInit, LeaseInv, LeaseConstants
<1>2. LeaseInv /\ [LeaseNext]_leaseVars => LeaseInv'
    <2> SUFFICES ASSUME LeaseInv, [LeaseNext]_leaseVars
                 PROVE  LeaseInv'
        OBVIOUS
    <2> USE IntervalIsShort DEF LeaseInv, LeaseConstants
    <2> HIDE DEF Interval
    <2>1. CASE Heartbeat
        BY <2>1 DEF Heartbeat
    <2>2. CASE Stop
        BY <2>2 DEF Stop
    <2>3. CASE LeaseTick
        BY <2>3 DEF LeaseTick
    <2>4. CASE UNCHANGED leaseVars
        BY <2>4 DEF leaseVars
    <2> QED BY <2>1, <2>2, <2>3, <2>4 DEF LeaseNext
<1> QED BY <1>1, <1>2, PTL DEF LeaseSpec

\* A server that runs stays registered through one heartbeat that fails
\* (maintain_registration), for every lease of three seconds or more.
THEOREM RegistrationLasts ==
    ASSUME LeaseConstants, None \notin Nat
    PROVE  LeaseSpec => []LeaseLasts
<1>1. LeaseInv => LeaseLasts
    BY IntervalIsShort DEF LeaseInv, LeaseLasts, LeaseConstants
<1> QED BY <1>1, LeaseAlways, PTL
================================================================================
