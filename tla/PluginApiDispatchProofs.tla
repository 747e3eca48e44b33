----------------------- MODULE PluginApiDispatchProofs -----------------------
(***************************************************************************)
(* The route table of the plugin API, for every set of methods, paths and  *)
(* handlers and every sequence of registrations, and the dispatches put    *)
(* through it, for every set of requests, scope rules and users.           *)
(***************************************************************************)
EXTENDS PluginApiDispatch, TLAPS

(* gin was given exactly the routes the table holds, each once. *)
RouterInv ==
  /\ serves \in [Keys -> Handlers \cup {None}]
  /\ given \in [Keys -> 0..1]
  /\ \A k \in Keys : given[k] = 1 <=> serves[k] # None

(* What Handle adds are routes that were free. *)
LEMMA NewRoutesAreFree ==
  ASSUME NEW m \in Methods, NEW p \in Paths
  PROVE  \A k \in {m} \X NewRoutes(m, p) : k \in Keys /\ serves[k] = None
<1>1. {Normalized(p)} \cup Alternates(Normalized(p)) \subseteq RootedPaths
  BY RouterAssumption
     DEF Normalized, Alternates, Path, Paths, RootedPaths
<1>2. ASSUME NEW q \in NewRoutes(m, p)
      PROVE  <<m, q>> \in Keys /\ serves[<<m, q>>] = None
  BY <1>1, <1>2 DEF NewRoutes, Registered, Keys
<1>. QED BY <1>2

(* What a registration does to the table. *)
LEMMA HandleEffect ==
  ASSUME RouterInv, NEW m \in Methods, NEW p \in Paths, NEW h \in Handlers,
         Handle(m, p, h)
  PROVE  /\ RouterInv'
         /\ \A k \in Keys : serves[k] # None => serves'[k] = serves[k]
         /\ \A k \in Keys : serves'[k] = IF k \in {m} \X NewRoutes(m, p)
                                         THEN h ELSE serves[k]
<1>. DEFINE new == {m} \X NewRoutes(m, p)
<1>1. /\ serves' = [k \in Keys |-> IF k \in new THEN h ELSE serves[k]]
      /\ given' = [k \in Keys |-> IF k \in new THEN given[k] + 1 ELSE given[k]]
  BY DEF Handle
<1>2. \A k \in new : k \in Keys /\ serves[k] = None /\ given[k] = 0
  BY NewRoutesAreFree DEF RouterInv
<1>. HIDE DEF new
<1>3. serves' \in [Keys -> Handlers \cup {None}]
  BY <1>1 DEF RouterInv
<1>4. given' \in [Keys -> 0..1]
  BY <1>1, <1>2 DEF RouterInv
<1>5. \A k \in Keys : given'[k] = 1 <=> serves'[k] # None
  BY <1>1, <1>2, RouterAssumption DEF RouterInv
<1>6. \A k \in Keys : serves[k] # None => serves'[k] = serves[k]
  BY <1>1, <1>2
<1>7. \A k \in Keys : serves'[k] = IF k \in new THEN h ELSE serves[k]
  BY <1>1
<1>. QED BY <1>3, <1>4, <1>5, <1>6, <1>7 DEF RouterInv, new

(* ... whatever is registered. *)
LEMMA RouterStepInv == RouterInv /\ [RouterNext]_routerVars => RouterInv'
<1>1. RouterInv /\ RouterNext => RouterInv'
  BY HandleEffect DEF RouterNext
<1>2. RouterInv /\ UNCHANGED routerVars => RouterInv'
  BY DEF routerVars, RouterInv
<1>. QED BY <1>1, <1>2

(* The table and what gin was given agree, after any registrations.        *)
THEOREM RouterInvariant == RouterSpec => []RouterInv
<1>1. RouterInit => RouterInv
  BY RouterAssumption DEF RouterInit, RouterInv
<1>. QED BY <1>1, RouterStepInv, PTL DEF RouterSpec

(* gin is given no route twice, and so does not panic. *)
THEOREM RoutesAreGivenOnce == RouterSpec => []NoDuplicateRoute
<1>1. RouterInv => NoDuplicateRoute
  BY DEF RouterInv, NoDuplicateRoute
<1>. QED BY <1>1, RouterInvariant, PTL

(* No registration takes over the route of an earlier one. *)
THEOREM RoutesAreKept == RouterSpec => FirstRegistrationStays
<1>1. RouterInv /\ [RouterNext]_routerVars =>
        [\A m \in Methods, p \in RootedPaths :
           Registered(m, p) => serves'[<<m, p>>] = serves[<<m, p>>]]_routerVars
  BY HandleEffect DEF RouterNext, Registered, Keys
<1>. QED BY <1>1, RouterInvariant, PTL DEF RouterSpec, FirstRegistrationStays

(* A registration adds a path with and without a slash at its end, or      *)
(* leaves both alone.                                                      *)
LEMMA TwinsStep == RouterInv /\ TwinsAgree /\ [RouterNext]_routerVars => TwinsAgree'
<1>1. ASSUME RouterInv, TwinsAgree,
             NEW m \in Methods, NEW p \in Paths, NEW h \in Handlers,
             Handle(m, p, h),
             NEW n \in Methods, NEW b \in Bases \ {Root}
      PROVE  serves'[<<n, Path(b, 0)>>] = serves'[<<n, Path(b, 1)>>]
  <2>1. \A s \in 0..1 : <<n, Path(b, s)>> \in Keys
    BY DEF RootedPaths, Keys
  <2>2. \A k \in Keys : serves'[k] = IF k \in {m} \X NewRoutes(m, p)
                                     THEN h ELSE serves[k]
    BY <1>1, HandleEffect
  <2>3. serves[<<n, Path(b, 0)>>] = serves[<<n, Path(b, 1)>>]
    BY <1>1 DEF TwinsAgree
  <2>4. CASE n # m \/ p.base # b
    <3>1. \A s \in 0..1 : <<n, Path(b, s)>> \notin {m} \X NewRoutes(m, p)
      BY <2>4 DEF NewRoutes, Normalized, Alternates, Path
    <3>. QED BY <2>1, <2>2, <2>3, <3>1
  <2>5. CASE n = m /\ p.base = b
    <3>1. {Normalized(p)} \cup Alternates(Normalized(p))
            = {Path(b, 0), Path(b, 1)}
      <4>1. p.slashes \in 0..1
        BY DEF Paths
      <4>2. CASE p.slashes = 1
        BY <2>5, <4>2 DEF Normalized, Alternates, Path
      <4>3. CASE p.slashes = 0
        BY <2>5, <4>3 DEF Normalized, Alternates, Path
      <4>. QED BY <4>1, <4>2, <4>3
    <3>2. \A s \in 0..1 : <<m, Path(b, s)>> \in {m} \X NewRoutes(m, p)
                              <=> serves[<<m, Path(b, s)>>] = None
      BY <3>1 DEF NewRoutes, Registered
    <3>. QED BY <2>1, <2>2, <2>3, <2>5, <3>2
  <2>. QED BY <2>4, <2>5
<1>2. CASE UNCHANGED routerVars
  BY <1>2 DEF routerVars, TwinsAgree
<1>. QED BY <1>1, <1>2 DEF RouterNext, TwinsAgree

(* With and without a slash at its end, a path is served by one handler.   *)
THEOREM TwinsAreServedAlike == RouterSpec => []TwinsAgree
<1>1. RouterInit => TwinsAgree
  BY DEF RouterInit, TwinsAgree, Keys, RootedPaths
<1>. QED BY <1>1, TwinsStep, RouterInvariant, PTL DEF RouterSpec

-----------------------------------------------------------------------------
(* Dispatches.                                                             *)

DispatchInv ==
  /\ RouterInv
  /\ TwinsAgree
  /\ ReachesItsHandler
  /\ HandlerIsGivenItsInput

(* The request put through the router comes from the app that called, and  *)
(* is let in as that one was: naming a user changes no other header.       *)
LEMMA ForwardedHeaders ==
  ASSUME NEW q \in Requests
  PROVE  /\ AllowRequest(Forwarded(q)) <=> AllowRequest(q.headers)
         /\ CallerApp(Forwarded(q)) = CallerApp(q.headers)
         /\ Operator(Forwarded(q)) = IF q.username # Blank THEN q.username
                                     ELSE Operator(q.headers)
<1>1. DOMAIN q.headers = HeaderNames
  BY RequestsAssumption
<1>2. \A f \in HeaderNames \ {"operator"} : Forwarded(q)[f] = q.headers[f]
  BY <1>1 DEF Forwarded
<1>3. CallerApp(Forwarded(q)) = CallerApp(q.headers)
  BY <1>2 DEF CallerApp, HeaderNames
<1>4. AllowRequest(Forwarded(q)) <=> AllowRequest(q.headers)
  BY <1>2, <1>3 DEF AllowRequest, HeaderNames
<1>5. CASE q.username = Blank
  BY <1>3, <1>4, <1>5 DEF Forwarded
<1>6. CASE q.username # Blank
  <2>1. Forwarded(q).operator = q.username
    BY <1>1, <1>6 DEF Forwarded, HeaderNames
  <2>. QED BY <1>3, <1>4, <1>6, <2>1 DEF Operator, FirstHeader
<1>. QED BY <1>5, <1>6

(* A path that may be registered is found if its plain form is, and is     *)
(* never answered with a redirect.                                         *)
LEMMA FoundIs ==
  ASSUME TwinsAgree, NEW m \in Methods, NEW p \in RootedPaths, Written(p)
  PROVE  LET h == serves[<<m, Path(p.base, 0)>>]
         IN  /\ serves[<<m, p>>] = h
             /\ Found(m, p) = IF h # None THEN "handler" ELSE "notFound"
<1>1. PICK b \in Bases, s \in 0..1 : p = Path(b, s)
  BY DEF RootedPaths
<1>2. p.base = b /\ p.slashes = s
  BY <1>1 DEF Path
<1>3. b = Root => s = 0
  BY <1>2 DEF Written
<1>4. b # Root => serves[<<m, Path(b, 0)>>] = serves[<<m, Path(b, 1)>>]
  BY DEF TwinsAgree
<1>5. serves[<<m, p>>] = serves[<<m, Path(b, 0)>>]
  BY <1>1, <1>3, <1>4
<1>6. b # Root => serves[<<m, Twin(p)>>] = serves[<<m, Path(b, 0)>>]
  <2>1. Twin(p) = Path(b, 0) \/ Twin(p) = Path(b, 1)
    BY <1>2 DEF Twin
  <2>. QED BY <1>4, <2>1
<1>. QED BY <1>2, <1>5, <1>6 DEF Found, Registered

(* What the request put through the router carries. *)
LEMMA CarriedInput ==
  ASSUME NEW q, ~Malformed(q)
  PROVE  LET r     == HTTPRequest(q)
             input == IF q.method = Get THEN r.query ELSE r.body
         IN  /\ \A f \in q.dumped : input[f] = "dumped"
             /\ \A f \in q.data \ q.dumped : input[f] = "data"
             /\ \A f \in q.query \ (IF q.method = Get THEN q.data \cup q.dumped
                                    ELSE {}) : r.query[f] = "query"
<1> DEFINE data == MergedData(q)
<1>1. /\ DOMAIN data = q.data \cup q.dumped
      /\ \A f \in q.dumped : data[f] = "dumped"
      /\ \A f \in q.data \ q.dumped : data[f] = "data"
  BY DEF MergedData
<1>2. DOMAIN Query(q) = q.query /\ \A f \in q.query : Query(q)[f] = "query"
  BY DEF Query
<1> HIDE DEF data
<1>3. CASE q.method = Get
  <2>1. HTTPRequest(q).query = Over(data, Query(q))
    BY <1>3 DEF HTTPRequest, data
  <2>. QED BY <1>1, <1>2, <1>3, <2>1 DEF Over
<1>4. CASE q.method # Get
  <2>1. q.method = Post
    BY <1>4 DEF Malformed
  <2>2. HTTPRequest(q).query = Query(q)
    BY <1>4 DEF HTTPRequest
  <2>3. HTTPRequest(q).body = IF q.files THEN MultipartBody(q) ELSE data
    BY <1>4, <2>1, DispatchAssumption DEF HTTPRequest, data
  <2>4. \A f \in DOMAIN data : MultipartBody(q)[f] = data[f]
    BY DEF MultipartBody, data
  <2>. QED BY <1>1, <1>2, <1>4, <2>2, <2>3, <2>4
<1>. QED BY <1>3, <1>4

(* One dispatch. *)
LEMMA DispatchKeeps ==
  ASSUME DispatchInv, NEW q \in Requests, NEW response \in {"ok", "error"},
         Dispatch(q, response)
  PROVE  ReachesItsHandler' /\ HandlerIsGivenItsInput'
<1> DEFINE h == serves[<<q.method, Path(q.path.base, 0)>>]
           r == HTTPRequest(q)
           inner == Serve(r, response)
<1>1. UNCHANGED routerVars /\ UNCHANGED serves
  BY DEF Dispatch, routerVars
<1>2. CASE ~AllowRequest(q.headers) \/ Malformed(q)
  <2>1. /\ call'.request = q /\ call'.reached = None
        /\ call'.answer[1] = "own"
    BY <1>2 DEF Dispatch
  <2>. QED BY <1>1, <1>2, <2>1 DEF ReachesItsHandler, HandlerIsGivenItsInput
<1>3. CASE AllowRequest(q.headers) /\ ~Malformed(q)
  <2>1. call' = [request |-> q,
                 answer  |-> Answer(inner),
                 reached |-> IF inner # response THEN None
                             ELSE [by   |-> serves[<<r.method, r.path>>],
                                   sees |-> r]]
    BY <1>3 DEF Dispatch
  <2>2. /\ r.method = q.method /\ r.path = q.path /\ r.headers = Forwarded(q)
        /\ q.method \in Methods
    BY <1>3, DispatchAssumption DEF HTTPRequest, Malformed
  <2>3. /\ serves[<<q.method, q.path>>] = h
        /\ Found(q.method, q.path) = IF h # None THEN "handler" ELSE "notFound"
    BY <2>2, RequestsAssumption, FoundIs DEF DispatchInv
  <2>4. inner = IF h # None THEN response ELSE "notFound"
    BY <1>3, <2>2, <2>3, ForwardedHeaders DEF Serve
  <2>5. CASE h = None
    <3>1. /\ call'.request = q /\ call'.reached = None
          /\ call'.answer = <<"wrapped", "notFound">>
      BY <2>1, <2>4, <2>5 DEF Answer
    <3>. QED BY <1>1, <2>5, <3>1 DEF ReachesItsHandler, HandlerIsGivenItsInput
  <2>6. CASE h # None
    <3>1. /\ call'.request = q
          /\ call'.reached = [by |-> h, sees |-> r]
      BY <2>1, <2>2, <2>3, <2>4, <2>6
    <3>2. h \in Handlers
      <4>1. <<q.method, Path(q.path.base, 0)>> \in Keys
        <5>1. q.path \in RootedPaths
          BY RequestsAssumption
        <5>2. q.path.base \in Bases
          BY <5>1 DEF RootedPaths, Path
        <5>3. Path(q.path.base, 0) \in RootedPaths
          BY <5>2 DEF RootedPaths
        <5>. QED BY <2>2, <5>3 DEF Keys
      <4>. QED BY <2>6, <4>1 DEF DispatchInv, RouterInv
    <3>3. call'.reached # None
      BY <1>3, <3>1, <3>2, ReachedAssumption
    <3> HIDE DEF h, r
    <3>4. h' = h
      BY <1>1 DEF h
    <3>5. ReachesItsHandler'
      BY <1>1, <1>3, <2>6, <3>1, <3>3 DEF ReachesItsHandler, h
    <3>6. HandlerIsGivenItsInput'
      BY <1>3, <2>2, <3>1, CarriedInput, ForwardedHeaders
         DEF HandlerIsGivenItsInput, r
    <3>. QED BY <3>5, <3>6
  <2>. QED BY <2>5, <2>6
<1>. QED BY <1>2, <1>3

(* What holds of the routes and of the dispatch in hand holds for good. *)
LEMMA DispatchInvariance == DispatchSpec => []DispatchInv
<1>1. DispatchInit => DispatchInv
  <2>. SUFFICES ASSUME DispatchInit PROVE DispatchInv
    OBVIOUS
  <2>1. RouterInv
    BY RouterAssumption DEF DispatchInit, RouterInit, RouterInv
  <2>2. TwinsAgree
    BY DEF DispatchInit, RouterInit, TwinsAgree, Keys, RootedPaths
  <2>. QED BY <2>1, <2>2 DEF DispatchInit, DispatchInv, ReachesItsHandler,
                       HandlerIsGivenItsInput
<1>2. DispatchInv /\ [DispatchNext]_dispatchVars => DispatchInv'
  <2>. SUFFICES ASSUME DispatchInv, [DispatchNext]_dispatchVars
                PROVE  DispatchInv'
    OBVIOUS
  <2>1. [RouterNext]_routerVars
    BY DEF DispatchNext, Register, Dispatch, Return, dispatchVars, routerVars
  <2>2. RouterInv' /\ TwinsAgree'
    BY <2>1, RouterStepInv, TwinsStep DEF DispatchInv
  <2>3. CASE Register \/ Return
    <3>1. CASE call = NoCall /\ UNCHANGED call
      BY <2>2, <3>1 DEF DispatchInv, ReachesItsHandler, HandlerIsGivenItsInput
    <3>2. CASE call' = NoCall
      BY <2>2, <3>2 DEF DispatchInv, ReachesItsHandler, HandlerIsGivenItsInput
    <3>. QED BY <2>3, <3>1, <3>2 DEF Register, Return
  <2>4. CASE \E q \in Requests, response \in {"ok", "error"} : Dispatch(q, response)
    BY <2>2, <2>4, DispatchKeeps DEF DispatchInv
  <2>5. CASE UNCHANGED dispatchVars
    <3>1. UNCHANGED serves /\ UNCHANGED call
      BY <2>5 DEF dispatchVars
    <3>2. ReachesItsHandler'
      BY <3>1 DEF DispatchInv, ReachesItsHandler
    <3>3. HandlerIsGivenItsInput'
      BY <3>1 DEF DispatchInv, HandlerIsGivenItsInput
    <3>. QED BY <2>2, <3>2, <3>3 DEF DispatchInv
  <2>. QED BY <2>3, <2>4, <2>5 DEF DispatchNext
<1>. QED BY <1>1, <1>2, PTL DEF DispatchSpec

(* A request that may be made and can be read reaches the handler of its   *)
(* path.                                                                   *)
THEOREM DispatchReachesHandlers == DispatchSpec => []ReachesItsHandler
<1>1. DispatchInv => ReachesItsHandler
  BY DEF DispatchInv
<1>. QED BY <1>1, DispatchInvariance, PTL

(* A handler finds the parameters where it looks and is told of the user.  *)
THEOREM HandlersAreGivenTheirInput == DispatchSpec => []HandlerIsGivenItsInput
<1>1. DispatchInv => HandlerIsGivenItsInput
  BY DEF DispatchInv
<1>. QED BY <1>1, DispatchInvariance, PTL
=============================================================================
