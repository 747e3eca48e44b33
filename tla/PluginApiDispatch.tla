-------------------------- MODULE PluginApiDispatch --------------------------
(***************************************************************************)
(* POST /bk_plugin/plugin_api_dispatch (internal/server/plugin_api.go):    *)
(* the body describes a request to the plugin's own API, which the handler *)
(* builds and puts through the same router (internal/server/router.go).    *)
(*                                                                         *)
(* A request carries parameters in three places: the query of the url, the *)
(* data, and the dumped_data, a JSON text that is merged into the data.    *)
(* Each is a set of field names; what matters of a value is where it was   *)
(* taken from.  Values are taken to be strings and numbers, which every    *)
(* encoding carries over.                                                  *)
(***************************************************************************)
EXTENDS PluginApiRouter, RequestScope

CONSTANTS
  Get, Post,  \* http.MethodGet, http.MethodPost
  Fields,     \* names of parameters
  DumpedData, \* the name "dumped_data"
  NotJson,    \* a text that is no JSON object
  Requests    \* the dispatch requests of a behaviour

ASSUME DispatchAssumption ==
  /\ {Get, Post} \subseteq Methods /\ Get # Post
  /\ DumpedData \in Fields

HeaderNames == {"appCode", "appCodeAlt", "operator", "operatorAlt",
                "scopeType", "scopeValue"}

ASSUME RequestsAssumption ==
  \A q \in Requests : /\ DOMAIN q.headers = HeaderNames
                      /\ q.path \in RootedPaths /\ Written(q.path)

VARIABLE call  \* a dispatch: its request, what it reached, its answer

dispatchVars == <<serves, given, call>>

NoCall == [answer |-> "none"]

-----------------------------------------------------------------------------
(* bindPluginAPIDispatchRequest, normalize and the checks of               *)
(* toHTTPRequest: what is refused.                                         *)
Malformed(q) ==
  \/ q.data = NotJson
  \/ ~q.prefixed
  \/ q.method \notin {Get, Post}
  \/ q.dumped = NotJson

MergedData_KeepData(q) ==
  [f \in q.data \cup q.dumped |-> IF f \in q.data THEN "data" ELSE "dumped"]

(* normalize: dumped_data is merged into data, over what is there.         *)
MergedData(q) ==
  [f \in q.data \cup q.dumped |-> IF f \in q.dumped THEN "dumped" ELSE "data"]

Forwarded_AltHeader(q) ==
  IF q.username = Blank THEN q.headers
  ELSE [q.headers EXCEPT !.operatorAlt = q.username]

(* The caller's headers, and the user the request names as operator.       *)
Forwarded(q) ==
  IF q.username = Blank THEN q.headers
  ELSE [q.headers EXCEPT !.operator = q.username]

(* multipartBody: beside the merged fields, the text they were merged from *)
(* under its own name.                                                     *)
MultipartBody(q) ==
  LET data == MergedData(q)
  IN  [f \in DOMAIN data \cup (IF q.dumped # {} THEN {DumpedData} ELSE {}) |->
         IF f \in DOMAIN data THEN data[f] ELSE "whole"]

Query(q) == [f \in q.query |-> "query"]

(* g over f: the fields of both, those of g as g has them.                 *)
Over(g, f) == [x \in DOMAIN g \cup DOMAIN f |->
                 IF x \in DOMAIN g THEN g[x] ELSE f[x]]

NoFields == [f \in {} |-> "none"]

(* toHTTPRequest: a GET carries the data in its query, a POST in its body. *)
HTTPRequest(q) ==
  [method  |-> q.method,
   path    |-> q.path,
   headers |-> Forwarded(q),
   query   |-> IF q.method = Get THEN Over(MergedData(q), Query(q))
               ELSE Query(q),
   body    |-> CASE q.method = Get -> NoFields
                 [] q.method = Post /\ q.files  -> MultipartBody(q)
                 [] q.method = Post /\ ~q.files -> MergedData(q)]

(* What a handler is given, told from no handler being reached. *)
ASSUME ReachedAssumption ==
  None \notin [by : Handlers,
               sees : {HTTPRequest(q) : q \in {x \in Requests : ~Malformed(x)}}]

-----------------------------------------------------------------------------
(* gin: the handler of the path; a redirect if only its twin with or       *)
(* without a slash at the end is registered.                               *)
Twin(p) == Path(p.base, 1 - p.slashes)

Found(m, p) ==
  CASE Registered(m, p) -> "handler"
    [] ~Registered(m, p) /\ p.base # Root /\ Registered(m, Twin(p)) -> "redirect"
    [] OTHER -> "notFound"

(* The request put through the router: RequireScope of the plugin API's    *)
(* group, then the handler, whose response may be an error.                *)
Serve(r, response) ==
  CASE ~AllowRequest(r.headers)                          -> "forbidden"
    [] AllowRequest(r.headers)
         /\ Found(r.method, r.path) # "handler"          -> Found(r.method, r.path)
    [] AllowRequest(r.headers)
         /\ Found(r.method, r.path) = "handler"          -> response

(* A status of 400 or more is answered again in the runtime's own form,    *)
(* any other response as it is.                                            *)
Answer(inner) == IF inner \in {"forbidden", "notFound", "error"}
                 THEN <<"wrapped", inner>> ELSE <<"passed", inner>>

(* RequireScope, then PluginAPIDispatch.  Dispatches share nothing but the *)
(* routes, which stay as they are: one is in hand at a time.               *)
Dispatch(q, response) ==
  /\ call = NoCall
  /\ call' =
       CASE ~AllowRequest(q.headers) ->
              [request |-> q, answer |-> <<"own", "forbidden">>, reached |-> None]
         [] AllowRequest(q.headers) /\ Malformed(q) ->
              [request |-> q, answer |-> <<"own", "badRequest">>, reached |-> None]
         [] AllowRequest(q.headers) /\ ~Malformed(q) ->
              LET r     == HTTPRequest(q)
                  inner == Serve(r, response)
              IN  [request |-> q,
                   answer  |-> Answer(inner),
                   reached |-> IF inner # response THEN None
                               ELSE [by   |-> serves[<<r.method, r.path>>],
                                     sees |-> r]]
  /\ UNCHANGED routerVars

Return == call # NoCall /\ call' = NoCall /\ UNCHANGED routerVars

(* The registrars run before the server starts; dispatches are let in at   *)
(* any point, so that every table is one some server starts with.          *)
Register == call = NoCall /\ RouterNext /\ UNCHANGED call

DispatchInit == RouterInit /\ call = NoCall

DispatchNext ==
  \/ Register
  \/ \E q \in Requests, response \in {"ok", "error"} : Dispatch(q, response)
  \/ Return

DispatchSpec == DispatchInit /\ [][DispatchNext]_dispatchVars

-----------------------------------------------------------------------------
(* Properties                                                              *)

(* A request that may be made and can be read reaches the handler that was *)
(* registered for its path, with or without a slash at its end, just as if *)
(* it had been sent to the plugin's API directly: it is not turned away by *)
(* the second scope check, nor answered with a redirect the caller of the  *)
(* dispatch could not follow (router.go:30-31, plugin_api.go:62-65).       *)
ReachesItsHandler ==
  call # NoCall =>
    LET q == call.request
        h == serves[<<q.method, Path(q.path.base, 0)>>]
    IN  IF AllowRequest(q.headers) /\ ~Malformed(q) /\ h # None
        THEN call.reached # None /\ call.reached.by = h
        ELSE call.reached = None /\ call.answer[1] # "passed"

(* What a handler finds where it looks, a GET in the query and a POST in   *)
(* the body, comes from the dumped data before the data, and the query of  *)
(* the url is kept beside it, where a GET has no data of that name; and it *)
(* is told of the user the request names, or else of the one who called    *)
(* (plugin_api.go:145-149, 160-165, 206-216).                              *)
HandlerIsGivenItsInput ==
  call # NoCall /\ call.reached # None =>
    LET q     == call.request
        r     == call.reached.sees
        input == IF q.method = Get THEN r.query ELSE r.body
    IN  /\ \A f \in q.dumped : input[f] = "dumped"
        /\ \A f \in q.data \ q.dumped : input[f] = "data"
        /\ \A f \in q.query \ (IF q.method = Get THEN q.data \cup q.dumped ELSE {}) :
             r.query[f] = "query"
        /\ Operator(r.headers) = IF q.username # Blank THEN q.username
                                 ELSE Operator(q.headers)
        /\ CallerApp(r.headers) = CallerApp(q.headers)
=============================================================================
