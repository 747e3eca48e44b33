--------------------------- MODULE PluginApiRouter ---------------------------
(***************************************************************************)
(* The routes a plugin registers for its own API                           *)
(* (internal/server/plugin_api_router.go).  The registrars run one after   *)
(* the other when the router is built; each may register any path, with or *)
(* without its outer slashes, also one that another has registered.  A     *)
(* path is known by whether it starts with a slash, by what is left of it  *)
(* without its outer slashes, and by how many it ends with; the empty path *)
(* and "/" have the base Root.  Paths with two slashes in a row are left   *)
(* out: gin cleans them, so for it they are not routes of their own.       *)
(***************************************************************************)
EXTENDS Naturals

CONSTANTS
  Methods,
  Bases,     \* what paths are left with without their outer slashes
  Root,      \* the base of "" and "/"
  Handlers,
  None

ASSUME RouterAssumption == Root \in Bases /\ None \notin Handlers

VARIABLES
  serves,  \* serves[<<m, p>>]: the handler registered for it, or None
  given    \* given[<<m, p>>]: how often gin was given this route

routerVars == <<serves, given>>

Paths == [rooted : BOOLEAN, base : Bases, slashes : 0..1]

Path(b, s) == [rooted |-> TRUE, base |-> b, slashes |-> s]

(* The paths the table may hold. *)
RootedPaths == {Path(b, s) : b \in Bases, s \in 0..1}

Keys == Methods \X RootedPaths

Registered(m, p) == serves[<<m, p>>] # None

-----------------------------------------------------------------------------
(* normalizePluginAPIPath *)
Normalized(p) == Path(p.base, p.slashes)

Alternates_AddOnly(p) ==
  IF p.base = Root \/ p.slashes = 1 THEN {} ELSE {Path(p.base, 1)}

(* alternatePluginAPIPath: none for "/", and for any other path the one    *)
(* without its slash at the end or with one.                               *)
Alternates(p) == IF p.base = Root THEN {} ELSE {Path(p.base, 1 - p.slashes)}

NewRoutes_All(m, p) == {Normalized(p)} \cup Alternates(Normalized(p))

(* handle leaves out what is registered. *)
NewRoutes(m, p) ==
  {q \in {Normalized(p)} \cup Alternates(Normalized(p)) : ~Registered(m, q)}

(* Handle: the path as given, and its alternate. *)
Handle(m, p, h) ==
  LET new == {m} \X NewRoutes(m, p)
  IN  /\ serves' = [k \in Keys |-> IF k \in new THEN h ELSE serves[k]]
      /\ given' = [k \in Keys |-> IF k \in new THEN given[k] + 1 ELSE given[k]]

RouterInit ==
  /\ serves = [k \in Keys |-> None]
  /\ given = [k \in Keys |-> 0]

(* "" and "/" do not end in a slash of their own. *)
Written(p) == p.base = Root => p.slashes = 0

RouterNext ==
  \E m \in Methods, p \in {q \in Paths : Written(q)}, h \in Handlers :
    Handle(m, p, h)

RouterSpec == RouterInit /\ [][RouterNext]_routerVars

-----------------------------------------------------------------------------
(* Properties                                                              *)

(* gin panics when it is given a route twice: no sequence of registrations *)
(* does, however they spell the path.                                      *)
NoDuplicateRoute == \A k \in Keys : given[k] <= 1

(* A request is served by the same handler with and without a slash at its *)
(* end, however the registrations of its path spelled it.                  *)
TwinsAgree ==
  \A m \in Methods, b \in Bases \ {Root} :
    serves[<<m, Path(b, 0)>>] = serves[<<m, Path(b, 1)>>]

(* The first registration of a route stays: a later one that spells the    *)
(* path in another way does not take it over.                              *)
FirstRegistrationStays ==
  [][\A m \in Methods, p \in RootedPaths :
       Registered(m, p) => serves'[<<m, p>>] = serves[<<m, p>>]]_routerVars
=============================================================================
