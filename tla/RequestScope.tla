----------------------------- MODULE RequestScope -----------------------------
(***************************************************************************)
(* Who calls, and whether the plugin lets the caller in                    *)
(* (internal/auth/scope.go).  A request is known by the values of the      *)
(* headers the package reads, Blank where one is missing or empty.         *)
(***************************************************************************)
CONSTANTS
  AllowScope,  \* hub's AllowScope: a rule for each app that is listed
  Blank

ASSUME ScopeAssumption ==
  \A app \in DOMAIN AllowScope : {"type", "values"} = DOMAIN AllowScope[app]

FirstHeader(first, second) == IF first # Blank THEN first ELSE second

CallerApp(headers) == FirstHeader(headers.appCode, headers.appCodeAlt)

Operator(headers) == FirstHeader(headers.operator, headers.operatorAlt)

(* AllowRequest: an app that is not listed is let in, and so is every app  *)
(* when none is listed.                                                    *)
AllowRequest(headers) ==
  CallerApp(headers) \in DOMAIN AllowScope =>
    LET rule == AllowScope[CallerApp(headers)]
    IN  headers.scopeType = rule.type /\ headers.scopeValue \in rule.values
=============================================================================
