------------------------- MODULE MCPluginApiDispatch -------------------------
(* A path and "/", spelled in every way and registered by two handlers;    *)
(* dispatches that vary the headers and the route, and dispatches that     *)
(* vary where the parameters are.                                          *)
EXTENDS PluginApiDispatch

CONSTANTS get, post, put, root, a, listed, other, alice, bob, biz, id,
          vendor, dumped_data

MCAllowScope == [app \in {listed} |-> [type |-> biz, values |-> {id}]]

Plain == [headers  |-> [appCode |-> listed, appCodeAlt |-> Blank,
                        operator |-> alice, operatorAlt |-> Blank,
                        scopeType |-> biz, scopeValue |-> id],
          prefixed |-> TRUE, method |-> post, path |-> Path(a, 0),
          username |-> Blank, query |-> {}, data |-> {}, dumped |-> {},
          files |-> FALSE]

MCHeaders == [appCode : {Blank, listed, other}, appCodeAlt : {Blank, listed},
              operator : {Blank, alice}, operatorAlt : {Blank, alice},
              scopeType : {Blank, biz}, scopeValue : {Blank, id}]

ByHeaders == {[Plain EXCEPT !.headers = h, !.username = u, !.path = p] :
                h \in MCHeaders, u \in {Blank, bob},
                p \in {Path(a, 1), Path(root, 0)}}

ByRoute == {[Plain EXCEPT !.prefixed = x, !.method = m, !.path = p] :
              x \in BOOLEAN, m \in {get, post, put},
              p \in {r \in RootedPaths : Written(r)}}

Texts == SUBSET Fields
ByInput == {[Plain EXCEPT !.method = m, !.query = q, !.data = d,
                          !.dumped = s, !.files = x] :
              m \in {get, post}, q \in Texts, d \in Texts \cup {NotJson},
              s \in Texts \cup {NotJson}, x \in BOOLEAN}

MCRequests == ByHeaders \cup ByRoute \cup ByInput
=============================================================================
