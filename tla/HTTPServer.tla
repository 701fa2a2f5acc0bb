----------------------------- MODULE HTTPServer -----------------------------
(***************************************************************************)
(* http.Server (src/lib/http/server.go, endpoint.go): RegisterEndpoint    *)
(* adds an Endpoint to the route list of its method; ServeHTTP dispatches *)
(* a request by method to the first route whose pattern matches the path, *)
(* to the in-memory file system, or answers OPTIONS and CORS itself.      *)
(*                                                                         *)
(* Paths and route patterns are model values; route.parse (route.go, not  *)
(* in this tree) is the constant relation Match, and the patterns its    *)
(* newRoute refuses are the constant set BadPatterns.  The Memfs is a table    *)
(* from paths to the kind of node Memfs.Get finds there, fixed per run.  An endpoint's Eval and   *)
(* an evaluator are abstracted to the paths they reject, and its          *)
(* ErrorHandler, user code, to the status it writes.                      *)
(* The response is abstracted to its status, Content-Type, whether        *)
(* Access-Control-Allow-Origin is set, the Allow methods, and which       *)
(* endpoint's Call produced it.                                            *)
(***************************************************************************)
EXTENDS Naturals, Sequences, FiniteSets

CONSTANTS
    Paths,         \* request paths and endpoint patterns (as strings)
    Match,         \* set of <<pattern, path>>: route.parse(path) succeeds
    BadPatterns,   \* patterns newRoute returns an error for
    ErrorStatuses, \* statuses an Endpoint's ErrorHandler may write
    MemfsStates,   \* possible Memfs contents: [Paths -> NodeKinds]
    IndexOf,       \* path.Join(p, "index.html"), or None outside Paths
    Endpoints,     \* endpoints callers register
    Evaluators,    \* evaluators callers register, each the set of paths it rejects
    Origins,       \* Origin header values clients send
    AllowOrigins,  \* ServerOptions.CORS.AllowOrigins
    Wildcard,      \* corsWildcard, "*"
    None,
    MaxRoutes,     \* bound: routes per method
    MaxEvals       \* bound: registered evaluators

ASSUME
    /\ Match \subseteq Paths \X Paths
    /\ BadPatterns \subseteq Paths
    /\ ErrorStatuses \subseteq Nat
    /\ IndexOf \in [Paths -> Paths \cup {None}]
    /\ Evaluators \subseteq SUBSET Paths
    /\ MaxRoutes \in Nat /\ MaxEvals \in Nat

(* RequestMethod values an Endpoint may carry ("" is the zero value).     *)
RegMethods == {"", "GET", "HEAD", "OPTIONS", "POST", "PUT", "PATCH",
               "DELETE", "CONNECT", "TRACE"}
(* The methods with a route list: routeDeletes, routeGets, ...             *)
RouteKinds == {"DELETE", "GET", "PATCH", "POST", "PUT"}
(* Request methods clients send.                                           *)
ReqMethods == {"GET", "HEAD", "OPTIONS", "POST", "PUT", "PATCH", "DELETE", "TRACE"}
(* handleCORS: the Access-Control-Request-Method values it accepts.        *)
CorsMethods == {"GET", "POST", "PUT", "PATCH", "DELETE"}
ResponseTypes == {"None", "Binary", "JSON", "Plain", "XML"}
(* What Memfs.Get(path) gives: ErrNotExist, another error, a directory, a *)
(* file whose content is in memory (node.V), or a file left on disk whose *)
(* ioutil.ReadFile(node.SysPath) succeeds or fails.  A nil Memfs is the   *)
(* table where every path is "absent": getFSNode returns nil either way.  *)
NodeKinds == {"absent", "error", "dir", "mem", "disk", "unreadable"}

ASSUME MemfsStates \subseteq [Paths -> NodeKinds]

ASSUME Endpoints \subseteq [method : RegMethods, path : Paths, call : BOOLEAN,
                            rejects : BOOLEAN, rtype : ResponseTypes,
                            estatus : ErrorStatuses]

(* An endpoint as stored in a route list: Method is one of the route kinds. *)
Routes == [method : RouteKinds, path : Paths, call : BOOLEAN,
           rejects : BOOLEAN, rtype : ResponseTypes, estatus : ErrorStatuses]

Requests == [method : ReqMethods, path : Paths, origin : Origins \cup {None}]

Responses == [status : {200, 204, 404, 500, 501} \cup ErrorStatuses,
              ctype : ResponseTypes \cup {"FS", None},
              acao : BOOLEAN, allow : SUBSET ReqMethods,
              by : Routes \cup {None}, node : Paths \cup {None}]

VARIABLES
    routes,    \* [kind -> sequence of registered endpoints]
    evals,     \* srv.evals: the registered evaluators, in order
    lastReg,   \* the last call if it was RegisterEndpoint, and its result
    lastReq,   \* the last call if it was a request to ServeHTTP
    lastRes,   \* and its response
    memfs      \* srv.Memfs: [path -> what Memfs.Get finds]

vars == <<routes, evals, lastReg, lastReq, lastRes, memfs>>

parse(ep, path) == <<ep.path, path>> \in Match

NoReg == [ep |-> None, err |-> "none"]
NoRes == [status |-> 404, ctype |-> None, acao |-> FALSE, allow |-> {}, by |-> None,
          node |-> None]

Init ==
    /\ routes = [k \in RouteKinds |-> <<>>]
    /\ evals = <<>>
    /\ lastReg = NoReg
    /\ lastReq = None
    /\ lastRes = NoRes
    /\ memfs \in MemfsStates

-----------------------------------------------------------------------------
(* Response pieces, one operator per handler.                              *)

(* The first route of list k whose pattern matches path, or None.          *)
FirstMatch(k, path) ==
    LET hits == {i \in 1..Len(routes[k]) : parse(routes[k][i], path)}
    IN  IF hits = {} THEN None
        ELSE routes[k][CHOOSE i \in hits : \A j \in hits : i <= j]

(* handleCORS: Access-Control-Allow-Origin is set when the Origin is sent  *)
(* and allowed by name or by the wildcard.                                 *)
handleCORS(req) ==
    /\ req.origin # None
    /\ \E o \in AllowOrigins : o = Wildcard \/ o = req.origin

(* Endpoint.call: the server's evaluators, Eval and Call, the first error *)
(* going to ep.ErrorHandler, which writes the endpoint's estatus; then the *)
(* response type.                                                          *)
call(ep, req, cors) ==
    LET rejected == \/ \E i \in 1..Len(evals) : req.path \in evals[i]
                    \/ ep.rejects
    IN  [status |-> IF rejected THEN ep.estatus
                    ELSE IF ep.rtype = "None" THEN 204 ELSE 200,
         ctype  |-> IF rejected \/ ep.rtype = "None" THEN None ELSE ep.rtype,
         acao   |-> cors, allow |-> {}, by |-> ep, node |-> None]

(* Memfs.Get: a path outside the modelled ones is not in the Memfs.      *)
Get(p) == IF p = None THEN "absent" ELSE memfs[p]

Found(p) == Get(p) \notin {"absent", "error"}

\* Mutant: getFSNode without the node.IsDir() step.
getFSNodeNoDirIndex(p) ==
    LET n == IF Get(p) = "absent" THEN IndexOf[p] ELSE p
    IN  IF Get(p) = "error" \/ ~Found(n) THEN None ELSE n

(* getFSNode: nil on an error other than ErrNotExist; on ErrNotExist it    *)
(* retries path/index.html; a directory found either way is replaced by    *)
(* its index.html, or nil.  The node returned is not checked again.        *)
getFSNode(p) ==
    LET n == IF Get(p) = "absent" THEN IndexOf[p] ELSE p
    IN  CASE Get(p) = "error" \/ ~Found(n) -> None
          [] Get(n) = "dir" -> IF Found(IndexOf[n]) THEN IndexOf[n] ELSE None
          [] OTHER          -> n

(* HandleFS: 404 without a node; Content-Type is set, then a node with no *)
(* content in memory is read from node.SysPath, and a failed read (a      *)
(* directory's SysPath fails too) answers 500; otherwise 200 with the     *)
(* node's type (HEAD gets the same header and no body).                   *)
HandleFS(req, cors) ==
    LET n == getFSNode(req.path) IN
    CASE n = None -> [NoRes EXCEPT !.acao = cors]
      [] Get(n) \in {"dir", "unreadable"} ->
             [NoRes EXCEPT !.status = 500, !.ctype = "FS", !.acao = cors, !.node = n]
      [] OTHER ->
             [NoRes EXCEPT !.status = 200, !.ctype = "FS", !.acao = cors, !.node = n]

(* handleDelete, handleGet, handlePatch, handlePost, handlePut: call the   *)
(* first matching route; otherwise 404, or HandleFS for GET.               *)
handleRoute(k, req, cors) ==
    LET ep == FirstMatch(k, req.path) IN
    IF ep # None THEN call(ep, req, cors)
    ELSE IF k = "GET" THEN HandleFS(req, cors)
    ELSE [NoRes EXCEPT !.acao = cors]

(* handleHead: the first matching GET route gives the status and          *)
(* Content-Type without calling the endpoint; otherwise HandleFS.          *)
handleHead(req, cors) ==
    LET ep == FirstMatch("GET", req.path) IN
    IF ep = None THEN HandleFS(req, cors)
    ELSE IF ep.rtype = "None" THEN [NoRes EXCEPT !.status = 204, !.acao = cors]
    ELSE [NoRes EXCEPT !.status = 200, !.acao = cors,
            !.ctype = IF ep.rtype \in {"Binary", "JSON", "Plain"} THEN ep.rtype ELSE None]

(* handleOptions: GET and HEAD when getFSNode finds a node for the path.   *)
OptionsHasFS(p) == getFSNode(p) # None

(* handleOptions: GET and HEAD if the file system has the path, each      *)
(* method with a matching route; 404 if none, else OPTIONS too, the Allow *)
(* header, and CORS.                                                       *)
handleOptions(req) ==
    LET methods == (IF OptionsHasFS(req.path) THEN {"GET", "HEAD"} ELSE {})
                   \cup {k \in RouteKinds : FirstMatch(k, req.path) # None}
    IN  IF methods = {} THEN NoRes
        ELSE [NoRes EXCEPT !.status = 200, !.allow = methods \cup {"OPTIONS"},
                           !.acao = handleCORS(req)]

(* ServeHTTP's switch on the request method.                               *)
ServeHTTPRes(req) ==
    CASE req.method = "DELETE"  -> handleRoute("DELETE", req, FALSE)
      [] req.method = "GET"     -> handleRoute("GET", req, handleCORS(req))
      [] req.method = "HEAD"    -> handleHead(req, handleCORS(req))
      [] req.method = "OPTIONS" -> handleOptions(req)
      [] req.method = "PATCH"   -> handleRoute("PATCH", req, FALSE)
      [] req.method = "POST"    -> handleRoute("POST", req, handleCORS(req))
      [] req.method = "PUT"     -> handleRoute("PUT", req, FALSE)
      [] OTHER                  -> [NoRes EXCEPT !.status = 501]

-----------------------------------------------------------------------------
(* Mutants: plausible bugs of the definitions below.                       *)

\* The default branch without "ep.Method = RequestMethodGet".
RegisteredNoDefault(ep, k) == ep

-----------------------------------------------------------------------------
(* register*: the list that is checked for a route matching ep.Path.       *)
RouteListChecked(k) == k

(* The methods RegisterEndpoint accepts and ignores: "return nil".       *)
NoEffect == {"HEAD", "OPTIONS"}

(* The route kind RegisterEndpoint's switch picks; the default is GET.     *)
RouteKind(m) == IF m \in RouteKinds THEN m ELSE "GET"

(* The endpoint as it is appended to list k: the default branch sets       *)
(* ep.Method = GET before registerGet.                                     *)
Registered(ep, k) == [ep EXCEPT !.method = k]

(* RegisterEndpoint: an error for an empty Call, CONNECT and TRACE; no     *)
(* effect for HEAD and OPTIONS; otherwise register* rejects a path some   *)
(* route of that method already matches, newRoute may fail on the       *)
(* pattern, and else the endpoint is appended (with Method set to GET by  *)
(* default).                                                               *)
RegisterEndpoint(ep) ==
    LET k   == RouteKind(ep.method)
        amb == \E i \in 1..Len(routes[RouteListChecked(k)]) :
                   parse(routes[RouteListChecked(k)][i], ep.path)
        err == CASE ~ep.call                         -> "emptyCall"
                 [] ep.method \in {"CONNECT", "TRACE"} -> "unsupported"
                 [] ep.method \in NoEffect             -> "none"
                 [] amb                                -> "ambiguous"
                 [] ep.path \in BadPatterns             -> "newRoute"
                 [] OTHER                              -> "none"
        add == err = "none" /\ ep.method \notin NoEffect
    IN  /\ add => Len(routes[k]) < MaxRoutes
        /\ routes' = IF add
                     THEN [routes EXCEPT ![k] = Append(@, Registered(ep, k))]
                     ELSE routes
        /\ lastReg' = [ep |-> ep, err |-> err]
        /\ lastReq' = None /\ lastRes' = NoRes
        /\ UNCHANGED <<evals, memfs>>

(* RegisterEvaluator: append to srv.evals.                                 *)
RegisterEvaluator(e) ==
    /\ Len(evals) < MaxEvals
    /\ evals' = Append(evals, e)
    /\ lastReg' = NoReg /\ lastReq' = None /\ lastRes' = NoRes
    /\ UNCHANGED <<routes, memfs>>

(* A request reaches ServeHTTP.                                            *)
ServeHTTP(req) ==
    /\ lastReq' = req
    /\ lastRes' = ServeHTTPRes(req)
    /\ lastReg' = NoReg
    /\ UNCHANGED <<routes, evals, memfs>>

Next ==
    \/ \E ep \in Endpoints : RegisterEndpoint(ep)
    \/ \E e \in Evaluators : RegisterEvaluator(e)
    \/ \E req \in Requests : ServeHTTP(req)

Spec == Init /\ [][Next]_vars

-----------------------------------------------------------------------------
TypeOK ==
    /\ routes \in [RouteKinds -> Seq(Routes)]
    /\ \A k \in RouteKinds : Len(routes[k]) <= MaxRoutes
    /\ evals \in Seq(Evaluators) /\ Len(evals) <= MaxEvals
    /\ lastReq \in Requests \cup {None}
    /\ lastRes \in Responses
    /\ memfs \in MemfsStates

(* HandleFS serves files only, and a directory through its index.html: a *)
(* GET or HEAD no GET route takes is answered 200 only with a node whose  *)
(* content can be read, found at the path, at its index.html or at that   *)
(* one's index.html; and a directory whose index.html is a readable file   *)
(* is answered 200 with that file.                                         *)
FSServesIndex ==
    lastReq # None /\ lastReq.method \in {"GET", "HEAD"}
        /\ FirstMatch("GET", lastReq.path) = None =>
        LET p     == lastReq.path
            index == IndexOf[p]
        IN  /\ lastRes.status = 200 =>
                   /\ Get(lastRes.node) \in {"mem", "disk"}
                   /\ \/ lastRes.node \in {p, index}
                      \/ index # None /\ lastRes.node = IndexOf[index]
            /\ Get(p) = "dir" /\ Get(index) \in {"mem", "disk"} =>
                   lastRes.status = 200 /\ lastRes.node = index

(* RFC 7231 4.3.2: HEAD is GET without the body: same status and same      *)
(* Content-Type as the GET of the same path.                               *)
HeadMirrorsGet ==
    lastReq # None /\ lastReq.method = "HEAD" =>
        LET get == ServeHTTPRes([lastReq EXCEPT !.method = "GET"])
        IN  /\ lastRes.status = get.status
            /\ lastRes.ctype = get.ctype

=============================================================================
