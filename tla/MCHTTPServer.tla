---------------------------- MODULE MCHTTPServer ----------------------------
(* HTTPServer for TLC.  Strings: "/a/b" and "/a/c" are paths, "/a/:id" a   *)
(* pattern; "/a/:id" matches every "/a/x" (its own text included), "/a/b"  *)
(* and "/a/c" only themselves.  The Memfs has the directory "/", which may *)
(* hold "/index.html" (a file, or itself a directory holding a file);   *)
(* "//" is an unclean spelling of "/" that Memfs.Get does not find.        *)
EXTENDS HTTPServer

CONSTANTS ab, ac, aid, root, ri, rii, dbl, o1, o2, star, none

MCPaths == {ab, ac, aid, root, ri, rii, dbl}
MCMatch == {<<aid, ab>>, <<aid, ac>>, <<aid, aid>>, <<ab, ab>>, <<ac, ac>>,
            <<root, root>>}
(* path.Join(p, "index.html"); the other joins are not in the Memfs.      *)
MCIndexOf == [p \in MCPaths |-> CASE p \in {root, dbl} -> ri
                                   [] p = ri           -> rii
                                   [] OTHER            -> none]

(* A Memfs with the given kinds at "/", "/index.html" and                  *)
(* "/index.html/index.html", and nothing elsewhere.                        *)
FS(r, i, ii) == [p \in MCPaths |-> CASE p = root -> r [] p = ri -> i
                                     [] p = rii -> ii [] OTHER -> "absent"]

(* Consistent trees: an empty (or nil) Memfs; "/" without an index; with an *)
(* index in memory, on disk, unreadable on disk, or failing in Get; and    *)
(* with a directory named index.html holding a file.                        *)
MCMemfsStates ==
    {FS("absent", "absent", "absent"), FS("dir", "absent", "absent"),
     FS("dir", "mem", "absent"), FS("dir", "disk", "absent"),
     FS("dir", "unreadable", "absent"), FS("dir", "error", "absent"),
     FS("dir", "dir", "mem")}

Ep(m, p, c, r, t) == [method |-> m, path |-> p, call |-> c, rejects |-> r, rtype |-> t,
                      estatus |-> 400]
(* An endpoint whose ErrorHandler answers 404.                             *)
Ep404(m, p, c, r, t) == [Ep(m, p, c, r, t) EXCEPT !.estatus = 404]

(* The statuses the ErrorHandlers below write.                             *)
MCErrorStatuses == {400, 404}

(* Endpoints for the registration and dispatch checks.                     *)
MCEndpoints ==
    {Ep("GET", ab, TRUE, FALSE, "JSON"), Ep("", aid, TRUE, FALSE, "Plain"),
     Ep("PUT", aid, TRUE, FALSE, "None"), Ep("PATCH", ab, TRUE, FALSE, "Binary"),
     Ep("POST", aid, TRUE, FALSE, "JSON"), Ep404("DELETE", ab, TRUE, TRUE, "None"),
     Ep("HEAD", ab, TRUE, FALSE, "JSON"), Ep("OPTIONS", aid, TRUE, FALSE, "JSON"),
     Ep("CONNECT", ab, TRUE, FALSE, "JSON"), Ep("GET", ac, TRUE, FALSE, "XML"),
     Ep("GET", ac, FALSE, FALSE, "JSON")}

(* Patterns newRoute refuses.                                              *)
MCBadPatterns == {ac}

(* GET endpoints with a JSON and an XML body.                              *)
MCHeadEndpoints ==
    {Ep("GET", ab, TRUE, FALSE, "JSON"), Ep404("GET", aid, TRUE, TRUE, "XML")}

(* An evaluator that rejects requests for "/a/b".                         *)
MCEvaluators == {{ab}}

MCOrigins == {o1, o2}
MCAllowOrigins == {o1}
=============================================================================
