------------------------------ MODULE HttpRequest ------------------------------
(***************************************************************************)
(* What the HTTP servers answer to a request (handle_request of            *)
(* include/net/http/httpServer.hpp and httpServerCoro.hpp).  Three servers *)
(* share the table of urls: HttpServer with a thread for each connection   *)
(* ("sync"), HttpServer with asynchronous sessions ("async"), and          *)
(* HttpServerCoro with a coroutine for each connection ("coro").           *)
(***************************************************************************)
EXTENDS Integers, Sequences

CONSTANT Modes   \* servers to look at, among "sync", "async" and "coro"

\* Targets that are empty, not absolute, or hold "..".
IllegalTargets == {"", "test", "/../test"}

\* The document root is the empty string.
path_cat(target) == target
path_catCoro(target) == target

\* HttpServer looks at the target, then for the url.
httpServerAnswer(r, urls) ==
  IF r.target \in IllegalTargets THEN "bad_request"
  ELSE IF path_cat(r.target) \in urls THEN "handler" ELSE "not_found"

\* HttpServerCoro looks at the method first.
httpServerCoroAnswer(r, urls) ==
  IF r.method \notin {"get", "post"} \/ r.target \in IllegalTargets THEN "bad_request"
  ELSE IF path_catCoro(r.target) \in urls THEN "handler" ELSE "not_found"

answer(m, r, urls) ==
  IF m = "coro" THEN httpServerCoroAnswer(r, urls) ELSE httpServerAnswer(r, urls)
===============================================================================
