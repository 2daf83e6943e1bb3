----------------------------- MODULE HttpStack ------------------------------
(***************************************************************************)
(* The layers an HTTP request of the API passes, and what becomes of an    *)
(* error that one of them raises (src/src/main.py).  A middleware added    *)
(* later wraps those added earlier; the handler of AppError belongs to the *)
(* innermost layer, the handler of Exception to the outermost.             *)
(***************************************************************************)
EXTENDS Naturals, Sequences, FiniteSetsExt

\* What a request can meet: nothing, an AppError, another exception.
Outcomes == {"ok", "app_error", "exception"}

\* Mutant: the middleware that counts requests is added first.
LayersMetricsInside ==
    <<"server_error", "request_context", "rate_limit", "cors", "metrics",
      "exception_handlers", "router">>

Layers ==
    <<"server_error", "metrics", "request_context", "rate_limit", "cors",
      "exception_handlers", "router">>

Depth(layer) == CHOOSE i \in 1 .. Len(Layers) : Layers[i] = layer

\* Only two layers turn an exception into a response.
Catches(layer, outcome) ==
    \/ layer = "exception_handlers" /\ outcome = "app_error"
    \/ layer = "server_error" /\ outcome # "ok"

\* The layer that answers for an outcome of the given layer: the closest one around it.
Answering(layer, outcome) ==
    Layers[Max({i \in 1 .. Depth(layer) - 1 : Catches(Layers[i], outcome)})]

\* The status of the response: an AppError keeps its own only if its handler sees it.
StatusOf(layer, outcome, status) ==
    IF outcome = "ok" THEN 200
    ELSE IF Answering(layer, outcome) = "exception_handlers" THEN status
    ELSE 500

\* What flowforge_http_requests_total counts: the status of the response that
\* passes, 500 for an exception that passes, nothing for what never gets there.
CountedStatus(layer, outcome, status) ==
    IF Depth(layer) < Depth("metrics") THEN 0
    ELSE IF outcome # "ok" /\ Depth(Answering(layer, outcome)) < Depth("metrics")
         THEN 500
    ELSE StatusOf(layer, outcome, status)

=============================================================================
