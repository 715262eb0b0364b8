------------------------------ MODULE Metrics ------------------------------
(***************************************************************************)
(* createMetrics on a registry of prom-client, which may be one that the   *)
(* service brings and on which others have registered metrics before.      *)
(***************************************************************************)
EXTENDS Integers, SequencesExt

CONSTANT NoService   \* the default labels of a registry that nobody has labelled

DefaultMetrics == "process_cpu_user_seconds_total"   \* the first of collectDefaultMetrics
TechnicalMetrics == <<"http_requests_total", "http_request_duration_seconds",
                      "messages_handled_total", "message_duration_seconds">>

NewRegistry == [service |-> NoService, names |-> {}, thrown |-> FALSE]

\* prom-client: the constructor of a metric registers it, and throws if the
\* registry has its name.
Register(registry, name) ==
    IF registry.thrown THEN registry
    ELSE IF name \in registry.names THEN [registry EXCEPT !.thrown = TRUE]
    ELSE [registry EXCEPT !.names = @ \cup {name}]

\* Mutant: the default metrics are collected last.
MutantNames(collectDefaults) ==
    TechnicalMetrics \o IF collectDefaults THEN <<DefaultMetrics>> ELSE <<>>

\* What a call registers, in this order.
Names(collectDefaults) ==
    (IF collectDefaults THEN <<DefaultMetrics>> ELSE <<>>) \o TechnicalMetrics

\* createMetrics({service, register: registry, collectDefaults}).
CreateMetrics(registry, service, collectDefaults) ==
    FoldLeft(Register, [registry EXCEPT !.service = service, !.thrown = FALSE],
             Names(collectDefaults))

\* The calls on one registry: createMetrics, and a metric of the service's own.
Call(registry, call) ==
    IF call.function = "createMetrics"
    THEN CreateMetrics(registry, call.service, call.collectDefaults)
    ELSE Register([registry EXCEPT !.thrown = FALSE], call.name)

\* The registry before the first call and after each one.
Registries(calls) ==
    FoldLeft(LAMBDA registries, call : Append(registries, Call(Last(registries), call)),
             <<NewRegistry>>, calls)
=============================================================================
