----------------------------- MODULE MCTracing -----------------------------
(***************************************************************************)
(* Three calls of withSpan, which are interchangeable, and one handle.     *)
(* The loggers: one with every default, and one that has a level and a     *)
(* list of its own; what they are given has sensitive fields, and keys      *)
(* that the logger writes itself.                                          *)
(***************************************************************************)
EXTENDS Logging

Symmetry == Permutations(Calls)

Plain == [service |-> "orders", version |-> "1"]
Own == [service |-> "orders", version |-> "1", level |-> "error",
        redact |-> {<<"ssn">>, <<"service">>}]
Unsupported == [service |-> "orders", version |-> "1", level |-> "trace"]
SomeOptions == {Plain, Own, Unsupported}
Sensitive == (<<"token">> :> "t1") @@ (<<"user", "password">> :> "p1")
SomeLogCalls ==
    {[level |-> "debug", fields |-> <<>>], [level |-> "error", fields |-> Sensitive],
     [level |-> "error", fields |-> (<<"correlationId">> :> "given") @@ (<<"service", "name">> :> "given")]}
SomeBindings ==
    {<<>>, (<<"secret">> :> "s1") @@ (<<"correlationId">> :> "bound") @@ (<<"version">> :> "bound")}
=============================================================================
