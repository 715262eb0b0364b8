--------------------------- MODULE MCHttpHandler ---------------------------
(***************************************************************************)
(* Two requests and one key that is published and retired at any time; the *)
(* tokens presented differ in what verify tells apart.                     *)
(***************************************************************************)
EXTENDS HttpHandler, TLC

CONSTANTS k

Signed(isGenuine, hasSubject) ==
    [form |-> "signed", key |-> k, genuine |-> isGenuine, subject |-> hasSubject]

Malformed == [form |-> "malformed", key |-> k, genuine |-> FALSE, subject |-> FALSE]

OneKey == {k}
SomeTokens == {Signed(TRUE, TRUE), Signed(FALSE, TRUE), Signed(TRUE, FALSE), Malformed}
=============================================================================
