---------------------------- MODULE MCPrerelease ----------------------------
(***************************************************************************)
(* Two packages, one of which depends on the other.                        *)
(***************************************************************************)
EXTENDS Prerelease

CONSTANTS core, http

CoreAndHttp == {core, http}
AnyCommit == [kind : {"feat", "manual", "drop"}, package : CoreAndHttp]
             \cup [kind : {"chore", "dropAuto"}]
HttpOnCore == {<<http, core>>}
=============================================================================
