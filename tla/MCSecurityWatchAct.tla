------------------------- MODULE MCSecurityWatchAct -------------------------
(* Small instances of SecurityWatchAct: a component with two playbooks, of *)
(* which one runs over several ticks, and a component with one that does   *)
(* not.                                                                    *)
EXTENDS SecurityWatchAct, TLC

CONSTANTS svc, host

MCGroup == {<<svc, "repo-pr">>, <<svc, "release-rebuild">>,
            <<host, "apt-security">>}
=============================================================================
