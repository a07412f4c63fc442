---------------------------- MODULE MCDeployLock ----------------------------
(* Small instances of DeployLock: two processes, the first with two        *)
(* threads, one surface and the host key.                                  *)
EXTENDS DeployLock, TLC

CONSTANTS t1, t2, t3, p1, p2, f1, f2, f3, f4, f5, a, host

MCThread == {t1, t2, t3}
MCProcess == {p1, p2}
MCProcOf == [t \in MCThread |-> IF t = t3 THEN p2 ELSE p1]
MCFd == {f1, f2, f3, f4, f5}
MCKey == {host, a}

CallOf(kind, key, mode, bounded) ==
  [kind |-> kind, key |-> key, mode |-> mode, bounded |-> bounded]

(* surface_lock(a), service_lock(a) and a host_lock() that waits for ever. *)
SafetyCalls == {CallOf("surface", a, "exclusive", TRUE),
                CallOf("service", a, "exclusive", TRUE),
                CallOf("service", host, "exclusive", FALSE)}

Symmetry == Permutations({t1, t2})
=============================================================================
