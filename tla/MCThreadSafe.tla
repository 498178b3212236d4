----------------------------- MODULE MCThreadSafe -----------------------------
(* Two threads, an assembly and its netmodule, which are edited and import  *)
(* from each other, and a library that is only read.  The threads share one *)
(* enumeration; the second one has another of its own.                      *)
EXTENDS ThreadSafe, TLC

CONSTANTS t1, t2, app, net, library, e1, e2
MCThreads == {t1, t2}
MCEnumerations == (t1 :> {e1}) @@ (t2 :> {e1, e2})

(* The references of a netmodule are written to its assembly as well.       *)
MCImports == {[sm |-> app, sa |-> library, tm |-> net, ta |-> app],
              [sm |-> net, sa |-> library, tm |-> app, ta |-> app]}

MCMaxRefs == (app :> 2) @@ (net :> 1) @@ (library :> 1)
=============================================================================
