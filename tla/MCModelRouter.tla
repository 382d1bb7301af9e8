---------------------------- MODULE MCModelRouter ----------------------------
(* Small instances of ModelRouter: models ma and mb are listed, mc is not. *)
EXTENDS ModelRouter, TLC

CONSTANTS ma, mb, mc, t1, t2, t3

Job(op, m) == [op |-> op, m |-> m]
Jobs2(x, y) == t1 :> x @@ t2 :> y
Jobs3(x, y, z) == t1 :> x @@ t2 :> y @@ t3 :> z

\* requests that compete for the one place, what may come between them, and a
\* reload that finds no model listed
QueueScenarios ==
  {Jobs3(Job("proxy", ma), Job("proxy", mb), Job("unload", ma)),
   Jobs3(Job("proxy", ma), Job("proxy", ma), Job("proxy", mb)),
   Jobs3(Job("session", ma), Job("session", ma), Job("stop", ma)),
   Jobs3(Job("remove", ma), Job("remove", mb), Job("reload", ma))}

\* one request or one more call beside an administrative call
AdminScenarios ==
  {Jobs2(Job(x, ma), Job(y, ma)) : x \in {"proxy", "noload", "load"},
                                 y \in {"load", "unload", "remove", "reload", "shutdown"}}
  \cup {Jobs2(Job("proxy", ma), Job(y, mb)) : y \in {"session", "proxy"}}
  \cup {Jobs2(Job("session", ma), Job("load", mb)), Jobs2(Job("reload", ma), Job("reload", ma))}
  \cup {Jobs2(Job("download", mc), Job(y, mc)) :
          y \in {"unload", "shutdown", "proxy", "remove", "download"}}

MCPresets == {{ma, mb}, {mb}, {ma, mb, mc}}
=============================================================================
