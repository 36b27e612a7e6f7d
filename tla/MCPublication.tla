----------------------------- MODULE MCPublication -----------------------------
(***************************************************************************)
(* Two runs that export two marts, with the retries of the DAG.          *)
(***************************************************************************)
EXTENDS Publication

MCRetries == [t \in Tasks |-> CASE t \in {"test", "reconcile"} -> 0
                                 [] t = "docs"                 -> 1
                                 [] t \in {"run", "export"}    -> 3
                                 [] OTHER                      -> 2]
================================================================================
