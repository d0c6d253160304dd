---------------------------- MODULE MCLoadTester ----------------------------
(* Canaries and Concord tasks for TLC. *)
EXTENDS LoadTester

Words == {"podinfo", "test", "prod", "rollback"}

\* One name in two namespaces.
GatedCanaries ==
  {[name |-> <<"podinfo">>, namespace |-> <<"test">>],
   [name |-> <<"podinfo">>, namespace |-> <<"prod">>]}

\* The poll comes before its timeout, as in the documentation, or after it.
ConcordTasks == {[interval |-> 1, timeout |-> 3], [interval |-> 3, timeout |-> 2]}
Documented   == {[interval |-> 1, timeout |-> 3]}
=============================================================================
