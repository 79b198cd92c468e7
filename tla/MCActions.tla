------------------------------ MODULE MCActions ------------------------------
(***************************************************************************)
(* Small instances of Actions.                                             *)
(***************************************************************************)
EXTENDS Actions

Paths == {<< >>, <<1>>, <<1, 1>>, <<1, 2>>, <<1, 2, 1>>, <<1, 2, 2>>, <<2>>}
List(k1, k11, k12, k121, k122, k2) ==
  [n \in Paths |-> CASE n = << >> -> "ordered" [] n = <<1>> -> k1 [] n = <<1, 1>> -> k11 [] n = <<1, 2>> -> k12
                     [] n = <<1, 2, 1>> -> k121 [] n = <<1, 2, 2>> -> k122 [] n = <<2>> -> k2]

\* A group of a build and a list, then a command; a list with a group, then a mistake.
TwoLists == {List("parallel", "gobuild", "ordered", "exec", "exec", "exec"),
             List("ordered", "exec", "parallel", "gobuild", "exec", "unknown")}
=============================================================================
