---------------------------- MODULE MCLongNames ----------------------------
(* A small instance of LongNames: a valid name, two long names with the    *)
(* same hash, and three tilde names.  One is what both are mangled to and  *)
(* may also be a file of its own; another has the hash, too, and is first. *)
EXTENDS LongNames

Plain == "A"
Long1 == "Long one"
Long2 == "Long two"

MCTildes == {"LO~1", "LO~2", "A~3"}
MCFits == {Plain} \cup MCTildes
MCNames == MCFits \cup {Long1, Long2}

MCMangled ==
  [n \in MCNames |-> CASE n \in {Long1, Long2, "LO~2"} -> "LO~1"
                       [] n = Plain -> "A~3"
                       [] OTHER -> "LO~2"]

MCOrder ==
  [n \in MCNames |-> CASE n = Plain -> 1 [] n = "A~3" -> 2 [] n = Long1 -> 3
                       [] n = Long2 -> 4 [] n = "LO~1" -> 5 [] n = "LO~2" -> 0]

MCBegins ==
  {Plain, "A~3"} \X {"A~3"}
    \cup {Long1, Long2, "LO~1", "LO~2"} \X {"LO~1", "LO~2"}
=============================================================================
