----------------------------- MODULE MCFileStore -----------------------------
(* Two directories, of which the first holds a file of the user, and names one of *)
(* which is the numbered form of the other.                                       *)
EXTENDS FileStore

MCNumbered == [n \in {"a", "a (1)"} |->
  IF n = "a" THEN [i \in 0..MaxIndex |-> <<"a", "a (1)", "a (2)", "a (3)">>[i + 1]]
  ELSE [i \in 0..MaxIndex |-> <<"a (1)", "a (1) (1)", "a (1) (2)", "a (1) (3)">>[i + 1]]]
MCPath == {"a", "a (1)", "a (2)", "a (3)", "a (1) (1)", "a (1) (2)", "a (1) (3)"}
MCBefore == [d \in {"root", "sub"} |-> IF d = "root" THEN {"a"} ELSE {}]

MCRandomName == [l \in {"en", "zh"} |-> IF l = "en" THEN "apple" ELSE "pingguo"]
MCDefault == [alias |-> "apple", locale |-> "en", accept |-> FALSE, directory |-> "root"]
Asks(alias, locale, accept) == [alias |-> alias, locale |-> locale, accept |-> accept]
MCBody ==
  {Asks("mine", Unnamed, TRUE), Asks("yours", Unnamed, Unnamed), Asks(Empty, "zh", Unnamed),
   Asks(Unnamed, "zh", FALSE)}
==============================================================================
