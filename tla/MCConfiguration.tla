-------------------------- MODULE MCConfiguration -------------------------
(***************************************************************************)
(* Small instances of Configuration and what extends it, for TLC.         *)
(***************************************************************************)
EXTENDS RemoteProfile

\* Two servers, the first with a group, a command in it and two more on both sides of
\* it and of the command of the second server, and a bundle.
MCSaved ==
  [servers     |-> [s \in {1, 2} |-> IF s = 1 THEN [name |-> "x", host |-> "h"] ELSE [name |-> "X", host |-> "k"]],
   groups      |-> [g \in {3} |-> [server |-> 1, name |-> "x"]],
   commands    |-> [c \in {4, 5, 6, 7} |-> [server |-> IF c = 5 THEN 2 ELSE 1,
                                            group  |-> IF c = 6 THEN 3 ELSE 0,
                                            name   |-> IF c = 7 THEN "X" ELSE "x"]],
   order       |-> <<4, 5, 6, 7>>,
   bundles     |-> [b \in {8} |-> [server |-> 1, name |-> "x", steps |-> <<6, 4>>]],
   last_group  |-> [s \in {1} |-> 3],
   last_server |-> 1]

MCLowerName == [n \in Names \cup {"y"} |-> IF n = "X" THEN "x" ELSE n]

\* An export of another installation: a server that is the first one here, one that
\* is the second one here, twice, commands of one name in two lists, and bundles that
\* name a command of another list and one that no list has.
MCForeign ==
  LET s1 == [name |-> "X", host |-> "h"] s2 == [name |-> "x", host |-> "k"] IN
  [servers  |-> <<s1, s2, s2>>,
   groups   |-> <<[server |-> s1, name |-> "X"]>>,
   commands |-> <<[server |-> s2, group |-> "x", name |-> "x"], [server |-> s2, group |-> "", name |-> "X"],
                  [server |-> s1, group |-> "X", name |-> "X"]>>,
   bundles  |-> <<[server |-> s2, name |-> "x", steps |-> <<[group |-> "X", name |-> "x"], [group |-> "", name |-> "y"]>>],
                  [server |-> s1, name |-> "X", steps |-> <<[group |-> "X", name |-> "y"]>>]>>]

MCImportFiles == {MCForeign}
=============================================================================
