---------------------------- MODULE ModFolders ----------------------------
(* What SOA_MODS may hold, for the runs of ModLoad: folders, each with its id, *)
(* what it overrides, its rank, its files, patches and claims, and what is     *)
(* wrong with it.                                                              *)
EXTENDS Integers

Mod(id, over) == [id |-> id, over |-> over, rank |-> 0, off |-> FALSE,
                  files |-> {}, patches |-> {}, claims |-> <<>>, lib |-> TRUE,
                  wrong |-> "none"]
Cell(v) == {[cell |-> "m", value |-> v]}

FolderNames == <<"a", "b", "c", "d", "e", "f">>

\* Mods that claim numbers, come and go, and are refused on the way.
Claimers == {[Mod("p", {}) EXCEPT !.claims = <<"x", "y">>],
             [Mod("p", {}) EXCEPT !.claims = <<"y">>, !.wrong = "init"]}
Others == {[Mod("q", {}) EXCEPT !.claims = <<"x">>, !.files = {"f"}],
           [Mod("q", {}) EXCEPT !.claims = <<"z", "x">>, !.wrong = "ini"]}
ClaimInstalls ==
    [{1} -> Claimers] \cup [{2} -> Others]
    \cup {f \in [{1, 2} -> Claimers \cup Others] : f[1] \in Claimers /\ f[2] \in Others}

\* Each of n overrides all that come after it by name.
Rising(n) ==
    LET ids == <<"p", "q", "r", "s", "t", "u">>
    IN [f \in 1 .. n |-> Mod(ids[f], {ids[g] : g \in (f + 1) .. n})]

\* Mods that write one cell, override and are refused.
Writers(over) ==
    {[Mod("p", o) EXCEPT !.patches = Cell(1), !.rank = r] :
         o \in over, r \in {0, 2}}
OrderInstalls ==
    {<<x, y, z, Mod("s", {"p", "q", "r"})>> :
        x \in Writers({{}, {"r"}, {"q", "r"}}),
        y \in {[Mod("q", o) EXCEPT !.patches = Cell(2), !.off = t] :
                  o \in {{"r"}, {"p", "r"}}, t \in BOOLEAN},
        z \in {[Mod("r", {"p"}) EXCEPT !.rank = 1],
               [Mod("r", {}) EXCEPT !.patches = Cell(1), !.wrong = "init"],
               [Mod("r", {}) EXCEPT !.patches = Cell(3), !.files = {"f"}, !.lib = FALSE]}}
    \cup {Rising(5)}
\* Files placed and refused by each pass.
FileInstalls ==
    {<<x, y>> :
        x \in {[Mod("p", {}) EXCEPT !.files = {"f"}, !.wrong = w] :
                  w \in {"none", "dol", "scan", "place", "init"}},
        y \in {[Mod(i, {}) EXCEPT !.files = fs, !.lib = FALSE] :
                  i \in {"p", "q", ""}, fs \in {{}, {"f"}, {"g"}}}}

PassInstalls == ClaimInstalls \cup OrderInstalls \cup FileInstalls

\* Two that override each other, one of them turned off, and two more.
OffInstalls ==
    {<<Mod("p", {"q"}), [Mod("q", {"p"}) EXCEPT !.off = TRUE],
       Mod("r", {"s"}), Mod("s", {})>>}

\* More than the passes settle.
SixInstalls == {Rising(6)}
=============================================================================
