--------------------------- MODULE MCChangeHistory ---------------------------
(* Two windows on one change, one window at a time on two changes, or two  *)
(* windows that apply a change each, until the first worker starts.        *)
EXTENDS ChangeHistory, TLC

AnyOrder == Permutations(Windows) \cup Permutations(Changes)

Engaged == {w \in Windows : \/ ~Free(w) \/ prepared[w] # NoChange
                            \/ \E e \in Changes : listed[w][e] # Nothing}
Made    == Kept \cup {e \in Changes : \E w \in Windows : prepared[w].id = e}
Filling == /\ foreign = 0 /\ temps = 0 /\ \A x \in scripts : x.pc = "sent"
           /\ \A w \in Windows, e \in Changes : listed[w][e] = Nothing
Scope   == Filling \/ Cardinality(Engaged) + Cardinality(Made) <= 3

==============================================================================
