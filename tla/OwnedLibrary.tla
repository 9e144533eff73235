---------------------------- MODULE OwnedLibrary ----------------------------
(***************************************************************************)
(* What the library promises its operator: a set of lists, categories that *)
(* hold exactly the lists they were last given as long as those exist, and *)
(* profiles that never name anything missing.  Whatever leaves the library *)
(* is gone for good, shipped or not.  How this is stored -- as differences *)
(* from a catalog that is never written -- does not appear here.           *)
(***************************************************************************)
CONSTANTS Lists, Categories, Profiles, FirstLists, FirstCategories, FirstMembers

VARIABLES lists, categories, \* what the library holds
          members,           \* per category: its lists
          gone,              \* what has left the library
          named              \* per profile: the lists and categories it names

vars == <<lists, categories, members, gone, named>>

Init == /\ lists = FirstLists /\ categories = FirstCategories
        /\ members = [c \in Categories |-> IF c \in FirstCategories THEN FirstMembers[c] ELSE {}]
        /\ gone = {} /\ named = [p \in Profiles |-> {}]

Unnamed(ids) == \A p \in Profiles : named[p] \cap ids = {}

AddList(l) ==
  /\ l \notin lists \cup gone
  /\ lists' = lists \cup {l}
  /\ UNCHANGED <<categories, members, gone, named>>

(* A new category, or another membership for one there is.                 *)
SetCategory(c, new) ==
  /\ c \notin gone /\ new \subseteq lists
  /\ categories' = categories \cup {c}
  /\ members' = [members EXCEPT ![c] = new]
  /\ UNCHANGED <<lists, gone, named>>

(* One step takes categories and lists out, together with every membership *)
(* of those lists, and only when no profile names any of them.             *)
Remove(cs, ls) ==
  /\ cs \subseteq categories /\ ls \subseteq lists /\ Unnamed(cs \cup ls)
  /\ lists' = lists \ ls
  /\ categories' = categories \ cs
  /\ members' = [c \in Categories |-> IF c \in cs THEN {} ELSE members[c] \ ls]
  /\ gone' = gone \cup cs \cup ls
  /\ UNCHANGED named

Name(p, ids) ==
  /\ ids \subseteq lists \cup categories
  /\ named' = [named EXCEPT ![p] = ids]
  /\ UNCHANGED <<lists, categories, members, gone>>

Next == \/ \E l \in Lists : AddList(l)
        \/ \E c \in Categories, new \in SUBSET Lists : SetCategory(c, new)
        \/ \E cs \in SUBSET Categories, ls \in SUBSET Lists : Remove(cs, ls)
        \/ \E p \in Profiles, ids \in SUBSET (Lists \cup Categories) : Name(p, ids)

Spec == Init /\ [][Next]_vars
=============================================================================
