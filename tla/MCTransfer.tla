----------------------------- MODULE MCTransfer -----------------------------
EXTENDS Transfer

\* Lists 1 and 2 are shipped; 3 is found on this network.
TheCatalog == [lists |-> {1, 2}, local |-> {}, carries |-> 50 :> {1, 2}, sources |-> 1 :> {91},
               targets |-> 70 :> FALSE @@ 71 :> TRUE]
TheLocal == [TheCatalog EXCEPT !.lists = @ \cup {3}, !.local = {3}, !.carries = @ @@ 51 :> {3}]
TheCatalogs == {TheCatalog, TheLocal}

ThePool == [lists |-> {10, 11}, categories |-> {60}, profiles |-> {80, 81}, devices |-> {20, 21}, outputs |-> {30, 31}]

TheRefs == [lists |-> <<1001, 1002>>, categories |-> <<2001>>, profiles |-> <<3001, 3002>>, devices |-> <<4001, 4002>>,
            outputs |-> <<5001, 5002>>]

Profile(lists, categories, exclusions, priority, domains, archived) ==
  [lists |-> lists, categories |-> categories, exclusions |-> exclusions, priority |-> priority,
   domains |-> domains, archived |-> archived]
Output(profile, target, device, keep) == [profile |-> profile, target |-> target, device |-> device, keep |-> keep]
In(category, list, state) == [category |-> category, list |-> list, state |-> state]

TheRows ==
  [interval |-> "day", order |-> <<11, 2, 1>>, lists |-> 10 :> "ten" @@ 11 :> "eleven", categories |-> {60},
   memberships |-> {In(60, 11, "added"), In(60, 1, "added"), In(50, 2, "removed")}, removals |-> {},
   off |-> {[list |-> 1, source |-> 91], [list |-> 1, source |-> 92]}, words |-> {[list |-> 10, word |-> "in"]},
   feeds |-> 92 :> 1,
   profiles |-> 80 :> Profile({10}, {60}, {1}, <<11, 10>>, 11 :> {"x"}, FALSE)
             @@ 81 :> Profile({}, {50}, {}, <<>>, Nothing, TRUE),
   devices |-> 20 :> [target |-> 71], outputs |-> 30 :> Output(80, 71, 20, TRUE) @@ 31 :> Output(81, 70, NoDevice, FALSE),
   trusted |-> {20}, history |-> TRUE]

\* Beside these rows: fewer of them and no order saved; a list removed that a
\* profile had left out; a profile that names a list the category does too.
TheConfigurations ==
  {EmptyStore, TheRows,
   [TheRows EXCEPT !.order = <<>>, !.lists = 11 :> "eleven", !.words = {}, !.outputs = 30 :> @[30],
                   !.profiles = 80 :> Profile({11}, {60}, {1}, <<11>>, 11 :> {"x"}, FALSE)],
   [TheRows EXCEPT !.removals = {2}, !.memberships = {m \in @ : m.list # 2}, !.interval = "unset",
                   !.profiles[80].exclusions = {1, 2}],
   [TheRows EXCEPT !.memberships = @ \cup {In(60, 2, "added")}, !.profiles[81].lists = {2}]}

TheForms == {ThisRelease,
             [ThisRelease EXCEPT !.version = 12, !.words = Throughout("before"), !.order = FALSE],
             [ThisRelease EXCEPT !.words["custom lists"] = "both"]}

Symmetry == Permutations(Installations)
=============================================================================
