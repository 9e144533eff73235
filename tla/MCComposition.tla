--------------------------- MODULE MCComposition ---------------------------
EXTENDS Composition

TheZones == 100 :> {100} @@ 101 :> {100, 101}

Def(required, seeds) ==
  [components |-> {"web", "media"}, first |-> "web", required |-> required, seeds |-> seeds]

TheBase == <<Def({"web"}, {Seed(1, Network(0, 2), "web", "official")}),
             Def({}, {Seed(1, Name("exact", 100), "media", "manual"), Seed(2, Address(3), "web", "manual")}),
             Def({"media"}, {})>>

\* Fresh, expired and kept under grace, and withdrawn before the last success.
Fresh == [until |-> 8, last |-> 5, health |-> [success |-> 5, failure |-> 0]]
Kept == [until |-> 6, last |-> 5, health |-> [success |-> 5, failure |-> 6]]
Withdrawn == [until |-> 6, last |-> 4, health |-> [success |-> 5, failure |-> 6]]

Seen(list, value, component, class, stamp) ==
  [list |-> list, value |-> value, component |-> component, class |-> class,
   until |-> stamp.until, last |-> stamp.last, health |-> stamp.health]

ThePool ==
  {Seen(1, Address(3), "web", "observed", Kept),
   Seen(1, Network(2, 3), "web", "community", Fresh), Seen(1, Network(3, 3), "web", "community", Fresh),
   Seen(1, Network(4, 2), "web", "official", Withdrawn), Seen(1, Name("suffix", 100), "media", "community", Fresh),
   Seen(2, Network(0, 1), "web", "official", Fresh), Seen(2, Network(0, 1), "media", "community", Fresh),
   Seen(2, Address(7), "web", "observed", Fresh), Seen(2, Name("suffix", 101), "media", "community", Kept),
   Seen(3, Address(3), "media", "observed", Fresh), Seen(3, Network(2, 2), "media", "community", Fresh),
   Seen(3, Name("suffix", 101), "web", "community", Fresh)}

Format(exact, suffix, addresses, prefixes, max) ==
  [exact |-> exact, suffix |-> suffix, addresses |-> addresses, prefixes |-> prefixes, max |-> max,
   dotted |-> FALSE, copies |-> 1, lines |-> 4, groups |-> 0, perGroup |-> 0, bytes |-> 20]

\* Routes, a rule set, groups of one list each, sites and a script.
InGroups == [Format(FALSE, TRUE, TRUE, TRUE, 6) EXCEPT !.lines = 0, !.groups = 2, !.perGroup = 2]
TheTargets ==
  {Format(FALSE, FALSE, TRUE, TRUE, 2), Format(TRUE, TRUE, TRUE, TRUE, 4), InGroups,
   [Format(TRUE, FALSE, TRUE, TRUE, 0) EXCEPT !.dotted = TRUE],
   [Format(TRUE, FALSE, TRUE, TRUE, 4) EXCEPT !.copies = 2]}

TheBytes == [name |-> 6, block |-> 4, group |-> 2]

Ask(lists, categories, exclusions, priority, domains) ==
  [lists |-> lists, categories |-> categories, exclusions |-> exclusions, priority |-> priority, domains |-> domains]

None == [l \in {} |-> {}]

TheRequests ==
  {Ask({1, 2}, {Category}, {}, <<>>, 1 :> {}), Ask({1, 2, 3}, {}, {}, <<3, 2>>, None),
   Ask({2}, {Category}, {1}, <<>>, 2 :> {100, 101})}

TheValues == {Name("suffix", 101), Address(3)}
=============================================================================
