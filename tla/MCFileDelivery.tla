--------------------------- MODULE MCFileDelivery ---------------------------
EXTENDS FileDelivery

R(kind, family, at, bits, list, titles) ==
  [kind |-> kind, family |-> family, at |-> at, bits |-> bits, list |-> list, titles |-> titles]

\* Names 1 and 2 have several labels, 3 has one; lists 5 and 6 have a title, 7 is too long.
Exact == R("exact", 0, 1, 0, 5, {101})
Domain2 == R("exact", 0, 2, 0, 6, {})
Bare3 == R("exact", 0, 3, 0, 5, {})
Host == R("ip", 4, 1, 2, 5, {101})
SameHost == R("prefix", 4, 1, 2, 6, {102})
Wide == R("prefix", 4, 2, 1, 6, {102, 103})
Host6 == R("ip", 6, 3, 2, 7, {})
Wide6 == R("prefix", 6, 2, 1, 6, {})
Suffix(n, list) == R("suffix", 0, n, 0, list, {101})

ThePlans ==
  [bat |-> {{}, {Host, SameHost}, {Host, SameHost, Wide}, {Host6}, {Exact}},
   groups |-> {{}, {Suffix(1, 7), Suffix(2, 7), Host6, Host}, {Host, SameHost, Wide, Wide6}, {Suffix(1, 5), Suffix(2, 6)},
               {Suffix(1, 5), Suffix(2, 6), Host6, Host, Suffix(3, 5), Wide}, {Exact}},
   script |-> {{Exact, Host, SameHost}, {Exact, Domain2, Wide6}, {Wide6, Host6}},
   nftset |-> {{}, {Suffix(1, 5), Suffix(1, 6), Suffix(2, 6)}, {Suffix(2, 5)}, {Exact}},
   sites |-> {{}, {Exact, Host, SameHost, Wide}, {Exact, Bare3}, {Domain2}, {Wide6}},
   ruleset |-> {{Exact, Suffix(2, 6), Wide6, Host6, Host, SameHost}, {Exact, Suffix(1, 5)}, {}}]

TheLong == 7 :> 5
TheForeign == {Absent, RenderRuleSet([domain |-> {NameEntry(9)}, suffix |-> {}, cidr |-> {}])}
=============================================================================
