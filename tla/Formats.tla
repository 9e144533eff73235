------------------------------- MODULE Formats -------------------------------
(***************************************************************************)
(* The files a plan is handed over in: what of a plan each format carries, *)
(* the one form it is written in, and what is accepted when it is read.    *)
(*                                                                         *)
(* A file is the sequence of its lines.  A line is a command, the list or  *)
(* group it is about, and an entry: a name, a block of addresses or an     *)
(* address without a mask.  Byte bounds and the wording of commands are    *)
(* left out; the bounds on lines, groups and their entries are kept.       *)
(***************************************************************************)
EXTENDS Integers, Sequences, FiniteSets, SequencesExt

CONSTANTS Width,               \* bits of an address, of either family
          Bare,                \* names of one label
          Long,                \* lists whose id does not fit a group name, with its head
          MaxLines, MaxEntriesPerGroup, MaxGroups,
          MaxRules             \* what the device behind a target holds, 0 where nobody knows

ASSUME BoundsAreReal ==
  MaxLines \in Nat \ {0} /\ MaxEntriesPerGroup \in Nat \ {0} /\ MaxGroups \in Nat \ {0} /\ MaxRules \in Nat
ASSUME AddressesAreNumbers == Width \in Nat /\ \A bits \in 0 .. Width : 2^bits \in Nat \ {0}
ASSUME HeadsAreNumbers == \A list \in DOMAIN Long : Long[list] \in Nat

Formats == {"bat", "groups", "script", "nftset", "sites", "ruleset"}

Named == 9
NoMask == Width + 1
Families == {4, 6}

NameEntry(n) == <<Named, n, 0>>
Nothing == <<0, 0, 0>>

IsNamed(e) == e[1] = Named

Span(family, at, bits) == {<<family, a>> : a \in at .. at + 2^(Width - bits) - 1}

\* The traffic an entry steers; a name with or without what lies below it.
Steers(e, below) ==
  IF IsNamed(e) THEN {<<0, e[2]>>} \cup (IF below THEN {<<1, e[2]>>} ELSE {})
  ELSE Span(e[1], e[2], IF e[3] = NoMask THEN Width ELSE e[3])

\* A rule of a plan: a kind, a family (0 for a name), a place, a length, the
\* list it comes from and the titles its labels give that list.
Rules == [kind : {"exact", "suffix", "ip", "prefix"}, family : {0} \cup Families, at : Nat, bits : 0 .. Width,
          list : Nat, titles : SUBSET Nat]

Masked(r) ==
  IF r.kind = "ip" THEN <<r.family, r.at, Width>>
  ELSE <<r.family, r.at - (r.at % 2^(Width - r.bits)), r.bits>>

RuleSteers(r) ==
  IF r.kind \in {"exact", "suffix"} THEN Steers(NameEntry(r.at), r.kind = "suffix") ELSE Steers(Masked(r), FALSE)

Aligned(e) == e[2] % 2^(Width - e[3]) = 0

Line(is, of, entry) == [is |-> is, of |-> of, entry |-> entry]

Precedes(s, t) == \E i \in 1 .. Len(s) : s[i] < t[i] /\ \A j \in 1 .. i - 1 : s[j] = t[j]

Sorted(S) == [i \in 1 .. Cardinality(S) |-> CHOOSE s \in S : Cardinality({t \in S : Precedes(t, s)}) = i - 1]

Lines(is, of, entries) == [i \in 1 .. Cardinality(entries) |-> Line(is, of, Sorted(entries)[i])]

Entries(lines, is) == {l.entry : l \in {k \in lines : k.is = is}}

-----------------------------------------------------------------------------
(* Static routes of a Keenetic router: IPv4 blocks, one ADD per line.       *)

BatKinds == {<<"ip", 4>>, <<"prefix", 4>>}

ProjectBat(plan) == {Masked(r) : r \in plan}

BatEntry(e) == e[1] = 4 /\ e[3] \in 1 .. Width

RenderBat(entries) == Lines("route", <<>>, entries)

BatHolds(entries) == entries # {} /\ Cardinality(entries) <= MaxLines /\ \A e \in entries : BatEntry(e)

ParseBat(body) ==
  /\ Len(body) \in 1 .. MaxLines
  /\ \A i \in 1 .. Len(body) : body[i].is = "route" /\ BatEntry(body[i].entry) /\ Aligned(body[i].entry)
  /\ \A i, j \in 1 .. Len(body) : body[i].entry = body[j].entry => i = j
  /\ body = RenderBat(Entries(ToSet(body), "route"))

-----------------------------------------------------------------------------
(* Object groups of a Keenetic router: names with all below them, and        *)
(* blocks, in groups of one list each.                                       *)

GroupKinds == {<<"suffix", 0>>} \cup ({"ip", "prefix"} \X Families)

\* An address stays without a mask here.
EntryValue(r) ==
  CASE r.kind = "suffix" -> NameEntry(r.at) [] r.kind = "ip" -> <<r.family, r.at, NoMask>> [] OTHER -> Masked(r)

\* A list too long for a name keeps its head and a hash of all of it.
ListNamePart(list) == IF list \in DOMAIN Long THEN <<Long[list], list>> ELSE <<list, 0>>

\* The first title the labels of a list give it, or its own id.
ListDescription(list, rules) ==
  LET titles == UNION {r.titles : r \in rules}
  IN  IF titles = {} THEN list ELSE CHOOSE t \in titles : \A u \in titles : t <= u

Shards(entries) == (Cardinality(entries) + MaxEntriesPerGroup - 1) \div MaxEntriesPerGroup

ShardEntries(entries, shard) ==
  {Sorted(entries)[i] : i \in (shard - 1) * MaxEntriesPerGroup + 1
                              .. (IF shard < Shards(entries) THEN shard * MaxEntriesPerGroup ELSE Cardinality(entries))}

\* A group is named for the prefix and list, the output and the shard; its
\* description numbers the shards where there is more than one.
ProjectGroups(plan, output) ==
  LET rules(list) == {r \in plan : r.list = list}
      values(list) == {EntryValue(r) : r \in rules(list)}
      label(list, shard) == <<ListDescription(list, rules(list)), shard, Shards(values(list))>>
  IN  UNION {{[name |-> ListNamePart(list) \o <<output, shard>>, entries |-> ShardEntries(values(list), shard),
               description |-> IF Shards(values(list)) > 1 THEN label(list, shard) ELSE <<label(list, shard)[1], 0, 0>>] :
                shard \in 1 .. Shards(values(list))} : list \in {r.list : r \in plan}}

GroupsHold(groups) ==
  /\ groups # {} /\ Cardinality(groups) <= MaxGroups
  /\ \A g, h \in groups : g.name = h.name => g = h
  /\ \A g \in groups : Cardinality(g.entries) \in 1 .. MaxEntriesPerGroup

\* The lines of a group, and of all: by the names of the groups, a description
\* before the entries, and these in their order.
GroupLines(g) ==
  (IF g.description = Nothing THEN {} ELSE {Line("description", g.name, g.description)})
    \cup {Line("include", g.name, e) : e \in g.entries}

LineKey(l) == l.of \o (IF l.is = "description" THEN <<0>> ELSE <<1>>) \o l.entry

RenderGroups(groups) ==
  LET lines == UNION {GroupLines(g) : g \in groups}
      before(l) == {k \in lines : Precedes(LineKey(k), LineKey(l))}
  IN  [i \in 1 .. Cardinality(lines) |-> CHOOSE l \in lines : Cardinality(before(l)) = i - 1]

GroupsOf(body) ==
  LET about(name, is) == Entries({l \in ToSet(body) : l.of = name}, is)
  IN  {[name |-> name, entries |-> about(name, "include"),
        description |-> IF about(name, "description") = {} THEN Nothing ELSE CHOOSE d \in about(name, "description") : TRUE] :
         name \in {l.of : l \in ToSet(body)}}

ValidEntry(e) == IF IsNamed(e) \/ e[3] = NoMask THEN TRUE ELSE e[3] > 0 /\ Aligned(e)

ParseGroups(body) ==
  /\ body # <<>>
  /\ \A l \in ToSet(body) : l.is \in {"include", "description"} /\ (l.is = "include" => ValidEntry(l.entry))
  /\ \A i, j \in 1 .. Len(body) :
        body[i].of = body[j].of /\ body[i].is = body[j].is /\ (body[i].is = "description" \/ body[i].entry = body[j].entry) => i = j
  /\ GroupsHold(GroupsOf(body))
  /\ body = RenderGroups(GroupsOf(body))

-----------------------------------------------------------------------------
(* A RouterOS script: one address list a family, each emptied and filled     *)
(* again.  A name goes into both lists.                                      *)

ScriptKinds == {<<"exact", 0>>} \cup ({"ip", "prefix"} \X Families)

ProjectScript(plan) ==
  [family \in Families |->
     {NameEntry(r.at) : r \in {q \in plan : q.kind = "exact"}} \cup {Masked(r) : r \in {q \in plan : q.family = family}}]

ScriptHolds(script) ==
  /\ Cardinality(script[4]) + Cardinality(script[6]) \in 1 .. MaxLines
  /\ \A family \in Families : \A e \in script[family] : IsNamed(e) \/ (e[1] = family /\ e[3] # NoMask)

Clear(family, rows) == Line("clear", <<family, rows>>, Nothing)
StaticRows == 1
AllRows == 2

\* Faulty variant: a family without an entry is left out.
RenderScriptInPart(script, legacy) ==
  LET section(family) ==
        IF script[family] = {} THEN <<>>
        ELSE <<Line("section", <<family>>, Nothing), Clear(family, StaticRows), Clear(family, AllRows)>>
               \o Lines("add", <<family>>, script[family])
  IN  section(4) \o section(6)
\* The rows of a name go first and take their resolved addresses with them; a
\* family without an entry is emptied too.  Files of the first form did neither.
RenderScript(script, legacy) ==
  LET section(family) ==
        IF legacy /\ script[family] = {} THEN <<>>
        ELSE <<Line("section", <<family>>, Nothing)>>
               \o (IF legacy THEN <<>> ELSE <<Clear(family, StaticRows)>>) \o <<Clear(family, AllRows)>>
               \o Lines("add", <<family>>, script[family])
  IN  section(4) \o section(6)

SectionAt(body, i) ==
  LET before == {j \in 1 .. i : body[j].is = "section"}
  IN  IF before = {} THEN 0 ELSE body[CHOOSE j \in before : \A k \in before : k <= j].of[1]

ScriptOf(body) ==
  [family \in Families |-> {body[i].entry : i \in {j \in 1 .. Len(body) : body[j].is = "add" /\ SectionAt(body, j) = family}}]

ParseScript(body) ==
  /\ Len(body) \in 1 .. MaxLines + 6
  /\ \A i \in 1 .. Len(body) :
       CASE body[i].is = "section" -> /\ \A j \in 1 .. i - 1 : body[j].is = "section" => body[j].of[1] < body[i].of[1]
                                      /\ i < Len(body) /\ body[i + 1].is = "clear" /\ body[i + 1].of[1] = body[i].of[1]
         [] body[i].is \in {"clear", "add"} -> SectionAt(body, i) = body[i].of[1]
         [] OTHER -> FALSE
  /\ ScriptHolds(ScriptOf(body))
  /\ body \in {RenderScript(ScriptOf(body), legacy) : legacy \in BOOLEAN}

-----------------------------------------------------------------------------
(* Directives of dnsmasq: names with all below them.                         *)

NftsetKinds == {<<"suffix", 0>>}

ProjectNftset(plan) == {NameEntry(r.at) : r \in plan}

NftsetHolds(entries) == Cardinality(entries) \in 1 .. MaxLines /\ \A e \in entries : IsNamed(e)

RenderNftset(entries) == Lines("nftset", <<>>, entries)

\* Faulty variant: the lines are read, their order and number are not.
ParseNftsetLines(body) ==
  Len(body) \in 1 .. MaxLines /\ \A l \in ToSet(body) : l.is = "nftset" /\ IsNamed(l.entry)
ParseNftset(body) ==
  /\ Len(body) \in 1 .. MaxLines
  /\ \A l \in ToSet(body) : l.is = "nftset" /\ IsNamed(l.entry)
  /\ body = RenderNftset(Entries(ToSet(body), "nftset"))

-----------------------------------------------------------------------------
(* Sites of a split tunnel: names, and IPv4 blocks.                          *)

SitesKinds == {<<"exact", 0>>, <<"ip", 4>>, <<"prefix", 4>>}

ProjectSites(plan) == {IF r.kind = "exact" THEN NameEntry(r.at) ELSE Masked(r) : r \in plan}

\* The client drops a name of one label without a word, so no file has one.
SitesHold(entries) ==
  /\ Cardinality(entries) \in 1 .. MaxLines
  /\ \A e \in entries : IF IsNamed(e) THEN e[2] \notin Bare ELSE e[1] = 4 /\ e[3] # NoMask

RenderSites(entries) == Lines("site", <<>>, entries)

ParseSites(body) ==
  /\ Len(body) > 0 /\ \A l \in ToSet(body) : l.is = "site"
  /\ SitesHold(Entries(ToSet(body), "site"))
  /\ body = RenderSites(Entries(ToSet(body), "site"))

-----------------------------------------------------------------------------
(* A rule set of sing-box: names, names with all below them, and blocks.      *)

RuleSetKinds == {<<"exact", 0>>, <<"suffix", 0>>} \cup ({"ip", "prefix"} \X Families)

\* Faulty variant: an exact name is written with what lies below it.
ProjectRuleSetWider(plan) ==
  [domain |-> {}, suffix |-> {NameEntry(r.at) : r \in {q \in plan : q.kind \in {"exact", "suffix"}}},
   cidr |-> {Masked(r) : r \in {q \in plan : q.kind \in {"ip", "prefix"}}}]
ProjectRuleSet(plan) ==
  [domain |-> {NameEntry(r.at) : r \in {q \in plan : q.kind = "exact"}},
   suffix |-> {NameEntry(r.at) : r \in {q \in plan : q.kind = "suffix"}},
   cidr |-> {Masked(r) : r \in {q \in plan : q.kind \in {"ip", "prefix"}}}]

RuleSetHolds(rule) ==
  /\ Cardinality(rule.domain) + Cardinality(rule.suffix) + Cardinality(rule.cidr) \in 1 .. MaxLines
  /\ \A e \in rule.domain \cup rule.suffix : IsNamed(e)
  /\ \A e \in rule.cidr : ~IsNamed(e) /\ e[3] # NoMask

RenderRuleSet(rule) ==
  Lines("domain", <<>>, rule.domain) \o Lines("suffix", <<>>, rule.suffix) \o Lines("cidr", <<>>, rule.cidr)

RuleSetOf(body) ==
  [domain |-> Entries(ToSet(body), "domain"), suffix |-> Entries(ToSet(body), "suffix"), cidr |-> Entries(ToSet(body), "cidr")]

ParseRuleSet(body) ==
  /\ Len(body) > 0 /\ \A l \in ToSet(body) : l.is \in {"domain", "suffix", "cidr"}
  /\ RuleSetHolds(RuleSetOf(body))
  /\ body = RenderRuleSet(RuleSetOf(body))

-----------------------------------------------------------------------------
(* The renderers, by what a target names.                                    *)

SupportedRuleKinds ==
  [bat |-> BatKinds, groups |-> GroupKinds, script |-> ScriptKinds, nftset |-> NftsetKinds, sites |-> SitesKinds,
   ruleset |-> RuleSetKinds]

Expressible(f, plan) == \A r \in plan : <<r.kind, r.family>> \in SupportedRuleKinds[f]

\* Whether a plan has a file in a format, and the file.
Renders(f, plan, output) ==
  CASE f = "bat" -> BatHolds(ProjectBat(plan)) [] f = "groups" -> GroupsHold(ProjectGroups(plan, output))
    [] f = "script" -> ScriptHolds(ProjectScript(plan)) [] f = "nftset" -> NftsetHolds(ProjectNftset(plan))
    [] f = "sites" -> SitesHold(ProjectSites(plan)) [] OTHER -> RuleSetHolds(ProjectRuleSet(plan))

Render(f, plan, output) ==
  CASE f = "bat" -> RenderBat(ProjectBat(plan)) [] f = "groups" -> RenderGroups(ProjectGroups(plan, output))
    [] f = "script" -> RenderScript(ProjectScript(plan), FALSE) [] f = "nftset" -> RenderNftset(ProjectNftset(plan))
    [] f = "sites" -> RenderSites(ProjectSites(plan)) [] OTHER -> RenderRuleSet(ProjectRuleSet(plan))

\* The entries counted against the bound of a target, also where there is no file.
ProjectedRuleCount(f, plan, output) ==
  CASE f = "bat" -> Cardinality(ProjectBat(plan))
    [] f = "groups" -> Cardinality(UNION {{g.name} \X g.entries : g \in ProjectGroups(plan, output)})
    [] f = "script" -> Cardinality(ProjectScript(plan)[4]) + Cardinality(ProjectScript(plan)[6])
    [] f = "nftset" -> Cardinality(ProjectNftset(plan))
    [] f = "sites" -> Cardinality(ProjectSites(plan))
    [] OTHER -> Len(RenderRuleSet(ProjectRuleSet(plan)))

\* The sites of a plan cannot be counted where one has a name of one label.
Countable(f, plan) == f = "sites" => \A r \in plan : r.kind = "exact" => r.at \notin Bare

\* A plan is refused before it is rendered where its format cannot say it, or
\* says it in more entries than the target takes.
Preflight(f, plan, output) ==
  /\ Expressible(f, plan) /\ Countable(f, plan)
  /\ MaxRules > 0 => ProjectedRuleCount(f, plan, output) <= MaxRules

Parse(f, body) ==
  CASE f = "bat" -> ParseBat(body) [] f = "groups" -> ParseGroups(body) [] f = "script" -> ParseScript(body)
    [] f = "nftset" -> ParseNftset(body) [] f = "sites" -> ParseSites(body) [] OTHER -> ParseRuleSet(body)

\* What a destination steers by a file.
Steered(f, body) ==
  UNION {Steers(l.entry, f \in {"groups", "nftset"} \/ l.is = "suffix") :
           l \in {k \in ToSet(body) : k.is \notin {"section", "clear", "description"}}}
=============================================================================
