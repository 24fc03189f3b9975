-------------------------- MODULE ServerSetupProofs --------------------------
(***************************************************************************)
(* Safety of the set-up for any number of servers on any host, whatever    *)
(* they are asked for: any addresses, any tree of overrides.               *)
(***************************************************************************)
EXTENDS ServerSetup, SequenceTheorems, TLAPS

----------------------------------------------------------------------------
(***************************************************************************)
(* The inductive invariant: what each step of New and run can rely on.     *)
(***************************************************************************)
Accepted == Steps \ {"config", "options", "disabled", "refused"}
Located == WithWorkdir \cup {"load", "mkdir"}
Rendered == {"permissions", "getwd", "chdir", "running", "restore"}
Entered == {"running", "restore", "remove", "returned", "leftover"}

\* Options as the program has them: addresses are texts.
IsText(t) == \E S : t \in Seq(S)
Complete(o) ==
    /\ o = [listen |-> o.listen, upstream |-> o.upstream, line1 |-> o.line1,
            library |-> o.library, binary |-> o.binary, offline |-> o.offline,
            overrides |-> o.overrides, authType |-> o.authType, mode |-> o.mode, key |-> o.key]
    /\ IsText(o.listen) /\ IsText(o.upstream) /\ o.offline \in BOOLEAN

StateInv ==
    /\ host.system \in BOOLEAN /\ host.download \in BOOLEAN
    /\ pc \in [Servers -> Steps]
    /\ source \in [Servers -> {"none", "path", "env", "blob", "system", "download", "error"}]
    /\ workdirs = {s \in Servers : pc[s] \in WithWorkdir}
    /\ prev \in [Servers -> Servers \cup {Home, NoDir}]
    /\ cwd \in Servers \cup {Home}
    /\ DOMAIN opts = Servers /\ DOMAIN files = Servers

\* The options are the ones asked for, and from New on valid and complete.
OptionsOf(s) ==
    /\ \/ request[s].via = "gate" /\ HasTexts(request[s].config)
       \/ request[s].via = "direct" /\ IsOptions(request[s].options)
    /\ pc[s] = "config" => request[s].via = "gate"
    /\ pc[s] \in Accepted \cup {"options"} =>
        /\ Complete(opts[s])
        /\ opts[s].authType = Asked(s).authType /\ opts[s].mode = Asked(s).mode
    /\ pc[s] \in Accepted => Valid(opts[s]) /\ opts[s].listen # <<>>
OptionsInv == \A s \in Servers : OptionsOf(s)

\* What was located is the first of what was given.
First(s) == source[s] \in Given(s) /\ \A x \in Given(s) : Rank[source[s]] <= Rank[x]
SourceInv == \A s \in Servers : pc[s] \in Located => First(s)

\* The directory fills step by step: the key, if there is one, before the
\* configuration, which is that of the options.
FilesOf(s) ==
    /\ DOMAIN files[s] \subseteq {"key.bin", "config.yml", "permissions.yml"}
    /\ pc[s] \notin WithWorkdir \ {"key"} => files[s] = Empty
    /\ pc[s] \in Rendered \cup {"render"} =>
        /\ "key.bin" \in DOMAIN files[s] <=> opts[s].authType = "floodgate"
        /\ opts[s].authType = "floodgate" => files[s]["key.bin"] = Int_(16)
    /\ pc[s] \in Rendered => "config.yml" \in DOMAIN files[s]
    /\ "config.yml" \in DOMAIN files[s] => files[s]["config.yml"] = Map(buildConfigMap(opts[s]))
FilesInv == \A s \in Servers : FilesOf(s)

\* Only embedded servers move the process, each away from where it was; one
\* that leaves a directory to return Home stays there only if another server
\* has brought the process back.
Moved(s) == Embedded(s) /\ pc[s] \in Entered
DirectoryOf(s) ==
    /\ pc[s] \in {"getwd", "chdir", "restore"} => Embedded(s)
    /\ cwd = s => Moved(s)
    /\ \A t \in Servers : prev[s] = t => t # s /\ Moved(t)
    /\ cwd = s /\ pc[s] \in {"remove", "returned", "leftover"} => prev[s] # Home \/ \E u \in Servers \ {s} : Moved(u)
DirectoryInv == \A s \in Servers : DirectoryOf(s)

Inv == StateInv /\ OptionsInv /\ SourceInv /\ FilesInv /\ DirectoryInv

----------------------------------------------------------------------------
(***************************************************************************)
(* Trees.                                                                  *)
(***************************************************************************)
\* A map is told from every leaf of the configuration by its tag.
LEMMA TagFacts ==
    /\ \A f : IsMap(Map(f)) /\ Map(f)[2] = f
    /\ \A t : ~IsMap(Text(t)) /\ \A n : ~IsMap(Int_(n)) /\ ~IsMap(Word(t))
    /\ \A b \in BOOLEAN : ~IsMap(Bool(b))
    /\ ~IsMap(Absent)
BY DEF IsMap, Map, Text, Int_, Bool, Word, Absent

\* mergeMap and its two inner levels, key by key.
LEMMA LevelFacts ==
    ASSUME NEW dst, NEW src
    PROVE  /\ DOMAIN mergeMap(dst, src) = DOMAIN dst \cup DOMAIN src
           /\ \A k \in DOMAIN dst \ DOMAIN src : mergeMap(dst, src)[k] = dst[k]
           /\ \A k \in DOMAIN src : mergeMap(dst, src)[k] =
                IF k \in DOMAIN dst /\ IsMap(dst[k]) /\ IsMap(src[k])
                THEN Map(mergeSection(dst[k][2], src[k][2])) ELSE src[k]
BY DEF mergeMap, mergeLevel

\* The second level, which stops one level further down.
LEMMA SectionFacts ==
    ASSUME NEW dst, NEW src
    PROVE  /\ DOMAIN mergeSection(dst, src) = DOMAIN dst \cup DOMAIN src
           /\ \A k \in DOMAIN dst \ DOMAIN src : mergeSection(dst, src)[k] = dst[k]
           /\ \A k \in DOMAIN src : mergeSection(dst, src)[k] =
                IF k \in DOMAIN dst /\ IsMap(dst[k]) /\ IsMap(src[k])
                THEN Map(mergeLeaves(dst[k][2], src[k][2])) ELSE src[k]
BY DEF mergeSection, mergeLevel

\* The third level: src wins key by key.
LEMMA LeavesFacts ==
    ASSUME NEW dst, NEW src
    PROVE  /\ DOMAIN mergeLeaves(dst, src) = DOMAIN dst \cup DOMAIN src
           /\ \A k \in DOMAIN dst \ DOMAIN src : mergeLeaves(dst, src)[k] = dst[k]
           /\ \A k \in DOMAIN src : mergeLeaves(dst, src)[k] = src[k]
BY DEF mergeLeaves

\* The value at a path, by its length.
LEMMA AtFacts ==
    ASSUME NEW tree
    PROVE  /\ \A a : At(tree, <<a>>) = Child(tree, a)
           /\ \A a, b : At(tree, <<a, b>>) = Child(Child(tree, a), b)
           /\ \A a, b, c : At(tree, <<a, b, c>>) = Child(Child(Child(tree, a), b), c)
BY DEF At

\* The three forms of a leaf's path.
Leaf1(tree, p) == \E a \in Keys(tree) : p = <<a>> /\ ~IsMap(Child(tree, a))
Leaf2(tree, p) ==
    \E a \in Keys(tree) : \E b \in Keys(Child(tree, a)) :
        p = <<a, b>> /\ ~IsMap(Child(Child(tree, a), b))
Leaf3(tree, p) ==
    \E a \in Keys(tree) : \E b \in Keys(Child(tree, a)) : \E c \in Keys(Child(Child(tree, a), b)) :
        p = <<a, b, c>>

\* A path of a leaf has one, two or three keys, and its keys lead to it.
LEMMA LeafForms ==
    ASSUME NEW tree, NEW p
    PROVE  p \in Leaves(tree) <=> Leaf1(tree, p) \/ Leaf2(tree, p) \/ Leaf3(tree, p)
<1> DEFINE P1 == {<<a>> : a \in Plain(tree)}
           Q2(a) == {<<a, b>> : b \in Plain(Child(tree, a))}
           P2 == UNION {Q2(a) : a \in Keys(tree)}
           R3(a, b) == {<<a, b, c>> : c \in Keys(Child(Child(tree, a), b))}
           Q3(a) == UNION {R3(a, b) : b \in Keys(Child(tree, a))}
           P3 == UNION {Q3(a) : a \in Keys(tree)}
<1>0. Leaves(tree) = P1 \cup P2 \cup P3
  BY Zenon DEF Leaves
<1>1. p \in P1 <=> Leaf1(tree, p)
  BY Zenon DEF Leaf1, Plain
<1>2. p \in P2 <=> Leaf2(tree, p)
  <2>1. ASSUME NEW a PROVE p \in Q2(a) <=> \E b \in Plain(Child(tree, a)) : p = <<a, b>>
    BY Zenon
  <2> HIDE DEF Q2
  <2>2. p \in P2 <=> \E a \in Keys(tree) : p \in Q2(a)
    BY Zenon
  <2> QED
    BY <2>1, <2>2, Zenon DEF Leaf2, Plain
<1>3. p \in P3 <=> Leaf3(tree, p)
  <2>1. ASSUME NEW a, NEW b PROVE p \in R3(a, b) <=> \E c \in Keys(Child(Child(tree, a), b)) : p = <<a, b, c>>
    BY Zenon
  <2> HIDE DEF R3
  <2>2. ASSUME NEW a PROVE p \in Q3(a) <=> \E b \in Keys(Child(tree, a)) : p \in R3(a, b)
    BY Zenon
  <2> HIDE DEF Q3
  <2>3. p \in P3 <=> \E a \in Keys(tree) : p \in Q3(a)
    BY Zenon
  <2>4. ASSUME NEW a PROVE p \in Q3(a) <=> \E b \in Keys(Child(tree, a)) : \E c \in Keys(Child(Child(tree, a), b)) : p = <<a, b, c>>
    BY <2>1, <2>2, Zenon
  <2> QED
    BY <2>3, <2>4, Zenon DEF Leaf3
<1> HIDE DEF P1, P2, P3
<1> QED
  BY <1>0, <1>1, <1>2, <1>3

\* The tree t is d under v, for trees that are one, two and three levels deep
\* where they meet.
Joined(t, d, v) ==
    /\ IsMap(t) /\ Keys(t) = Keys(d) \cup Keys(v)
    /\ \A k : k \notin Keys(v) => Child(t, k) = Child(d, k)
Meet(d, v, k) == IsMap(Child(d, k)) /\ IsMap(Child(v, k))
Merged1(t, d, v) == Joined(t, d, v) /\ \A k \in Keys(v) : Child(t, k) = Child(v, k)
Merged2(t, d, v) ==
    /\ Joined(t, d, v)
    /\ \A k \in Keys(v) : Meet(d, v, k) => Merged1(Child(t, k), Child(d, k), Child(v, k))
    /\ \A k \in Keys(v) : ~Meet(d, v, k) => Child(t, k) = Child(v, k)
Merged3(t, d, v) ==
    /\ Joined(t, d, v)
    /\ \A k \in Keys(v) : Meet(d, v, k) => Merged2(Child(t, k), Child(d, k), Child(v, k))
    /\ \A k \in Keys(v) : ~Meet(d, v, k) => Child(t, k) = Child(v, k)

\* What is under a key of a map; a leaf has no keys.
LEMMA ChildFacts ==
    /\ \A f : Keys(Map(f)) = DOMAIN f /\ \A k \in DOMAIN f : Child(Map(f), k) = f[k]
    /\ \A v : IsMap(v) => Keys(v) = DOMAIN v[2] /\ \A k \in DOMAIN v[2] : Child(v, k) = v[2][k]
    /\ \A v, k : k \notin Keys(v) => Child(v, k) = Absent /\ ~IsMap(Child(v, k))
    /\ \A v, k : k \in Keys(v) => IsMap(v)
BY TagFacts DEF Keys, Child

\* mergeLeaves as a merge of trees, one level deep.
LEMMA MergeLeavesShape ==
    ASSUME NEW d, NEW v, IsMap(d), IsMap(v)
    PROVE  Merged1(Map(mergeLeaves(d[2], v[2])), d, v)
<1> DEFINE f == d[2]
           g == v[2]
           m == mergeLeaves(f, g)
<1>1. /\ Keys(d) = DOMAIN f /\ \A k \in DOMAIN f : Child(d, k) = f[k]
      /\ Keys(v) = DOMAIN g /\ \A k \in DOMAIN g : Child(v, k) = g[k]
  BY ChildFacts, Zenon
<1> HIDE DEF f, g
<1>2. /\ DOMAIN m = DOMAIN f \cup DOMAIN g
      /\ \A k \in DOMAIN f \ DOMAIN g : m[k] = f[k]
  BY LeavesFacts
<1>3. \A k \in DOMAIN g : m[k] = g[k]
  BY DEF mergeLeaves
<1> HIDE DEF m
<1>4. /\ Keys(Map(m)) = DOMAIN m /\ \A k \in DOMAIN m : Child(Map(m), k) = m[k]
      /\ IsMap(Map(m))
  BY ChildFacts, TagFacts, Zenon
<1>5. Joined(Map(m), d, v)
  BY <1>1, <1>2, <1>4, ChildFacts DEF Joined
<1> QED
  BY <1>1, <1>2, <1>3, <1>4, <1>5 DEF Merged1, m, f, g

\* mergeSection as a merge of trees, two levels deep.
LEMMA MergeSectionShape ==
    ASSUME NEW d, NEW v, IsMap(d), IsMap(v)
    PROVE  Merged2(Map(mergeSection(d[2], v[2])), d, v)
<1> DEFINE f == d[2]
           g == v[2]
           m == mergeSection(f, g)
<1>1. /\ Keys(d) = DOMAIN f /\ \A k \in DOMAIN f : Child(d, k) = f[k]
      /\ Keys(v) = DOMAIN g /\ \A k \in DOMAIN g : Child(v, k) = g[k]
  BY ChildFacts, Zenon
<1> HIDE DEF f, g
<1>2. /\ DOMAIN m = DOMAIN f \cup DOMAIN g
      /\ \A k \in DOMAIN f \ DOMAIN g : m[k] = f[k]
  BY SectionFacts
<1>3. \A k \in DOMAIN g : m[k] =
            IF k \in DOMAIN f /\ IsMap(f[k]) /\ IsMap(g[k])
            THEN Map(mergeLeaves(f[k][2], g[k][2])) ELSE g[k]
  BY SectionFacts
<1> HIDE DEF m
<1>4. /\ Keys(Map(m)) = DOMAIN m /\ \A k \in DOMAIN m : Child(Map(m), k) = m[k]
      /\ IsMap(Map(m))
  BY ChildFacts, TagFacts, Zenon
<1>5. Joined(Map(m), d, v)
  BY <1>1, <1>2, <1>4, ChildFacts DEF Joined
<1>6. ASSUME NEW k \in Keys(v), Meet(d, v, k)
      PROVE  Merged1(Child(Map(m), k), Child(d, k), Child(v, k))
  <2>1. k \in DOMAIN f /\ k \in DOMAIN g
    BY <1>1, <1>6, ChildFacts DEF Meet
  <2>2. Child(Map(m), k) = Map(mergeLeaves(Child(d, k)[2], Child(v, k)[2]))
    BY <1>1, <1>2, <1>3, <1>4, <1>6, <2>1 DEF Meet
  <2> QED
    BY <1>6, <2>2, MergeLeavesShape DEF Meet
<1>7. ASSUME NEW k \in Keys(v), ~Meet(d, v, k)
      PROVE  Child(Map(m), k) = Child(v, k)
  BY <1>1, <1>2, <1>3, <1>4, <1>7 DEF Meet
<1> QED
  BY <1>5, <1>6, <1>7, Zenon DEF Merged2, m, f, g

\* mergeMap as a merge of trees, three levels deep.
LEMMA MergeMapShape ==
    ASSUME NEW d, NEW v, IsMap(d), IsMap(v)
    PROVE  Merged3(Map(mergeMap(d[2], v[2])), d, v)
<1> DEFINE f == d[2]
           g == v[2]
           m == mergeMap(f, g)
<1>1. /\ Keys(d) = DOMAIN f /\ \A k \in DOMAIN f : Child(d, k) = f[k]
      /\ Keys(v) = DOMAIN g /\ \A k \in DOMAIN g : Child(v, k) = g[k]
  BY ChildFacts, Zenon
<1> HIDE DEF f, g
<1>2. /\ DOMAIN m = DOMAIN f \cup DOMAIN g
      /\ \A k \in DOMAIN f \ DOMAIN g : m[k] = f[k]
  BY LevelFacts
<1>3. \A k \in DOMAIN g : m[k] =
            IF k \in DOMAIN f /\ IsMap(f[k]) /\ IsMap(g[k])
            THEN Map(mergeSection(f[k][2], g[k][2])) ELSE g[k]
  BY LevelFacts
<1> HIDE DEF m
<1>4. /\ Keys(Map(m)) = DOMAIN m /\ \A k \in DOMAIN m : Child(Map(m), k) = m[k]
      /\ IsMap(Map(m))
  BY ChildFacts, TagFacts, Zenon
<1>5. Joined(Map(m), d, v)
  BY <1>1, <1>2, <1>4, ChildFacts DEF Joined
<1>6. ASSUME NEW k \in Keys(v), Meet(d, v, k)
      PROVE  Merged2(Child(Map(m), k), Child(d, k), Child(v, k))
  <2>1. k \in DOMAIN f /\ k \in DOMAIN g
    BY <1>1, <1>6, ChildFacts DEF Meet
  <2>2. Child(Map(m), k) = Map(mergeSection(Child(d, k)[2], Child(v, k)[2]))
    BY <1>1, <1>2, <1>3, <1>4, <1>6, <2>1 DEF Meet
  <2> QED
    BY <1>6, <2>2, MergeSectionShape DEF Meet
<1>7. ASSUME NEW k \in Keys(v), ~Meet(d, v, k)
      PROVE  Child(Map(m), k) = Child(v, k)
  BY <1>1, <1>2, <1>3, <1>4, <1>7 DEF Meet
<1> QED
  BY <1>5, <1>6, <1>7, Zenon DEF Merged3, m, f, g

\* What t takes from v: every leaf of v.
LEMMA MergedOver ==
    ASSUME NEW t, NEW d, NEW v, Merged3(t, d, v), NEW p \in Leaves(v)
    PROVE  At(t, p) = At(v, p)
<1>1. CASE Leaf1(v, p)
  <2>1. PICK a \in Keys(v) : p = <<a>> /\ ~IsMap(Child(v, a))
    BY <1>1, Zenon DEF Leaf1
  <2>2. Child(t, a) = Child(v, a)
    BY <2>1 DEF Merged3, Meet
  <2> QED
    BY <2>1, <2>2, AtFacts
<1>2. CASE Leaf2(v, p)
  <2>1. PICK a \in Keys(v) : \E b \in Keys(Child(v, a)) : p = <<a, b>> /\ ~IsMap(Child(Child(v, a), b))
    BY <1>2, Zenon DEF Leaf2
  <2>2. PICK b \in Keys(Child(v, a)) : p = <<a, b>> /\ ~IsMap(Child(Child(v, a), b))
    BY <2>1
  <2>3. Child(Child(t, a), b) = Child(Child(v, a), b)
    BY <2>2 DEF Merged3, Merged2, Meet
  <2> QED
    BY <2>2, <2>3, AtFacts
<1>3. CASE Leaf3(v, p)
  <2>1. PICK a \in Keys(v) : \E b \in Keys(Child(v, a)) : \E c \in Keys(Child(Child(v, a), b)) : p = <<a, b, c>>
    BY <1>3, Zenon DEF Leaf3
  <2>2. PICK b \in Keys(Child(v, a)) : \E c \in Keys(Child(Child(v, a), b)) : p = <<a, b, c>>
    BY <2>1
  <2>3. PICK c \in Keys(Child(Child(v, a), b)) : p = <<a, b, c>>
    BY <2>2
  <2>4. Child(Child(Child(t, a), b), c) = Child(Child(Child(v, a), b), c)
    BY DEF Merged3, Merged2, Merged1, Meet
  <2> QED
    BY <2>3, <2>4, AtFacts
<1> QED
  BY <1>1, <1>2, <1>3, LeafForms, Zenon

\* What t keeps of d: every leaf that v spares.
LEMMA MergedUnder ==
    ASSUME NEW t, NEW d, NEW v, Merged3(t, d, v), IsMap(v), NEW p \in Leaves(d), Spares(v, p)
    PROVE  At(t, p) = At(d, p)
<1>0. \A w, k : Silent(w, k) => k \notin Keys(w)
  BY DEF Silent, Keys
<1>1. CASE Leaf1(d, p)
  <2>1. PICK a \in Keys(d) : p = <<a>> /\ ~IsMap(Child(d, a))
    BY <1>1, Zenon DEF Leaf1
  <2>2. Silent(v, a)
    BY <2>1 DEF Spares
  <2>3. Child(t, a) = Child(d, a)
    BY <1>0, <2>2 DEF Merged3, Joined
  <2> QED
    BY <2>1, <2>3, AtFacts
<1>2. CASE Leaf2(d, p)
  <2>1. PICK a \in Keys(d) : \E b \in Keys(Child(d, a)) : p = <<a, b>> /\ ~IsMap(Child(Child(d, a), b))
    BY <1>2, Zenon DEF Leaf2
  <2>2. PICK b \in Keys(Child(d, a)) : p = <<a, b>> /\ ~IsMap(Child(Child(d, a), b))
    BY <2>1
  <2>3. Silent(v, a) \/ Silent(Child(v, a), b)
    BY <2>2 DEF Spares
  <2>4. CASE Silent(v, a)
    BY <1>0, <2>2, <2>4, AtFacts DEF Merged3, Joined
  <2>5. CASE Silent(Child(v, a), b)
    <3>1. IsMap(Child(d, a)) /\ IsMap(Child(v, a)) /\ a \in Keys(v) /\ b \notin Keys(Child(v, a))
      BY <1>0, <2>5, ChildFacts DEF Silent
    <3>2. Child(Child(t, a), b) = Child(Child(d, a), b)
      BY <3>1 DEF Merged3, Merged2, Joined, Meet
    <3> QED
      BY <2>2, <3>2, AtFacts
  <2> QED
    BY <2>3, <2>4, <2>5
<1>3. CASE Leaf3(d, p)
  <2>1. PICK a \in Keys(d) : \E b \in Keys(Child(d, a)) : \E c \in Keys(Child(Child(d, a), b)) : p = <<a, b, c>>
    BY <1>3, Zenon DEF Leaf3
  <2>2. PICK b \in Keys(Child(d, a)) : \E c \in Keys(Child(Child(d, a), b)) : p = <<a, b, c>>
    BY <2>1
  <2>3. PICK c \in Keys(Child(Child(d, a), b)) : p = <<a, b, c>>
    BY <2>2
  <2>4. Silent(v, a) \/ Silent(Child(v, a), b) \/ Silent(Child(Child(v, a), b), c)
    BY <2>3 DEF Spares
  <2>5. Child(Child(Child(t, a), b), c) = Child(Child(Child(d, a), b), c)
    <3>1. CASE Silent(v, a)
      BY <1>0, <3>1 DEF Merged3, Joined
    <3>2. CASE Silent(Child(v, a), b)
      <4>1. IsMap(Child(d, a)) /\ IsMap(Child(v, a)) /\ a \in Keys(v) /\ b \notin Keys(Child(v, a))
        BY <1>0, <3>2, ChildFacts DEF Silent
      <4> QED
        BY <4>1 DEF Merged3, Merged2, Joined, Meet
    <3>3. CASE Silent(Child(Child(v, a), b), c)
      <4>1. /\ IsMap(Child(Child(d, a), b)) /\ IsMap(Child(Child(v, a), b))
            /\ b \in Keys(Child(v, a)) /\ c \notin Keys(Child(Child(v, a), b))
        BY <1>0, <3>3, ChildFacts DEF Silent
      <4>2. IsMap(Child(d, a)) /\ IsMap(Child(v, a)) /\ a \in Keys(v)
        BY <4>1, ChildFacts
      <4> QED
        BY <4>1, <4>2 DEF Merged3, Merged2, Merged1, Joined, Meet
    <3> QED
      BY <2>4, <3>1, <3>2, <3>3
  <2> QED
    BY <2>3, <2>5, AtFacts
<1> QED
  BY <1>1, <1>2, <1>3, LeafForms, Zenon

\* What t has besides: every leaf that v does not give is a leaf of d that v
\* spares.
LEMMA MergedOnly ==
    ASSUME NEW t, NEW d, NEW v, Merged3(t, d, v), IsMap(v), NEW p \in Leaves(t), p \notin Leaves(v)
    PROVE  Spares(v, p) /\ p \in Leaves(d)
<1>0. \A w, k : IsMap(w) /\ k \notin Keys(w) => Silent(w, k)
  BY DEF Silent, Keys
<1>1. CASE Leaf1(t, p)
  <2>1. PICK a \in Keys(t) : p = <<a>> /\ ~IsMap(Child(t, a))
    BY <1>1, Zenon DEF Leaf1
  <2>2. ASSUME a \in Keys(v) PROVE FALSE
    <3>1. Child(t, a) = Child(v, a)
      BY <2>1, <2>2 DEF Merged3, Merged2, Joined
    <3> QED
      BY <2>1, <2>2, <3>1, LeafForms, Zenon DEF Leaf1
  <2>3. a \in Keys(d) /\ Child(t, a) = Child(d, a)
    BY <2>2 DEF Merged3, Joined
  <2>4. Leaf1(d, p)
    BY <2>1, <2>3, Zenon DEF Leaf1
  <2>5. Spares(v, p)
    BY <1>0, <2>1, <2>2 DEF Spares
  <2> QED
    BY <2>4, <2>5, LeafForms, Zenon
<1>2. CASE Leaf2(t, p)
  <2>1. PICK a \in Keys(t) : \E b \in Keys(Child(t, a)) : p = <<a, b>> /\ ~IsMap(Child(Child(t, a), b))
    BY <1>2, Zenon DEF Leaf2
  <2>2. PICK b \in Keys(Child(t, a)) : p = <<a, b>> /\ ~IsMap(Child(Child(t, a), b))
    BY <2>1
  <2>a. ~Leaf2(v, p)
    BY LeafForms, Zenon
  <2>3. CASE a \notin Keys(v)
    <3>1. a \in Keys(d) /\ Child(t, a) = Child(d, a)
      BY <2>3 DEF Merged3, Joined
    <3>2. Leaf2(d, p)
      BY <2>2, <3>1, Zenon DEF Leaf2
    <3>3. Spares(v, p)
      BY <1>0, <2>2, <2>3 DEF Spares
    <3> QED
      BY <3>2, <3>3, LeafForms, Zenon
  <2>4. CASE a \in Keys(v) /\ ~Meet(d, v, a)
    <3>1. Child(t, a) = Child(v, a)
      BY <2>4 DEF Merged3
    <3> QED
      BY <2>2, <2>4, <2>a, <3>1, Zenon DEF Leaf2
  <2>5. CASE a \in Keys(v) /\ Meet(d, v, a)
    <3>1. Merged2(Child(t, a), Child(d, a), Child(v, a))
      BY <2>5 DEF Merged3
    <3>2. ASSUME b \in Keys(Child(v, a)) PROVE FALSE
      <4>1. Child(Child(t, a), b) = Child(Child(v, a), b)
        BY <2>2, <3>1, <3>2 DEF Merged2, Merged1, Joined
      <4> QED
        BY <2>2, <2>5, <2>a, <3>2, <4>1, Zenon DEF Leaf2
    <3>3. a \in Keys(d) /\ b \in Keys(Child(d, a)) /\ Child(Child(t, a), b) = Child(Child(d, a), b)
      BY <2>5, <3>1, <3>2, ChildFacts DEF Merged2, Joined, Meet
    <3>4. Leaf2(d, p)
      BY <2>2, <3>3, Zenon DEF Leaf2
    <3>5. Spares(v, p)
      BY <1>0, <2>2, <2>5, <3>2 DEF Spares, Meet
    <3> QED
      BY <3>4, <3>5, LeafForms, Zenon
  <2> QED
    BY <2>3, <2>4, <2>5
<1>3. CASE Leaf3(t, p)
  <2>1. PICK a \in Keys(t) : \E b \in Keys(Child(t, a)) : \E c \in Keys(Child(Child(t, a), b)) : p = <<a, b, c>>
    BY <1>3, Zenon DEF Leaf3
  <2>2. PICK b \in Keys(Child(t, a)) : \E c \in Keys(Child(Child(t, a), b)) : p = <<a, b, c>>
    BY <2>1
  <2>3. PICK c \in Keys(Child(Child(t, a), b)) : p = <<a, b, c>>
    BY <2>2
  <2>a. ~Leaf3(v, p)
    BY LeafForms, Zenon
  <2>b. ASSUME a \in Keys(d), b \in Keys(Child(d, a)), c \in Keys(Child(Child(d, a), b)),
               \/ Silent(v, a) \/ Silent(Child(v, a), b) \/ Silent(Child(Child(v, a), b), c)
        PROVE  Spares(v, p) /\ p \in Leaves(d)
    <3>1. Leaf3(d, p)
      BY <2>3, <2>b, Zenon DEF Leaf3
    <3>2. Spares(v, p)
      BY <2>3, <2>b DEF Spares
    <3> QED
      BY <3>1, <3>2, LeafForms, Zenon
  <2>4. CASE a \notin Keys(v)
    <3>1. a \in Keys(d) /\ Child(t, a) = Child(d, a)
      BY <2>4 DEF Merged3, Joined
    <3> QED
      BY <1>0, <2>3, <2>4, <2>b, <3>1
  <2>5. CASE a \in Keys(v) /\ ~Meet(d, v, a)
    <3>1. Child(t, a) = Child(v, a)
      BY <2>5 DEF Merged3
    <3> QED
      BY <2>3, <2>5, <2>a, <3>1, Zenon DEF Leaf3
  <2>6. CASE a \in Keys(v) /\ Meet(d, v, a)
    <3>1. Merged2(Child(t, a), Child(d, a), Child(v, a)) /\ IsMap(Child(v, a)) /\ a \in Keys(d)
      BY <2>6, ChildFacts DEF Merged3, Meet
    <3>2. CASE b \notin Keys(Child(v, a))
      <4>1. b \in Keys(Child(d, a)) /\ Child(Child(t, a), b) = Child(Child(d, a), b)
        BY <3>1, <3>2 DEF Merged2, Joined
      <4> QED
        BY <1>0, <2>3, <2>b, <3>1, <3>2, <4>1
    <3>3. CASE b \in Keys(Child(v, a)) /\ ~Meet(Child(d, a), Child(v, a), b)
      <4>1. Child(Child(t, a), b) = Child(Child(v, a), b)
        BY <3>1, <3>3 DEF Merged2
      <4> QED
        BY <2>3, <2>6, <2>a, <3>3, <4>1, Zenon DEF Leaf3
    <3>4. CASE b \in Keys(Child(v, a)) /\ Meet(Child(d, a), Child(v, a), b)
      <4>1. /\ Merged1(Child(Child(t, a), b), Child(Child(d, a), b), Child(Child(v, a), b))
            /\ IsMap(Child(Child(v, a), b)) /\ b \in Keys(Child(d, a))
        BY <3>1, <3>4, ChildFacts DEF Merged2, Meet
      <4>2. ASSUME c \in Keys(Child(Child(v, a), b)) PROVE FALSE
        BY <2>3, <2>6, <2>a, <3>4, <4>2, Zenon DEF Leaf3
      <4>3. c \in Keys(Child(Child(d, a), b))
        BY <2>3, <4>1, <4>2 DEF Merged1, Joined
      <4> QED
        BY <1>0, <2>b, <3>1, <4>1, <4>2, <4>3
    <3> QED
      BY <3>2, <3>3, <3>4
  <2> QED
    BY <2>4, <2>5, <2>6
<1> QED
  BY <1>1, <1>2, <1>3, LeafForms, Zenon

----------------------------------------------------------------------------
(***************************************************************************)
(* The configuration before the overrides.                                 *)
(***************************************************************************)
Listen(o) == splitHostPort(o.listen, ListenHost, 19132)
Upstream(o) == splitHostPort(o.upstream, UpstreamHost, 25565)
Motd(o) == Word(IF o.line1 = "" THEN "geyserlite" ELSE o.line1)
AuthWord(o) == Word(AuthString(o.authType))
Proxied(o) == Bool(o.authType = "floodgate")
Base(o) == KeyFile(o, mergeMap(baselineConfigYAML, Knobs(o)))

\* The baseline, key by key.
LEMMA BaselineFacts ==
    ASSUME NEW d, d = Map(baselineConfigYAML)
    PROVE  /\ IsMap(d) /\ Keys(d) = {"bedrock", "java", "advanced", "mtu"}
           /\ IsMap(Child(d, "bedrock")) /\ IsMap(Child(d, "java")) /\ IsMap(Child(d, "advanced"))
           /\ Child(d, "mtu") = Int_(1400)
           /\ Keys(Child(d, "bedrock")) = {"address", "port", "motd1", "compressionLevel"}
           /\ Child(Child(d, "bedrock"), "compressionLevel") = Int_(6)
           /\ Keys(Child(d, "java")) = {"address", "port", "authType"}
           /\ Keys(Child(d, "advanced")) = {"java"}
           /\ IsMap(Child(Child(d, "advanced"), "java"))
           /\ Keys(Child(Child(d, "advanced"), "java")) = {"useHaproxyProtocol"}
<1> DEFINE B == [address |-> Text(ListenHost), port |-> Int_(19132), motd1 |-> Word("geyserlite"),
                 compressionLevel |-> Int_(6)]
           J == [address |-> Text(UpstreamHost), port |-> Int_(25565), authType |-> Word("floodgate")]
           H == [useHaproxyProtocol |-> Bool(FALSE)]
           A == [java |-> Map(H)]
<1>1. baselineConfigYAML = [bedrock |-> Map(B), java |-> Map(J), advanced |-> Map(A), mtu |-> Int_(1400)]
  BY DEF baselineConfigYAML
<1>2. /\ DOMAIN B = {"address", "port", "motd1", "compressionLevel"} /\ B["compressionLevel"] = Int_(6)
      /\ DOMAIN J = {"address", "port", "authType"}
      /\ DOMAIN A = {"java"} /\ A["java"] = Map(H)
      /\ DOMAIN H = {"useHaproxyProtocol"}
  OBVIOUS
<1> HIDE DEF B, J, A, H
<1>3. /\ DOMAIN baselineConfigYAML = {"bedrock", "java", "advanced", "mtu"}
      /\ baselineConfigYAML["bedrock"] = Map(B) /\ baselineConfigYAML["java"] = Map(J)
      /\ baselineConfigYAML["advanced"] = Map(A) /\ baselineConfigYAML["mtu"] = Int_(1400)
  BY <1>1
<1>4. /\ IsMap(d) /\ Keys(d) = {"bedrock", "java", "advanced", "mtu"}
      /\ Child(d, "bedrock") = Map(B) /\ Child(d, "java") = Map(J)
      /\ Child(d, "advanced") = Map(A) /\ Child(d, "mtu") = Int_(1400)
  BY <1>3, ChildFacts, TagFacts
<1> QED
  BY <1>2, <1>4, ChildFacts, TagFacts

\* The sections that the typed options write.
LEMMA KnobSections ==
    ASSUME NEW o
    PROVE  /\ DOMAIN Knobs(o) = {"bedrock", "java", "advanced"}
           /\ Knobs(o)["bedrock"] =
                Map([address |-> Listen(o).address, port |-> Listen(o).port,
                     motd1 |-> IF o.line1 = "" THEN Word("geyserlite") ELSE Word(o.line1)])
           /\ Knobs(o)["java"] =
                Map([address |-> Upstream(o).address, port |-> Upstream(o).port,
                     authType |-> Word(AuthString(o.authType))])
           /\ Knobs(o)["advanced"] =
                Map([java |-> Map([useHaproxyProtocol |-> Bool(o.authType = "floodgate")])])
BY DEF Knobs, Listen, Upstream

\* The typed options, key by key.
LEMMA KnobFacts ==
    ASSUME NEW o, NEW v, v = Map(Knobs(o))
    PROVE  /\ IsMap(v) /\ Keys(v) = {"bedrock", "java", "advanced"}
           /\ IsMap(Child(v, "bedrock")) /\ IsMap(Child(v, "java")) /\ IsMap(Child(v, "advanced"))
           /\ Keys(Child(v, "bedrock")) = {"address", "port", "motd1"}
           /\ Child(Child(v, "bedrock"), "address") = Listen(o).address
           /\ Child(Child(v, "bedrock"), "port") = Listen(o).port
           /\ Child(Child(v, "bedrock"), "motd1") = Motd(o)
           /\ Keys(Child(v, "java")) = {"address", "port", "authType"}
           /\ Child(Child(v, "java"), "address") = Upstream(o).address
           /\ Child(Child(v, "java"), "port") = Upstream(o).port
           /\ Child(Child(v, "java"), "authType") = AuthWord(o)
           /\ Keys(Child(v, "advanced")) = {"java"}
           /\ IsMap(Child(Child(v, "advanced"), "java"))
           /\ Keys(Child(Child(v, "advanced"), "java")) = {"useHaproxyProtocol"}
           /\ Child(Child(Child(v, "advanced"), "java"), "useHaproxyProtocol") = Proxied(o)
<1> DEFINE M == IF o.line1 = "" THEN Word("geyserlite") ELSE Word(o.line1)
           W == Word(AuthString(o.authType))
           X == Bool(o.authType = "floodgate")
           B == [address |-> Listen(o).address, port |-> Listen(o).port, motd1 |-> M]
           J == [address |-> Upstream(o).address, port |-> Upstream(o).port, authType |-> W]
           H == [useHaproxyProtocol |-> X]
           A == [java |-> Map(H)]
<1>a. M = Motd(o) /\ W = AuthWord(o) /\ X = Proxied(o)
  BY DEF Motd, AuthWord, Proxied
<1> HIDE DEF M, W, X
<1>2. /\ DOMAIN B = {"address", "port", "motd1"}
      /\ B["address"] = Listen(o).address /\ B["port"] = Listen(o).port /\ B["motd1"] = M
      /\ DOMAIN J = {"address", "port", "authType"}
      /\ J["address"] = Upstream(o).address /\ J["port"] = Upstream(o).port /\ J["authType"] = W
      /\ DOMAIN A = {"java"} /\ A["java"] = Map(H)
      /\ DOMAIN H = {"useHaproxyProtocol"} /\ H["useHaproxyProtocol"] = X
  OBVIOUS
<1> HIDE DEF B, J, A, H
<1>3. /\ DOMAIN Knobs(o) = {"bedrock", "java", "advanced"}
      /\ Knobs(o)["bedrock"] = Map(B) /\ Knobs(o)["java"] = Map(J) /\ Knobs(o)["advanced"] = Map(A)
  BY KnobSections, Zenon DEF B, J, A, H, M, W, X
<1>4. /\ IsMap(v) /\ Keys(v) = {"bedrock", "java", "advanced"}
      /\ Child(v, "bedrock") = Map(B) /\ Child(v, "java") = Map(J) /\ Child(v, "advanced") = Map(A)
  BY <1>3, ChildFacts, TagFacts
<1>5. /\ IsMap(Child(v, "bedrock")) /\ Keys(Child(v, "bedrock")) = {"address", "port", "motd1"}
      /\ Child(Child(v, "bedrock"), "address") = Listen(o).address
      /\ Child(Child(v, "bedrock"), "port") = Listen(o).port
      /\ Child(Child(v, "bedrock"), "motd1") = M
  BY <1>2, <1>4, ChildFacts, TagFacts
<1>6. /\ IsMap(Child(v, "java")) /\ Keys(Child(v, "java")) = {"address", "port", "authType"}
      /\ Child(Child(v, "java"), "address") = Upstream(o).address
      /\ Child(Child(v, "java"), "port") = Upstream(o).port
      /\ Child(Child(v, "java"), "authType") = W
  BY <1>2, <1>4, ChildFacts, TagFacts
<1>7. /\ IsMap(Child(v, "advanced")) /\ Keys(Child(v, "advanced")) = {"java"}
      /\ Child(Child(v, "advanced"), "java") = Map(H)
      /\ IsMap(Map(H)) /\ Keys(Map(H)) = {"useHaproxyProtocol"} /\ Child(Map(H), "useHaproxyProtocol") = X
  BY <1>2, <1>4, ChildFacts, TagFacts
<1> QED
  BY <1>4, <1>5, <1>6, <1>7, <1>a, Zenon

\* The tree d is the configuration of o as it is before the overrides.
BaseTree(o, d) ==
    /\ IsMap(d)
    /\ Keys(d) = {k \in {"bedrock", "java", "advanced", "mtu", "floodgateKeyFile"} :
                    k = "floodgateKeyFile" => o.authType = "floodgate"}
    /\ Child(d, "mtu") = Int_(1400)
    /\ o.authType = "floodgate" => Child(d, "floodgateKeyFile") = Word("key.bin")
    /\ IsMap(Child(d, "bedrock")) /\ IsMap(Child(d, "java")) /\ IsMap(Child(d, "advanced"))
    /\ Keys(Child(d, "bedrock")) = {"address", "port", "motd1", "compressionLevel"}
    /\ Child(Child(d, "bedrock"), "address") = Listen(o).address
    /\ Child(Child(d, "bedrock"), "port") = Listen(o).port
    /\ Child(Child(d, "bedrock"), "motd1") = Motd(o)
    /\ Child(Child(d, "bedrock"), "compressionLevel") = Int_(6)
    /\ Keys(Child(d, "java")) = {"address", "port", "authType"}
    /\ Child(Child(d, "java"), "address") = Upstream(o).address
    /\ Child(Child(d, "java"), "port") = Upstream(o).port
    /\ Child(Child(d, "java"), "authType") = AuthWord(o)
    /\ Keys(Child(d, "advanced")) = {"java"} /\ IsMap(Child(Child(d, "advanced"), "java"))
    /\ Keys(Child(Child(d, "advanced"), "java")) = {"useHaproxyProtocol"}
    /\ Child(Child(Child(d, "advanced"), "java"), "useHaproxyProtocol") = Proxied(o)

\* An address is a text and a port a number, whatever was split.
LEMMA AddressValues ==
    ASSUME NEW s, NEW h, NEW n
    PROVE  ~IsMap(splitHostPort(s, h, n).address) /\ ~IsMap(splitHostPort(s, h, n).port)
BY TagFacts DEF splitHostPort

\* Baseline, typed options and key file together have the tree BaseTree.
LEMMA BaseIsTree ==
    ASSUME NEW o
    PROVE  BaseTree(o, Map(Base(o)))
<1> DEFINE d == Map(baselineConfigYAML)
           v == Map(Knobs(o))
           m == mergeMap(baselineConfigYAML, Knobs(o))
           c == Map(m)
           e == Map(Base(o))
<1>1. d[2] = baselineConfigYAML /\ v[2] = Knobs(o) /\ IsMap(d) /\ IsMap(v)
  BY TagFacts, Zenon
<1>2. Merged3(c, d, v)
  BY <1>1, MergeMapShape, Zenon
<1>3. /\ Keys(d) = {"bedrock", "java", "advanced", "mtu"}
      /\ IsMap(Child(d, "bedrock")) /\ IsMap(Child(d, "java")) /\ IsMap(Child(d, "advanced"))
      /\ Child(d, "mtu") = Int_(1400)
      /\ Keys(Child(d, "bedrock")) = {"address", "port", "motd1", "compressionLevel"}
      /\ Child(Child(d, "bedrock"), "compressionLevel") = Int_(6)
      /\ Keys(Child(d, "java")) = {"address", "port", "authType"}
      /\ Keys(Child(d, "advanced")) = {"java"}
      /\ IsMap(Child(Child(d, "advanced"), "java"))
      /\ Keys(Child(Child(d, "advanced"), "java")) = {"useHaproxyProtocol"}
  BY BaselineFacts
<1>4. /\ Keys(v) = {"bedrock", "java", "advanced"}
      /\ IsMap(Child(v, "bedrock")) /\ IsMap(Child(v, "java")) /\ IsMap(Child(v, "advanced"))
      /\ Keys(Child(v, "bedrock")) = {"address", "port", "motd1"}
      /\ Child(Child(v, "bedrock"), "address") = Listen(o).address
      /\ Child(Child(v, "bedrock"), "port") = Listen(o).port
      /\ Child(Child(v, "bedrock"), "motd1") = Motd(o)
      /\ Keys(Child(v, "java")) = {"address", "port", "authType"}
      /\ Child(Child(v, "java"), "address") = Upstream(o).address
      /\ Child(Child(v, "java"), "port") = Upstream(o).port
      /\ Child(Child(v, "java"), "authType") = AuthWord(o)
      /\ Keys(Child(v, "advanced")) = {"java"}
      /\ IsMap(Child(Child(v, "advanced"), "java"))
      /\ Keys(Child(Child(v, "advanced"), "java")) = {"useHaproxyProtocol"}
      /\ Child(Child(Child(v, "advanced"), "java"), "useHaproxyProtocol") = Proxied(o)
  BY KnobFacts
<1>5. /\ IsMap(c) /\ Keys(c) = DOMAIN m /\ \A k \in DOMAIN m : Child(c, k) = m[k]
  BY TagFacts, ChildFacts, Zenon
<1>6. /\ IsMap(e) /\ Keys(e) = DOMAIN Base(o) /\ \A k \in DOMAIN Base(o) : Child(e, k) = Base(o)[k]
  BY TagFacts, ChildFacts, Zenon
<1>7. Base(o) = IF o.authType = "floodgate" THEN Put(m, "floodgateKeyFile", Word("key.bin")) ELSE m
  BY Zenon DEF Base, KeyFile
<1>a. ~IsMap(Listen(o).address) /\ ~IsMap(Listen(o).port) /\ ~IsMap(Upstream(o).address) /\ ~IsMap(Upstream(o).port)
  BY AddressValues DEF Listen, Upstream
<1>b. ~IsMap(Motd(o)) /\ ~IsMap(AuthWord(o))
  BY TagFacts, Zenon DEF Motd, AuthWord
<1> HIDE DEF d, v, c, m, e
<1>8. /\ Keys(c) = {"bedrock", "java", "advanced", "mtu"} /\ Child(c, "mtu") = Int_(1400)
      /\ Merged2(Child(c, "bedrock"), Child(d, "bedrock"), Child(v, "bedrock"))
      /\ Merged2(Child(c, "java"), Child(d, "java"), Child(v, "java"))
      /\ Merged2(Child(c, "advanced"), Child(d, "advanced"), Child(v, "advanced"))
  BY <1>2, <1>3, <1>4 DEF Merged3, Joined, Meet
<1>9. /\ Keys(e) = {k \in {"bedrock", "java", "advanced", "mtu", "floodgateKeyFile"} :
                      k = "floodgateKeyFile" => o.authType = "floodgate"}
      /\ \A k \in Keys(c) : Child(e, k) = Child(c, k)
      /\ o.authType = "floodgate" => Child(e, "floodgateKeyFile") = Word("key.bin")
  <2>1. CASE o.authType = "floodgate"
    <3>1. Base(o) = Put(m, "floodgateKeyFile", Word("key.bin"))
      BY <1>7, <2>1
    <3>2. /\ DOMAIN Base(o) = DOMAIN m \cup {"floodgateKeyFile"}
          /\ \A k \in DOMAIN m : k # "floodgateKeyFile" => Base(o)[k] = m[k]
          /\ Base(o)["floodgateKeyFile"] = Word("key.bin")
      BY <3>1 DEF Put
    <3>3. DOMAIN m = {"bedrock", "java", "advanced", "mtu"}
      BY <1>5, <1>8
    <3>4. Keys(e) = {"bedrock", "java", "advanced", "mtu"} \cup {"floodgateKeyFile"}
      BY <1>6, <3>2, <3>3
    <3>5. \A k \in Keys(c) : Child(e, k) = Child(c, k)
      BY <1>5, <1>6, <3>2, <3>3
    <3>6. Child(e, "floodgateKeyFile") = Word("key.bin")
      BY <1>6, <3>2
    <3> QED
      BY <2>1, <3>4, <3>5, <3>6
  <2>2. CASE o.authType # "floodgate"
    <3>1. Base(o) = m
      BY <1>7, <2>2
    <3>2. Keys(e) = {"bedrock", "java", "advanced", "mtu"} /\ \A k \in Keys(c) : Child(e, k) = Child(c, k)
      <4>1. Keys(e) = DOMAIN m /\ \A k \in DOMAIN m : Child(e, k) = m[k]
        BY <1>6, <3>1, Zenon
      <4>2. \A k \in Keys(c) : Child(e, k) = Child(c, k)
        BY <1>5, <4>1
      <4>3. Keys(e) = Keys(c)
        BY <1>5, <4>1, Zenon
      <4> QED
        BY <1>8, <4>2, <4>3
    <3> QED
      BY <2>2, <3>2
  <2> QED
    BY <2>1, <2>2
<1>10. /\ IsMap(Child(c, "bedrock"))
       /\ Keys(Child(c, "bedrock")) = {"address", "port", "motd1", "compressionLevel"}
       /\ Child(Child(c, "bedrock"), "address") = Listen(o).address
       /\ Child(Child(c, "bedrock"), "port") = Listen(o).port
       /\ Child(Child(c, "bedrock"), "motd1") = Motd(o)
       /\ Child(Child(c, "bedrock"), "compressionLevel") = Int_(6)
  BY <1>3, <1>4, <1>8, <1>a, <1>b DEF Merged2, Joined, Meet
<1>11. /\ IsMap(Child(c, "java")) /\ Keys(Child(c, "java")) = {"address", "port", "authType"}
       /\ Child(Child(c, "java"), "address") = Upstream(o).address
       /\ Child(Child(c, "java"), "port") = Upstream(o).port
       /\ Child(Child(c, "java"), "authType") = AuthWord(o)
  BY <1>3, <1>4, <1>8, <1>a, <1>b DEF Merged2, Joined, Meet
<1>12. /\ IsMap(Child(c, "advanced")) /\ Keys(Child(c, "advanced")) = {"java"}
       /\ Merged1(Child(Child(c, "advanced"), "java"), Child(Child(d, "advanced"), "java"), Child(Child(v, "advanced"), "java"))
  BY <1>3, <1>4, <1>8 DEF Merged2, Joined, Meet
<1>13. /\ IsMap(Child(Child(c, "advanced"), "java"))
       /\ Keys(Child(Child(c, "advanced"), "java")) = {"useHaproxyProtocol"}
       /\ Child(Child(Child(c, "advanced"), "java"), "useHaproxyProtocol") = Proxied(o)
  BY <1>3, <1>4, <1>12 DEF Merged1, Joined
<1>14. BaseTree(o, e)
  BY <1>6, <1>8, <1>9, <1>10, <1>11, <1>12, <1>13 DEF BaseTree
<1> QED
  BY <1>14 DEF e

\* BaseTree agrees with the table Default of the property.
LEMMA DefaultValues ==
    ASSUME NEW o
    PROVE  /\ Default(o, <<"bedrock", "motd1">>) = Motd(o)
           /\ Default(o, <<"bedrock", "compressionLevel">>) = Int_(6)
           /\ Default(o, <<"java", "authType">>) = AuthWord(o)
           /\ Default(o, <<"advanced", "java", "useHaproxyProtocol">>) = Proxied(o)
           /\ Default(o, <<"mtu">>) = Int_(1400)
           /\ Default(o, <<"floodgateKeyFile">>) = Word("key.bin")
<1>1. Default(o, <<"bedrock", "motd1">>) = Motd(o)
  BY DEF Default, Motd
<1>2. Default(o, <<"bedrock", "compressionLevel">>) = Int_(6)
  BY DEF Default
<1>3. Default(o, <<"java", "authType">>) = AuthWord(o)
  BY DEF Default, AuthWord, AuthString
<1>4. Default(o, <<"advanced", "java", "useHaproxyProtocol">>) = Proxied(o)
  BY DEF Default, Proxied
<1>5. Default(o, <<"mtu">>) = Int_(1400)
  BY DEF Default
<1>6. Default(o, <<"floodgateKeyFile">>) = Word("key.bin")
  BY DEF Default
<1> QED
  BY <1>1, <1>2, <1>3, <1>4, <1>5, <1>6

\* The leaves before the overrides are the default and the address paths.
LEMMA BaseLeaves ==
    ASSUME NEW o, NEW d, BaseTree(o, d)
    PROVE  /\ \A p \in DefaultPaths(o) : p \in Leaves(d) /\ At(d, p) = Default(o, p)
           /\ \A p \in AddressPaths : p \in Leaves(d)
           /\ At(d, <<"bedrock", "address">>) = Listen(o).address
           /\ At(d, <<"bedrock", "port">>) = Listen(o).port
           /\ At(d, <<"java", "address">>) = Upstream(o).address
           /\ At(d, <<"java", "port">>) = Upstream(o).port
           /\ Leaves(d) \subseteq DefaultPaths(o) \cup AddressPaths
<1>0. /\ ~IsMap(Listen(o).address) /\ ~IsMap(Listen(o).port)
      /\ ~IsMap(Upstream(o).address) /\ ~IsMap(Upstream(o).port)
      /\ ~IsMap(Motd(o)) /\ ~IsMap(AuthWord(o)) /\ ~IsMap(Int_(6)) /\ ~IsMap(Int_(1400)) /\ ~IsMap(Word("key.bin"))
  <2>1. /\ ~IsMap(Listen(o).address) /\ ~IsMap(Listen(o).port)
        /\ ~IsMap(Upstream(o).address) /\ ~IsMap(Upstream(o).port)
    BY AddressValues DEF Listen, Upstream
  <2>2. ~IsMap(Motd(o)) /\ ~IsMap(AuthWord(o)) /\ ~IsMap(Word("key.bin"))
    BY TagFacts, Zenon DEF Motd, AuthWord
  <2>3. ~IsMap(Int_(6)) /\ ~IsMap(Int_(1400))
    BY TagFacts
  <2> QED
    BY <2>1, <2>2, <2>3
<1>1. ASSUME NEW a \in Keys(d), ~IsMap(Child(d, a)) PROVE <<a>> \in Leaves(d)
  BY <1>1, LeafForms, Zenon DEF Leaf1
<1>2. ASSUME NEW a \in Keys(d), NEW b \in Keys(Child(d, a)), ~IsMap(Child(Child(d, a), b))
      PROVE  <<a, b>> \in Leaves(d)
  BY <1>2, LeafForms, Zenon DEF Leaf2
<1>3. <<"mtu">> \in Leaves(d) /\ At(d, <<"mtu">>) = Int_(1400)
  BY <1>0, <1>1, AtFacts DEF BaseTree
<1>4. o.authType = "floodgate" =>
        <<"floodgateKeyFile">> \in Leaves(d) /\ At(d, <<"floodgateKeyFile">>) = Word("key.bin")
  BY <1>0, <1>1, AtFacts DEF BaseTree
<1>5. /\ <<"bedrock", "address">> \in Leaves(d) /\ At(d, <<"bedrock", "address">>) = Listen(o).address
      /\ <<"bedrock", "port">> \in Leaves(d) /\ At(d, <<"bedrock", "port">>) = Listen(o).port
      /\ <<"bedrock", "motd1">> \in Leaves(d) /\ At(d, <<"bedrock", "motd1">>) = Motd(o)
      /\ <<"bedrock", "compressionLevel">> \in Leaves(d) /\ At(d, <<"bedrock", "compressionLevel">>) = Int_(6)
  BY <1>0, <1>2, AtFacts DEF BaseTree
<1>6. /\ <<"java", "address">> \in Leaves(d) /\ At(d, <<"java", "address">>) = Upstream(o).address
      /\ <<"java", "port">> \in Leaves(d) /\ At(d, <<"java", "port">>) = Upstream(o).port
      /\ <<"java", "authType">> \in Leaves(d) /\ At(d, <<"java", "authType">>) = AuthWord(o)
  BY <1>0, <1>2, AtFacts DEF BaseTree
<1>7. /\ <<"advanced", "java", "useHaproxyProtocol">> \in Leaves(d)
      /\ At(d, <<"advanced", "java", "useHaproxyProtocol">>) = Proxied(o)
  <2>1. Leaf3(d, <<"advanced", "java", "useHaproxyProtocol">>)
    BY DEF BaseTree, Leaf3
  <2> QED
    BY <2>1, LeafForms, AtFacts DEF BaseTree
<1>8. ASSUME NEW p \in DefaultPaths(o) PROVE p \in Leaves(d) /\ At(d, p) = Default(o, p)
  <2>1. \/ p = <<"bedrock", "motd1">> \/ p = <<"bedrock", "compressionLevel">> \/ p = <<"java", "authType">>
        \/ p = <<"advanced", "java", "useHaproxyProtocol">> \/ p = <<"mtu">>
        \/ o.authType = "floodgate" /\ p = <<"floodgateKeyFile">>
    BY DEF DefaultPaths
  <2> QED
    BY <1>3, <1>4, <1>5, <1>6, <1>7, <2>1, DefaultValues
<1>9. ASSUME NEW p \in AddressPaths PROVE p \in Leaves(d)
  <2>1. \/ p = <<"bedrock", "address">> \/ p = <<"bedrock", "port">>
        \/ p = <<"java", "address">> \/ p = <<"java", "port">>
    BY DEF AddressPaths
  <2> QED
    BY <1>5, <1>6, <2>1, Zenon
<1>10. ASSUME NEW p \in Leaves(d) PROVE p \in DefaultPaths(o) \cup AddressPaths
  <2>1. CASE Leaf1(d, p)
    <3>1. PICK a \in Keys(d) : p = <<a>> /\ ~IsMap(Child(d, a))
      BY <2>1, Zenon DEF Leaf1
    <3>2. a = "mtu" \/ (a = "floodgateKeyFile" /\ o.authType = "floodgate")
      BY <3>1 DEF BaseTree
    <3> QED
      BY <3>1, <3>2, Zenon DEF DefaultPaths
  <2>2. CASE Leaf2(d, p)
    <3>1. PICK a \in Keys(d) : \E b \in Keys(Child(d, a)) : p = <<a, b>> /\ ~IsMap(Child(Child(d, a), b))
      BY <2>2, Zenon DEF Leaf2
    <3>2. PICK b \in Keys(Child(d, a)) : p = <<a, b>> /\ ~IsMap(Child(Child(d, a), b))
      BY <3>1
    <3>3. IsMap(Child(d, a))
      BY ChildFacts, Zenon
    <3>4. a = "bedrock" \/ a = "java"
      BY <1>0, <3>2, <3>3, ChildFacts DEF BaseTree
    <3>5. CASE a = "bedrock" /\ b \in {"motd1", "compressionLevel"}
      BY <3>2, <3>5, Zenon DEF DefaultPaths
    <3>6. CASE a = "java" /\ b = "authType"
      BY <3>2, <3>6, Zenon DEF DefaultPaths
    <3>7. CASE b \in {"address", "port"}
      BY <3>2, <3>4, <3>7 DEF AddressPaths
    <3> QED
      BY <3>4, <3>5, <3>6, <3>7 DEF BaseTree
  <2>3. CASE Leaf3(d, p)
    <3>1. PICK a \in Keys(d) : \E b \in Keys(Child(d, a)) : \E c \in Keys(Child(Child(d, a), b)) : p = <<a, b, c>>
      BY <2>3, Zenon DEF Leaf3
    <3>2. PICK b \in Keys(Child(d, a)) : \E c \in Keys(Child(Child(d, a), b)) : p = <<a, b, c>>
      BY <3>1
    <3>3. PICK c \in Keys(Child(Child(d, a), b)) : p = <<a, b, c>>
      BY <3>2
    <3>4. IsMap(Child(d, a)) /\ IsMap(Child(Child(d, a), b))
      BY ChildFacts, Zenon
    <3>5. a = "advanced" /\ b = "java" /\ c = "useHaproxyProtocol"
      BY <1>0, <3>4 DEF BaseTree
    <3> QED
      BY <3>3, <3>5, Zenon DEF DefaultPaths
  <2> QED
    BY <2>1, <2>2, <2>3, LeafForms, Zenon
<1> QED
  BY <1>5, <1>6, <1>8, <1>9, <1>10, Zenon

\* What mergeMap writes, in terms of the options alone.
LEMMA BuiltConfig ==
    ASSUME NEW o, NEW t, t = Map(buildConfigMap(o)), NEW v, v = Map(o.overrides)
    PROVE  /\ \A p \in Leaves(v) : At(t, p) = At(v, p)
           /\ \A p \in DefaultPaths(o) : Spares(v, p) => At(t, p) = Default(o, p)
           /\ \A p \in Leaves(t) \ Leaves(v) : Spares(v, p) /\ p \in DefaultPaths(o) \cup AddressPaths
           /\ Spares(v, <<"bedrock", "address">>) => At(t, <<"bedrock", "address">>) = Listen(o).address
           /\ Spares(v, <<"bedrock", "port">>) => At(t, <<"bedrock", "port">>) = Listen(o).port
           /\ Spares(v, <<"java", "address">>) => At(t, <<"java", "address">>) = Upstream(o).address
           /\ Spares(v, <<"java", "port">>) => At(t, <<"java", "port">>) = Upstream(o).port
<1> DEFINE d == Map(Base(o))
<1>1. IsMap(d) /\ d[2] = Base(o) /\ IsMap(v) /\ v[2] = o.overrides
  BY TagFacts, Zenon
<1>2. t = Map(mergeMap(Base(o), o.overrides))
  BY Zenon DEF buildConfigMap, Base
<1>3. Merged3(t, d, v)
  BY <1>1, <1>2, MergeMapShape, Zenon
<1>4. BaseTree(o, d)
  BY BaseIsTree, Zenon
<1> HIDE DEF d
<1>5. \A p \in Leaves(d) : Spares(v, p) => At(t, p) = At(d, p)
  BY <1>1, <1>3, MergedUnder, Zenon
<1>6. ASSUME NEW p \in Leaves(v) PROVE At(t, p) = At(v, p)
  BY <1>3, MergedOver
<1>7. \A p \in Leaves(t) \ Leaves(v) : Spares(v, p) /\ p \in Leaves(d)
  BY <1>1, <1>3, MergedOnly, Zenon
<1>8. /\ \A p \in DefaultPaths(o) : p \in Leaves(d) /\ At(d, p) = Default(o, p)
      /\ \A p \in AddressPaths : p \in Leaves(d)
      /\ At(d, <<"bedrock", "address">>) = Listen(o).address
      /\ At(d, <<"bedrock", "port">>) = Listen(o).port
      /\ At(d, <<"java", "address">>) = Upstream(o).address
      /\ At(d, <<"java", "port">>) = Upstream(o).port
      /\ Leaves(d) \subseteq DefaultPaths(o) \cup AddressPaths
  BY <1>4, BaseLeaves, Zenon
<1>9. /\ <<"bedrock", "address">> \in AddressPaths /\ <<"bedrock", "port">> \in AddressPaths
      /\ <<"java", "address">> \in AddressPaths /\ <<"java", "port">> \in AddressPaths
  BY DEF AddressPaths
<1>10. \A p \in DefaultPaths(o) : Spares(v, p) => At(t, p) = Default(o, p)
  BY <1>5, <1>8, Zenon
<1>11. \A p \in Leaves(t) \ Leaves(v) : Spares(v, p) /\ p \in DefaultPaths(o) \cup AddressPaths
  BY <1>7, <1>8, Zenon
<1>12. \A p \in AddressPaths : Spares(v, p) => At(t, p) = At(d, p)
  BY <1>5, <1>8, Zenon
<1> QED
  BY <1>6, <1>8, <1>9, <1>10, <1>11, <1>12, Zenon

----------------------------------------------------------------------------
(***************************************************************************)
(* Addresses.                                                              *)
(***************************************************************************)
LEMMA LastColon ==
    ASSUME NEW S, NEW s \in Seq(S), NEW n \in 1 .. Len(s), s[n] = ":", \A i \in n + 1 .. Len(s) : s[i] # ":"
    PROVE  SelectLastInSeq(s, LAMBDA c : c = ":") = n
BY DEF SelectLastInSeq, Max

\* Without a colon there is no last one.
LEMMA NoColon ==
    ASSUME NEW S, NEW s \in Seq(S), \A i \in 1 .. Len(s) : s[i] # ":"
    PROVE  SelectLastInSeq(s, LAMBDA c : c = ":") = 0
BY DEF SelectLastInSeq, Max

\* The first closing bracket, if it is at position n.
LEMMA FirstBracket ==
    ASSUME NEW S, NEW s \in Seq(S), NEW n \in 1 .. Len(s), s[n] = "]", \A i \in 1 .. n - 1 : s[i] # "]"
    PROVE  SelectInSeq(s, LAMBDA c : c = "]") = n
BY DEF SelectInSeq, Min

\* A stretch of s that agrees with t is t.
LEMMA Stretch ==
    ASSUME NEW S, NEW s \in Seq(S), NEW t \in Seq(S), NEW m \in Nat \ {0}, NEW n \in Int,
           n = m + Len(t) - 1, n <= Len(s), \A i \in 1 .. Len(t) : s[m + i - 1] = t[i]
    PROVE  SubSeq(s, m, n) = t
<1>1. \A i \in m .. n : s[i] \in S
  OBVIOUS
<1>2. /\ SubSeq(s, m, n) \in Seq(S)
      /\ Len(SubSeq(s, m, n)) = IF m <= n THEN n - m + 1 ELSE 0
      /\ \A i \in 1 .. n - m + 1 : SubSeq(s, m, n)[i] = s[m + i - 1]
  BY <1>1, SubSeqProperties
<1>3. Len(SubSeq(s, m, n)) = Len(t)
  BY <1>2
<1>4. \A i \in 1 .. Len(t) : SubSeq(s, m, n)[i] = t[i]
  BY <1>2
<1> QED
  BY <1>2, <1>3, <1>4, SeqEqual

\* The text w is s and then t.
Joins(w, s, t) ==
    /\ Len(w) = Len(s) + Len(t)
    /\ \A i \in 1 .. Len(s) : w[i] = s[i]
    /\ \A i \in 1 .. Len(t) : w[Len(s) + i] = t[i]

\* Length and elements of a concatenation.
LEMMA Joining ==
    ASSUME NEW S, NEW s \in Seq(S), NEW t \in Seq(S)
    PROVE  s \o t \in Seq(S) /\ Joins(s \o t, s, t)
BY ConcatProperties DEF Joins

\* A text of one character.
LEMMA Single ==
    ASSUME NEW S, NEW c \in S
    PROVE  <<c>> \in Seq(S) /\ Len(<<c>>) = 1 /\ <<c>>[1] = c
OBVIOUS

\* A text of two characters.
LEMMA Double ==
    ASSUME NEW S, NEW c \in S, NEW e \in S
    PROVE  <<c, e>> \in Seq(S) /\ Len(<<c, e>>) = 2 /\ <<c, e>>[1] = c /\ <<c, e>>[2] = e
OBVIOUS

\* splitHostPortStr, once the place of the separator is known.
LEMMA SplitAtColon ==
    ASSUME NEW s, NEW n \in Nat \ {0}, s[1] # "[", SelectLastInSeq(s, LAMBDA c : c = ":") = n
    PROVE  splitHostPortStr(s) = [host |-> SubSeq(s, 1, n - 1), port |-> SubSeq(s, n + 1, Len(s))]
BY DEF splitHostPortStr

\* What splitHostPortStr makes of a text in brackets, from the place of the closing one.
LEMMA SplitAtBracket ==
    ASSUME NEW s, NEW n \in Nat \ {0}, s[1] = "[", SelectInSeq(s, LAMBDA c : c = "]") = n
    PROVE  splitHostPortStr(s) =
            [host |-> SubSeq(s, 2, n - 1),
             port |-> IF SubSeq(s, n + 1, Len(s)) # <<>> /\ SubSeq(s, n + 1, Len(s))[1] = ":"
                      THEN Tail(SubSeq(s, n + 1, Len(s))) ELSE <<>>]
BY DEF splitHostPortStr

\* splitHostPortStr of a text that reads as h and p.
LEMMA SplitPlain ==
    ASSUME NEW S, ":" \in S, NEW s \in Seq(S), s # <<>>, NEW h \in Seq(S), NEW p \in Seq(S),
           ~Has(h, ":"), ~Has(h, "["), ~Has(p, ":"), s = h \o <<":">> \o p \/ (p = <<>> /\ s = h)
    PROVE  splitHostPortStr(s) = [host |-> h, port |-> p]
<1>1. CASE p = <<>> /\ s = h
  <2>1. s[1] # "["
    BY <1>1 DEF Has
  <2>2. SelectLastInSeq(s, LAMBDA c : c = ":") = 0
    BY <1>1, NoColon DEF Has
  <2> QED
    BY <1>1, <2>1, <2>2 DEF splitHostPortStr
<1>2. CASE s = h \o <<":">> \o p
  <2> DEFINE m == <<":">>
             q == h \o m
  <2>1. m \in Seq(S) /\ Len(m) = 1 /\ m[1] = ":" /\ 1 \in 1 .. Len(m)
    <3>1. m \in Seq(S) /\ Len(m) = 1 /\ m[1] = ":"
      BY Single
    <3> HIDE DEF m
    <3> QED
      BY <3>1
  <2>2. s = q \o p
    BY <1>2
  <2> HIDE DEF m
  <2>3. PICK n \in Nat \ {0} : n = Len(h) + 1
    OBVIOUS
  <2>4. q \in Seq(S) /\ Len(q) = n /\ q[n] = ":" /\ \A i \in 1 .. Len(h) : q[i] = h[i]
    <3>1. q \in Seq(S) /\ Joins(q, h, m)
      BY <2>1, Joining
    <3> HIDE DEF q
    <3> QED
      BY <2>1, <2>3, <3>1 DEF Joins
  <2> HIDE DEF q
  <2>5. /\ Len(s) = n + Len(p) /\ s[n] = ":" /\ \A i \in 1 .. Len(h) : s[i] = h[i]
        /\ \A i \in 1 .. Len(p) : s[n + i] = p[i]
    <3>1. Joins(s, q, p)
      BY <2>2, <2>4, Joining
    <3> QED
      BY <2>3, <2>4, <3>1 DEF Joins
  <2>6. s[1] # "["
    BY <2>3, <2>5 DEF Has
  <2>7. \A i \in n + 1 .. Len(s) : s[i] # ":"
    <3> SUFFICES ASSUME NEW i \in n + 1 .. Len(s) PROVE s[i] # ":"
      OBVIOUS
    <3>1. i - n \in 1 .. Len(p) /\ s[n + (i - n)] = p[i - n]
      BY <2>5
    <3> QED
      BY <3>1 DEF Has
  <2>8. n \in 1 .. Len(s)
    BY <2>5
  <2>9. SelectLastInSeq(s, LAMBDA c : c = ":") = n
    BY <2>5, <2>7, <2>8, LastColon
  <2>10. SubSeq(s, 1, n - 1) = h
    BY <2>3, <2>5, Stretch
  <2>11. SubSeq(s, n + 1, Len(s)) = p
    BY <2>5, Stretch
  <2>12. splitHostPortStr(s) = [host |-> SubSeq(s, 1, n - 1), port |-> SubSeq(s, n + 1, Len(s))]
    BY <2>6, <2>9, SplitAtColon
  <2> QED
    BY <2>10, <2>11, <2>12
<1> QED
  BY <1>1, <1>2

\* The text s is h in brackets and then r.
Bracketed(s, h, r) ==
    /\ Len(s) = Len(h) + 2 + Len(r)
    /\ s[1] = "[" /\ s[Len(h) + 2] = "]"
    /\ \A i \in 1 .. Len(h) : s[1 + i] = h[i]
    /\ \A i \in 1 .. Len(r) : s[Len(h) + 2 + i] = r[i]

\* A text in brackets is split at its closing bracket.
LEMMA SplitClosed ==
    ASSUME NEW S, NEW s \in Seq(S), NEW h \in Seq(S), NEW r \in Seq(S), ~Has(h, "]"), Bracketed(s, h, r)
    PROVE  splitHostPortStr(s) = [host |-> h, port |-> IF r # <<>> /\ r[1] = ":" THEN Tail(r) ELSE <<>>]
<1>1. PICK n \in Nat \ {0} : n = Len(h) + 2
  OBVIOUS
<1>2. /\ Len(s) = n + Len(r) /\ s[n] = "]" /\ s[1] = "[" /\ \A i \in 1 .. Len(h) : s[1 + i] = h[i]
      /\ \A i \in 1 .. Len(r) : s[n + i] = r[i]
  BY <1>1 DEF Bracketed
<1>3. \A i \in 1 .. n - 1 : s[i] # "]"
  <2> SUFFICES ASSUME NEW i \in 1 .. n - 1 PROVE s[i] # "]"
    OBVIOUS
  <2>1. CASE i = 1
    BY <1>2, <2>1
  <2>2. CASE i # 1
    <3>1. PICK j \in 1 .. Len(h) : i = 1 + j
      BY <1>1, <2>2
    <3>2. s[i] = h[j]
      BY <1>2, <3>1
    <3> QED
      BY <3>2 DEF Has
  <2> QED
    BY <2>1, <2>2
<1>4. n \in 1 .. Len(s)
  BY <1>2
<1>5. SelectInSeq(s, LAMBDA c : c = "]") = n
  BY <1>2, <1>3, <1>4, FirstBracket
<1>6. SubSeq(s, 2, n - 1) = h
  <2>1. \A i \in 1 .. Len(h) : s[2 + i - 1] = h[i]
    BY <1>2
  <2> QED
    BY <1>1, <1>2, <2>1, Stretch
<1>7. r = SubSeq(s, n + 1, Len(s))
  BY <1>2, Stretch
<1>8. splitHostPortStr(s) =
        [host |-> SubSeq(s, 2, n - 1),
         port |-> IF SubSeq(s, n + 1, Len(s)) # <<>> /\ SubSeq(s, n + 1, Len(s))[1] = ":"
                  THEN Tail(SubSeq(s, n + 1, Len(s))) ELSE <<>>]
  BY <1>2, <1>5, SplitAtBracket
<1> QED
  BY <1>6, <1>7, <1>8, Zenon

\* The forms "[host]" and "[host]:port" are split right.
LEMMA SplitBracketed ==
    ASSUME NEW S, ":" \in S, "[" \in S, "]" \in S, NEW s \in Seq(S), NEW h \in Seq(S), NEW p \in Seq(S),
           ~Has(h, "]"), s = <<"[">> \o h \o <<"]", ":">> \o p \/ (p = <<>> /\ s = <<"[">> \o h \o <<"]">>)
    PROVE  splitHostPortStr(s) = [host |-> h, port |-> p]
<1> DEFINE a == <<"[">>
           q == a \o h
<1>1. a \in Seq(S) /\ Len(a) = 1 /\ a[1] = "["
  BY Single
<1>2. s = q \o <<"]", ":">> \o p \/ (p = <<>> /\ s = q \o <<"]">>)
  OBVIOUS
<1> HIDE DEF a
<1>3. q \in Seq(S) /\ Joins(q, a, h)
  BY <1>1, Joining
<1> HIDE DEF q
<1>4. Len(q) = 1 + Len(h) /\ q[1] = "[" /\ \A i \in 1 .. Len(h) : q[1 + i] = h[i]
  BY <1>1, <1>3 DEF Joins
<1>5. CASE p = <<>> /\ s = q \o <<"]">>
  <2> DEFINE b == <<"]">>
  <2>1. b \in Seq(S) /\ Len(b) = 1 /\ b[1] = "]"
    BY Single
  <2>2. s = q \o b
    BY <1>5
  <2> HIDE DEF b
  <2>3. Joins(s, q, b)
    BY <1>3, <2>1, <2>2, Joining
  <2>4. Len(s) = Len(h) + 2 /\ \A i \in 1 .. Len(q) : s[i] = q[i]
    BY <1>4, <2>1, <2>3 DEF Joins
  <2>5. s[Len(h) + 2] = "]"
    BY <1>4, <2>1, <2>3 DEF Joins
  <2>6. p \in Seq(S) /\ Len(p) = 0
    BY <1>5
  <2>7. Bracketed(s, h, p)
    BY <1>4, <2>4, <2>5, <2>6 DEF Bracketed
  <2>8. splitHostPortStr(s) = [host |-> h, port |-> IF p # <<>> /\ p[1] = ":" THEN Tail(p) ELSE <<>>]
    BY <2>7, SplitClosed
  <2> QED
    BY <1>5, <2>8
<1>6. CASE s = q \o <<"]", ":">> \o p
  <2> DEFINE x == <<"]", ":">>
             v == q \o x
             c == <<":">>
             r == c \o p
  <2>1. x \in Seq(S) /\ Len(x) = 2 /\ x[1] = "]" /\ x[2] = ":"
    BY Double
  <2>2. c \in Seq(S) /\ Len(c) = 1 /\ c[1] = ":"
    BY Single
  <2>3. s = v \o p
    BY <1>6
  <2> HIDE DEF x, c
  <2>4. v \in Seq(S) /\ Joins(v, q, x)
    BY <1>3, <2>1, Joining
  <2>5. r \in Seq(S) /\ Joins(r, c, p)
    BY <2>2, Joining
  <2> HIDE DEF v, r
  <2>6. Joins(s, v, p)
    BY <2>3, <2>4, Joining
  <2>7. PICK n \in Nat : n = Len(h) + 2
    OBVIOUS
  <2>8. Len(v) = n + 1 /\ v[n] = "]" /\ v[n + 1] = ":" /\ \A i \in 1 .. Len(q) : v[i] = q[i]
    <3>1. v[Len(q) + 1] = x[1] /\ v[Len(q) + 2] = x[2]
      BY <2>1, <2>4 DEF Joins
    <3> QED
      BY <1>4, <2>1, <2>4, <2>7, <3>1 DEF Joins
  <2>9. Len(r) = 1 + Len(p) /\ r[1] = ":" /\ \A i \in 1 .. Len(p) : r[1 + i] = p[i]
    BY <2>2, <2>5 DEF Joins
  <2>10. /\ Len(s) = n + 1 + Len(p) /\ \A i \in 1 .. n + 1 : s[i] = v[i]
         /\ \A i \in 1 .. Len(p) : s[n + 1 + i] = p[i]
    BY <2>6, <2>8 DEF Joins
  <2>11. \A i \in 1 .. Len(r) : s[n + i] = r[i]
    <3> SUFFICES ASSUME NEW i \in 1 .. Len(r) PROVE s[n + i] = r[i]
      OBVIOUS
    <3>1. CASE i = 1
      BY <2>7, <2>8, <2>9, <2>10, <3>1
    <3>2. CASE i # 1
      <4>1. i - 1 \in 1 .. Len(p)
        BY <2>9, <3>2
      <4>2. r[1 + (i - 1)] = p[i - 1] /\ s[n + 1 + (i - 1)] = p[i - 1]
        BY <2>9, <2>10, <4>1
      <4>3. 1 + (i - 1) = i /\ n + 1 + (i - 1) = n + i
        BY <2>7
      <4> QED
        BY <4>2, <4>3
    <3> QED
      BY <3>1, <3>2
  <2>12. s[n] = "]" /\ s[1] = "[" /\ \A i \in 1 .. Len(h) : s[1 + i] = h[i]
    <3>1. s[n] = v[n] /\ s[1] = v[1] /\ v[1] = q[1]
      BY <1>4, <2>7, <2>8, <2>10
    <3>2. ASSUME NEW i \in 1 .. Len(h) PROVE s[1 + i] = h[i]
      <4>1. 1 + i \in 1 .. n + 1 /\ 1 + i \in 1 .. Len(q)
        BY <1>4, <2>7
      <4> QED
        BY <1>4, <2>8, <2>10, <4>1
    <3> QED
      BY <1>4, <2>8, <3>1, <3>2
  <2>13. Bracketed(s, h, r)
    BY <2>5, <2>7, <2>9, <2>10, <2>11, <2>12 DEF Bracketed
  <2>14. r # <<>> /\ Tail(r) = p
    <3>1. r # <<>>
      BY <2>5, <2>9
    <3>2. Tail(r) \in Seq(S) /\ Len(Tail(r)) = Len(p) /\ \A i \in 1 .. Len(p) : Tail(r)[i] = p[i]
      BY <2>5, <2>9, <3>1, HeadTailProperties
    <3> QED
      BY <3>1, <3>2, SeqEqual
  <2>15. splitHostPortStr(s) = [host |-> h, port |-> IF r # <<>> /\ r[1] = ":" THEN Tail(r) ELSE <<>>]
    BY <2>5, <2>13, SplitClosed
  <2> QED
    BY <2>9, <2>14, <2>15
<1> QED
  BY <1>2, <1>5, <1>6

\* Whatever form of an address a text has, it is split into that host and port.
LEMMA SplitReads ==
    ASSUME NEW s, IsText(s), s # <<>>, NEW h \in Parts(s), NEW p \in Parts(s), Reads(s, h, p)
    PROVE  splitHostPortStr(s) = [host |-> h, port |-> p]
<1>1. PICK R : s \in Seq(R)
  BY DEF IsText
<1>2. PICK S : S = R \cup {":", "[", "]"}
  OBVIOUS
<1>3. s \in Seq(S) /\ ":" \in S /\ "[" \in S /\ "]" \in S
  BY <1>1, <1>2
<1>4. ASSUME NEW x \in Parts(s) PROVE x \in Seq(S)
  <2>1. PICK i \in 1 .. Len(s) + 1, j \in 0 .. Len(s) : x = SubSeq(s, i, j)
    BY DEF Parts
  <2>2. \A k \in i .. j : s[k] \in S
    BY <1>3
  <2>3. i \in Int /\ j \in Int
    BY <1>3
  <2> QED
    BY <2>1, <2>2, <2>3, SubSeqProperties
<1>5. h \in Seq(S) /\ p \in Seq(S)
  BY <1>4
<1>6. CASE /\ ~Has(h, ":") /\ ~Has(h, "[") /\ ~Has(p, ":")
           /\ s = h \o <<":">> \o p \/ (p = <<>> /\ s = h)
  BY <1>3, <1>5, <1>6, SplitPlain, ZenonT(60)
<1>7. CASE /\ ~Has(h, "]")
           /\ s = <<"[">> \o h \o <<"]", ":">> \o p \/ (p = <<>> /\ s = <<"[">> \o h \o <<"]">>)
  BY <1>3, <1>5, <1>7, SplitBracketed, ZenonT(60)
<1> QED
  BY <1>6, <1>7, Zenon DEF Reads

----------------------------------------------------------------------------
(***************************************************************************)
(* Asset location.                                                         *)
(***************************************************************************)
\* A successful locate returns the first of the ways that are given.
LEMMA LocateFirst ==
    ASSUME NEW s, opts[s].mode = Asked(s).mode, host.system \in BOOLEAN, host.download \in BOOLEAN,
           opts[s].offline \in BOOLEAN,
           NEW found, found = locate(IF Embedded(s) THEN "library" ELSE "binary", opts[s]), found # "error"
    PROVE  /\ found \in {"path", "env", "blob", "system", "download"}
           /\ found \in Given(s) /\ \A x \in Given(s) : Rank[found] <= Rank[x]
<1> DEFINE kind == IF Asked(s).mode = "subprocess" THEN "binary" ELSE "library"
           o == opts[s]
<1>1. (IF Embedded(s) THEN "library" ELSE "binary") = kind
  BY DEF Embedded
<1>2. found = locate(kind, o)
  BY <1>1
<1>3. Given(s) = {x \in DOMAIN Rank :
            \/ x = "path" /\ o[kind] # "unset"
            \/ x = "env" /\ host.env[kind] # "unset"
            \/ x = "blob" /\ host.blob # "none"
            \/ x = "system" /\ host.system
            \/ x = "download" /\ ~o.offline}
  BY DEF Given
<1> HIDE DEF kind
<1>4. /\ DOMAIN Rank = {"path", "env", "blob", "system", "download"}
      /\ Rank["path"] = 1 /\ Rank["env"] = 2 /\ Rank["blob"] = 3 /\ Rank["system"] = 4 /\ Rank["download"] = 5
  BY DEF Rank
<1>5. CASE o[kind] # "unset"
  BY <1>2, <1>3, <1>4, <1>5 DEF locate
<1>6. CASE o[kind] = "unset" /\ host.env[kind] # "unset"
  BY <1>2, <1>3, <1>4, <1>6 DEF locate
<1>7. CASE o[kind] = "unset" /\ host.env[kind] = "unset"
  <2>1. found = Unnamed(o)
    BY <1>2, <1>7 DEF locate
  <2>2. CASE host.blob = "present"
    BY <1>3, <1>4, <1>7, <2>1, <2>2 DEF Unnamed
  <2>3. CASE host.blob = "none" /\ host.system
    BY <1>3, <1>4, <1>7, <2>1, <2>3 DEF Unnamed
  <2>4. CASE host.blob = "none" /\ ~host.system /\ ~o.offline /\ host.download
    BY <1>3, <1>4, <1>7, <2>1, <2>4 DEF Unnamed
  <2>5. CASE ~(host.blob = "present" \/ (host.blob = "none" /\ host.system)
               \/ (host.blob = "none" /\ ~host.system /\ ~o.offline /\ host.download))
    BY <2>1, <2>5 DEF Unnamed
  <2> QED
    BY <2>2, <2>3, <2>4, <2>5
<1> QED
  BY <1>5, <1>6, <1>7

----------------------------------------------------------------------------
(***************************************************************************)
(* The invariant is inductive.                                             *)
(***************************************************************************)
LEMMA InitInv == Init => Inv
<1> SUFFICES ASSUME Init PROVE Inv
  OBVIOUS
<1>1. PICK x \in Cases : host = x.host /\ request \in [Servers -> x.requests]
  BY DEF Init
<1>2. host.system \in BOOLEAN /\ host.download \in BOOLEAN
  BY <1>1, CaseAssumption
<1>3. ASSUME NEW s \in Servers
      PROVE  \/ request[s].via = "gate" /\ HasTexts(request[s].config)
             \/ request[s].via = "direct" /\ IsOptions(request[s].options)
  BY <1>1, CaseAssumption
<1>4. StateInv
  BY <1>2 DEF Init, StateInv, Steps, WithWorkdir
<1>5. OptionsInv
  <2> SUFFICES ASSUME NEW s \in Servers
               PROVE  /\ pc[s] = "config" => request[s].via = "gate"
                      /\ pc[s] \in Accepted \cup {"options"} =>
                            /\ Complete(opts[s])
                            /\ opts[s].authType = Asked(s).authType /\ opts[s].mode = Asked(s).mode
                      /\ pc[s] \notin Accepted
    BY <1>3 DEF OptionsInv, OptionsOf
  <2>1. CASE request[s].via = "gate"
    BY <2>1 DEF Init, Accepted, Steps
  <2>2. CASE request[s].via # "gate"
    <3>1. opts[s] = request[s].options /\ pc[s] = "options"
      BY <2>2 DEF Init
    <3>2. request[s].via = "direct" /\ IsOptions(opts[s])
      BY <1>3, <2>2, <3>1
    <3>3. Complete(opts[s])
      BY <3>2, Zenon DEF IsOptions, HasTexts, Complete, IsText
    <3> QED
      BY <3>1, <3>2, <3>3 DEF Asked, Accepted, Steps
  <2> QED
    BY <2>1, <2>2
<1>6. SourceInv /\ FilesInv
  BY DEF Init, SourceInv, FilesInv, FilesOf, Located, Rendered, WithWorkdir, Empty
<1>7. DirectoryInv
  BY ServerAssumption DEF Init, DirectoryInv, DirectoryOf
<1> QED
  BY <1>4, <1>5, <1>6, <1>7 DEF Inv

\* A step of s: it moves s alone and leaves the request and the host alone.
Step(s) ==
    \/ GateNew(s) \/ New(s) \/ Locate(s) \/ Load(s) \/ MkdirTemp(s)
    \/ WriteFloodgateKey(s) \/ RenderConfig(s) \/ CopyPermissionsYML(s)
    \/ Getwd(s) \/ Chdir(s) \/ RunEnds(s) \/ RestoreCwd(s) \/ RemoveWorkdir(s)

Frame(s) ==
    /\ host' = host /\ request' = request
    /\ DOMAIN opts' = Servers /\ DOMAIN files' = Servers
    /\ \A t \in Servers \ {s} :
        opts'[t] = opts[t] /\ pc'[t] = pc[t] /\ source'[t] = source[t] /\ files'[t] = files[t] /\ prev'[t] = prev[t]

\* A step of one server changes nothing of the others but the process's directory.
LEMMA StepFrame ==
    ASSUME StateInv, NEW s \in Servers, Step(s)
    PROVE  Frame(s) /\ pc' = [pc EXCEPT ![s] = pc'[s]]
<1> USE DEF StateInv, Frame, Goto, Prepare, WriteFile
<1>1. CASE GateNew(s)
  BY <1>1 DEF GateNew
<1>2. CASE New(s)
  BY <1>2 DEF New
<1>3. CASE Locate(s)
  BY <1>3 DEF Locate
<1>4. CASE Load(s)
  BY <1>4 DEF Load
<1>5. CASE MkdirTemp(s)
  BY <1>5 DEF MkdirTemp
<1>6. CASE WriteFloodgateKey(s)
  BY <1>6 DEF WriteFloodgateKey
<1>7. CASE RenderConfig(s)
  BY <1>7 DEF RenderConfig
<1>8. CASE CopyPermissionsYML(s)
  BY <1>8 DEF CopyPermissionsYML
<1>9. CASE Getwd(s)
  BY <1>9 DEF Getwd
<1>10. CASE Chdir(s)
  BY <1>10 DEF Chdir
<1>11. CASE RunEnds(s)
  BY <1>11 DEF RunEnds
<1>12. CASE RestoreCwd(s)
  BY <1>12 DEF RestoreCwd
<1>13. CASE RemoveWorkdir(s)
  BY <1>13 DEF RemoveWorkdir
<1> HIDE DEF StateInv, Frame
<1> QED
  BY <1>1, <1>2, <1>3, <1>4, <1>5, <1>6, <1>7, <1>8, <1>9, <1>10, <1>11, <1>12, <1>13 DEF Step

\* locate returns a way to the asset or an error.
LEMMA LocateSources ==
    ASSUME NEW kind, NEW o
    PROVE  locate(kind, o) \in {"path", "env", "blob", "system", "download", "error"}
<1>1. Unnamed(o) \in {"blob", "system", "download", "error"}
  BY DEF Unnamed
<1> QED
  BY <1>1 DEF locate

\* Every step keeps the types and the owner of each directory.
LEMMA StateStep ==
    ASSUME StateInv, NEW s \in Servers, Step(s)
    PROVE  StateInv'
<1>0. DOMAIN opts' = Servers /\ DOMAIN files' = Servers /\ host' = host
  BY StepFrame DEF Frame
<1> USE <1>0 DEF StateInv, Goto, Prepare, Steps, WithWorkdir
<1>1. CASE GateNew(s)
  BY <1>1 DEF GateNew
<1>2. CASE New(s)
  BY <1>2 DEF New
<1>3. CASE Locate(s)
  BY <1>3, LocateSources DEF Locate
<1>4. CASE Load(s)
  BY <1>4 DEF Load
<1>5. CASE MkdirTemp(s)
  BY <1>5 DEF MkdirTemp
<1>6. CASE WriteFloodgateKey(s)
  BY <1>6 DEF WriteFloodgateKey
<1>7. CASE RenderConfig(s)
  BY <1>7 DEF RenderConfig
<1>8. CASE CopyPermissionsYML(s)
  BY <1>8 DEF CopyPermissionsYML
<1>9. CASE Getwd(s)
  BY <1>9 DEF Getwd, Exists
<1>10. CASE Chdir(s)
  BY <1>10 DEF Chdir
<1>11. CASE RunEnds(s)
  BY <1>11 DEF RunEnds
<1>12. CASE RestoreCwd(s)
  BY <1>12 DEF RestoreCwd, Exists
<1>13. CASE RemoveWorkdir(s)
  BY <1>13 DEF RemoveWorkdir
<1> HIDE DEF StateInv
<1> QED
  BY <1>1, <1>2, <1>3, <1>4, <1>5, <1>6, <1>7, <1>8, <1>9, <1>10, <1>11, <1>12, <1>13 DEF Step

\* What a step leaves alone: the options of a server that New has accepted.
LEMMA StepOptions ==
    ASSUME Inv, NEW s \in Servers, Step(s)
    PROVE  \/ GateNew(s) \/ New(s)
           \/ opts' = opts /\ pc[s] \in Accepted /\ pc'[s] \in Accepted
<1> USE DEF Inv, StateInv, Goto, Prepare, Accepted, Steps
<1>1. CASE Locate(s)
  BY <1>1 DEF Locate
<1>2. CASE Load(s)
  BY <1>2 DEF Load
<1>3. CASE MkdirTemp(s)
  BY <1>3 DEF MkdirTemp
<1>4. CASE WriteFloodgateKey(s)
  BY <1>4 DEF WriteFloodgateKey
<1>5. CASE RenderConfig(s)
  BY <1>5 DEF RenderConfig
<1>6. CASE CopyPermissionsYML(s)
  BY <1>6 DEF CopyPermissionsYML
<1>7. CASE Getwd(s)
  BY <1>7 DEF Getwd
<1>8. CASE Chdir(s)
  BY <1>8 DEF Chdir
<1>9. CASE RunEnds(s)
  BY <1>9 DEF RunEnds
<1>10. CASE RestoreCwd(s)
  BY <1>10 DEF RestoreCwd
<1>11. CASE RemoveWorkdir(s)
  BY <1>11 DEF RemoveWorkdir
<1> HIDE DEF Inv, Accepted
<1> QED
  BY <1>1, <1>2, <1>3, <1>4, <1>5, <1>6, <1>7, <1>8, <1>9, <1>10, <1>11 DEF Step

\* The steps behind New.
LEMMA AcceptedSteps ==
    /\ "config" \notin Accepted /\ "options" \notin Accepted
    /\ "disabled" \notin Accepted /\ "refused" \notin Accepted
    /\ "locate" \in Accepted /\ Accepted \subseteq Steps
BY DEF Accepted, Steps

\* Every step keeps the options those asked for.
LEMMA OptionsStep ==
    ASSUME Inv, NEW s \in Servers, Step(s)
    PROVE  OptionsInv'
<1>0. Frame(s) /\ pc' = [pc EXCEPT ![s] = pc'[s]] /\ \A t \in Servers : Asked(t)' = Asked(t)
  BY StepFrame DEF Inv, Frame, Asked
<1>1. ASSUME NEW t \in Servers, t # s PROVE OptionsOf(t)'
  BY <1>0, <1>1 DEF Inv, OptionsInv, OptionsOf, Frame
<1>2. OptionsOf(s)
  BY DEF Inv, OptionsInv
<1> SUFFICES OptionsOf(s)'
  BY <1>0, <1>1 DEF OptionsInv, Frame
<1>3. CASE GateNew(s)
  <2> DEFINE c == request[s].config
  <2>1. request[s].via = "gate" /\ HasTexts(c)
    BY <1>2, <1>3 DEF GateNew, OptionsOf
  <2>2. CASE pc'[s] = "options" /\ opts'[s] = toOptions(c)
    <3>1. Complete(toOptions(c))
      BY <2>1, Zenon DEF HasTexts, Complete, toOptions, IsText
    <3>2. toOptions(c).authType = Asked(s).authType /\ toOptions(c).mode = Asked(s).mode
      BY <2>1 DEF toOptions, Asked, AuthOf, ModeOf
    <3> QED
      BY <1>0, <2>1, <2>2, <3>1, <3>2, AcceptedSteps DEF OptionsOf, Frame
  <2>3. CASE pc'[s] \in {"disabled", "refused"}
    BY <1>0, <2>1, <2>3, AcceptedSteps DEF OptionsOf, Frame
  <2> QED
    BY <1>3, <2>2, <2>3 DEF GateNew, Goto, Inv, StateInv
<1>4. CASE New(s)
  <2>1. pc[s] = "options" /\ Complete(opts[s])
    BY <1>2, <1>4 DEF New, OptionsOf
  <2>2. CASE Valid(opts[s]) /\ opts'[s] = WithDefaults(opts[s]) /\ pc'[s] = "locate"
    <3>1. /\ WithDefaults(opts[s]).authType = opts[s].authType /\ WithDefaults(opts[s]).mode = opts[s].mode
          /\ WithDefaults(opts[s]).listen # <<>> /\ Valid(WithDefaults(opts[s]))
      BY <2>1, <2>2 DEF Complete, WithDefaults, DefaultListen, Valid
    <3>2. Complete(WithDefaults(opts[s]))
      <4>1. IsText(DefaultListen)
        <5>1. DefaultListen \in Seq({":", "1", "9", "3", "2"})
          BY DEF DefaultListen
        <5> QED
          BY <5>1, Zenon DEF IsText
      <4> QED
        BY <2>1, <4>1 DEF Complete, WithDefaults
    <3> QED
      BY <1>0, <1>2, <2>1, <2>2, <3>1, <3>2, AcceptedSteps DEF OptionsOf, Frame
  <2>3. CASE pc'[s] = "refused"
    BY <1>0, <1>2, <2>3, AcceptedSteps DEF OptionsOf, Frame
  <2> QED
    BY <1>4, <2>2, <2>3 DEF New, Goto, Inv, StateInv
<1>5. CASE opts' = opts /\ pc[s] \in Accepted /\ pc'[s] \in Accepted
  BY <1>0, <1>2, <1>5, AcceptedSteps DEF OptionsOf, Frame
<1> QED
  BY <1>3, <1>4, <1>5, StepOptions

\* Every step keeps the asset the first of what was given.
LEMMA SourceStep ==
    ASSUME Inv, NEW s \in Servers, Step(s)
    PROVE  SourceInv'
<1>0. Frame(s) /\ pc' = [pc EXCEPT ![s] = pc'[s]] /\ \A t \in Servers : Asked(t)' = Asked(t)
  BY StepFrame DEF Inv, Frame, Asked
<1>1. ASSUME NEW t \in Servers, opts'[t] = opts[t], source'[t] = source[t], First(t) PROVE First(t)'
  <2>1. Given(t)' = Given(t)
    BY <1>0, <1>1 DEF Given, Frame
  <2> QED
    BY <1>1, <2>1 DEF First
<1>2. ASSUME NEW t \in Servers, t # s, pc'[t] \in Located PROVE First(t)'
  BY <1>0, <1>1, <1>2 DEF Inv, SourceInv, Frame
<1>3. ASSUME pc'[s] \in Located PROVE First(s)'
  <2>1. CASE Locate(s)
    <3> DEFINE found == locate(IF Embedded(s) THEN "library" ELSE "binary", opts[s])
    <3>1. source'[s] = found /\ opts' = opts /\ (found = "error" => pc'[s] = "returned") /\ pc[s] \in Accepted
      BY <2>1 DEF Locate, Goto, Inv, StateInv, Accepted, Steps
    <3>2. found # "error"
      BY <1>3, <3>1 DEF Located, WithWorkdir
    <3>3. opts[s].mode = Asked(s).mode /\ opts[s].offline \in BOOLEAN
      BY <3>1 DEF Inv, OptionsInv, OptionsOf, Complete
    <3>4. host.system \in BOOLEAN /\ host.download \in BOOLEAN
      BY DEF Inv, StateInv
    <3> HIDE DEF found
    <3>5. found \in Given(s) /\ \A x \in Given(s) : Rank[found] <= Rank[x]
      BY <3>2, <3>3, <3>4, LocateFirst DEF found
    <3>6. Given(s)' = Given(s)
      BY <1>0, <3>1 DEF Given, Frame
    <3> QED
      BY <3>1, <3>5, <3>6 DEF First
  <2>2. CASE pc[s] \in Located /\ opts' = opts /\ source' = source
    BY <1>1, <2>2 DEF Inv, SourceInv
  <2>3. Locate(s) \/ (pc[s] \in Located /\ opts' = opts /\ source' = source)
    <3> USE <1>3 DEF Inv, StateInv, Goto, Prepare, Located, WithWorkdir
    <3>1. CASE GateNew(s)
      BY <3>1 DEF GateNew
    <3>2. CASE New(s)
      BY <3>2 DEF New
    <3>3. CASE Load(s)
      BY <3>3 DEF Load
    <3>4. CASE MkdirTemp(s)
      BY <3>4 DEF MkdirTemp
    <3>5. CASE WriteFloodgateKey(s)
      BY <3>5 DEF WriteFloodgateKey
    <3>6. CASE RenderConfig(s)
      BY <3>6 DEF RenderConfig
    <3>7. CASE CopyPermissionsYML(s)
      BY <3>7 DEF CopyPermissionsYML
    <3>8. CASE Getwd(s)
      BY <3>8 DEF Getwd
    <3>9. CASE Chdir(s)
      BY <3>9 DEF Chdir
    <3>10. CASE RunEnds(s)
      BY <3>10 DEF RunEnds
    <3>11. CASE RestoreCwd(s)
      BY <3>11 DEF RestoreCwd
    <3>12. CASE RemoveWorkdir(s)
      BY <3>12 DEF RemoveWorkdir
    <3> HIDE DEF Inv, Located
    <3> QED
      BY <3>1, <3>2, <3>3, <3>4, <3>5, <3>6, <3>7, <3>8, <3>9, <3>10, <3>11, <3>12 DEF Step
  <2> QED
    BY <2>1, <2>2, <2>3
<1> QED
  BY <1>2, <1>3 DEF SourceInv

\* Every step keeps what is in a directory in step with its server.
LEMMA FilesStep ==
    ASSUME Inv, NEW s \in Servers, Step(s)
    PROVE  FilesInv'
<1>0. Frame(s)
  BY StepFrame DEF Inv
<1>1. ASSUME NEW t \in Servers, t # s PROVE FilesOf(t)'
  BY <1>0, <1>1 DEF Inv, FilesInv, FilesOf, Frame
<1>2. FilesOf(s)
  BY DEF Inv, FilesInv
<1> SUFFICES FilesOf(s)'
  BY <1>0, <1>1 DEF FilesInv, Frame
<1>3. CASE WriteFloodgateKey(s)
  <2>1. pc[s] = "key" /\ opts' = opts /\ files[s] = Empty
    BY <1>2, <1>3 DEF WriteFloodgateKey, Prepare, FilesOf, WithWorkdir
  <2>2. CASE opts[s].authType # "floodgate" /\ pc'[s] = "render" /\ files' = files
    BY <1>2, <2>1, <2>2 DEF FilesOf, Empty, Rendered, WithWorkdir
  <2>3. CASE /\ opts[s].authType = "floodgate" /\ pc'[s] = "render"
             /\ files'[s] = Put(files[s], "key.bin", Int_(16))
    <3> DEFINE g == files'[s]
    <3>1. DOMAIN g = {"key.bin"} /\ g["key.bin"] = Int_(16)
      <4>1. g = Put(Empty, "key.bin", Int_(16))
        BY <2>1, <2>3
      <4> HIDE DEF g
      <4> QED
        BY <4>1 DEF Put, Empty
    <3> QED
      BY <2>1, <2>3, <3>1 DEF FilesOf, Rendered, WithWorkdir
  <2>4. CASE pc'[s] = "remove" /\ files' = files
    BY <1>2, <2>1, <2>4 DEF FilesOf, Rendered, WithWorkdir
  <2> QED
    BY <1>3, <2>2, <2>3, <2>4 DEF WriteFloodgateKey, Goto, WriteFile, Inv, StateInv
<1>4. CASE RenderConfig(s)
  <2>1. pc[s] = "render" /\ opts' = opts
    BY <1>4 DEF RenderConfig, Prepare
  <2>2. CASE pc'[s] = "permissions" /\ files'[s] = Put(files[s], "config.yml", Map(buildConfigMap(opts[s])))
    <3> DEFINE f == files[s]
               g == files'[s]
    <3>1. /\ DOMAIN g = DOMAIN f \cup {"config.yml"}
          /\ g["config.yml"] = Map(buildConfigMap(opts[s]))
          /\ "key.bin" \in DOMAIN f => g["key.bin"] = f["key.bin"]
      <4>1. g = Put(f, "config.yml", Map(buildConfigMap(opts[s])))
        BY <2>2
      <4> HIDE DEF f, g
      <4> QED
        BY <4>1 DEF Put
    <3> QED
      BY <1>2, <2>1, <2>2, <3>1 DEF FilesOf, Rendered, WithWorkdir
  <2>3. CASE pc'[s] = "remove" /\ files' = files
    BY <1>2, <2>1, <2>3 DEF FilesOf, Rendered, WithWorkdir
  <2> QED
    BY <1>4, <2>2, <2>3 DEF RenderConfig, Goto, WriteFile, Inv, StateInv
<1>5. CASE CopyPermissionsYML(s)
  <2>1. pc[s] = "permissions" /\ opts' = opts /\ pc'[s] \in {"getwd", "running"}
    BY <1>5 DEF CopyPermissionsYML, Prepare, Goto, Inv, StateInv
  <2>2. CASE files' = files
    BY <1>2, <2>1, <2>2 DEF FilesOf, Rendered, WithWorkdir
  <2>3. CASE files'[s] = Put(files[s], "permissions.yml", Word("empty"))
    <3> DEFINE f == files[s]
               g == files'[s]
    <3>1. /\ DOMAIN g = DOMAIN f \cup {"permissions.yml"}
          /\ "config.yml" \in DOMAIN f => g["config.yml"] = f["config.yml"]
          /\ "key.bin" \in DOMAIN f => g["key.bin"] = f["key.bin"]
      <4>1. g = Put(f, "permissions.yml", Word("empty"))
        BY <2>3
      <4> HIDE DEF f, g
      <4> QED
        BY <4>1 DEF Put
    <3> QED
      BY <1>2, <2>1, <3>1 DEF FilesOf, Rendered, WithWorkdir
  <2> QED
    BY <1>5, <2>2, <2>3 DEF CopyPermissionsYML, WriteFile, Inv, StateInv
<1>6. CASE RemoveWorkdir(s)
  <2>1. \/ files'[s] = Empty /\ pc'[s] = "returned"
        \/ pc'[s] = "leftover" /\ \E left \in SUBSET DOMAIN files[s] : files'[s] = [n \in left |-> files[s][n]]
    BY <1>6 DEF RemoveWorkdir, Goto, Inv, StateInv
  <2>2. opts' = opts
    BY <1>6 DEF RemoveWorkdir
  <2>3. CASE files'[s] = Empty /\ pc'[s] = "returned"
    BY <2>3 DEF FilesOf, Empty, Rendered, WithWorkdir
  <2>4. ASSUME NEW left \in SUBSET DOMAIN files[s], pc'[s] = "leftover", files'[s] = [n \in left |-> files[s][n]]
        PROVE  FilesOf(s)'
    BY <1>2, <2>2, <2>4 DEF FilesOf, Rendered, WithWorkdir
  <2> QED
    BY <2>1, <2>3, <2>4
<1> USE DEF Inv, StateInv, Goto, FilesOf, Rendered, WithWorkdir
<1>7. CASE GateNew(s)
  BY <1>2, <1>7 DEF GateNew, Empty
<1>8. CASE New(s)
  BY <1>2, <1>8 DEF New, Empty
<1>9. CASE Locate(s)
  BY <1>2, <1>9 DEF Locate
<1>10. CASE Load(s)
  BY <1>2, <1>10 DEF Load
<1>11. CASE Getwd(s)
  BY <1>2, <1>11 DEF Getwd
<1>12. CASE Chdir(s)
  BY <1>2, <1>12 DEF Chdir
<1>13. CASE RunEnds(s)
  BY <1>2, <1>13 DEF RunEnds
<1>14. CASE RestoreCwd(s)
  BY <1>2, <1>14 DEF RestoreCwd
<1>15. CASE MkdirTemp(s)
  BY <1>2, <1>15 DEF MkdirTemp
<1> HIDE DEF Inv, FilesOf
<1> QED
  BY <1>3, <1>4, <1>5, <1>6, <1>7, <1>8, <1>9, <1>10, <1>11, <1>12, <1>13, <1>14, <1>15 DEF Step

\* A server that has changed the directory remains one that has.
LEMMA MovedStable ==
    ASSUME Inv, NEW s \in Servers, Step(s), NEW t \in Servers, Moved(t)
    PROVE  Moved(t)'
<1>0. Frame(s)
  BY StepFrame DEF Inv
<1>1. CASE t # s
  BY <1>0, <1>1 DEF Moved, Embedded, Frame
<1>2. CASE t = s
  <2> USE <1>2 DEF Inv, StateInv, Goto, Prepare, Moved, Embedded, Entered
  <2>1. CASE GateNew(s)
    BY <2>1 DEF GateNew
  <2>2. CASE New(s)
    BY <2>2 DEF New
  <2>3. CASE Locate(s)
    BY <2>3 DEF Locate
  <2>4. CASE Load(s)
    BY <2>4 DEF Load
  <2>5. CASE MkdirTemp(s)
    BY <2>5 DEF MkdirTemp
  <2>6. CASE WriteFloodgateKey(s)
    BY <2>6 DEF WriteFloodgateKey
  <2>7. CASE RenderConfig(s)
    BY <2>7 DEF RenderConfig
  <2>8. CASE CopyPermissionsYML(s)
    BY <2>8 DEF CopyPermissionsYML
  <2>9. CASE Getwd(s)
    BY <2>9 DEF Getwd
  <2>10. CASE Chdir(s)
    BY <2>10 DEF Chdir
  <2>11. CASE RunEnds(s)
    BY <2>11 DEF RunEnds
  <2>12. CASE RestoreCwd(s)
    BY <2>12 DEF RestoreCwd
  <2>13. CASE RemoveWorkdir(s)
    BY <2>13 DEF RemoveWorkdir
  <2> HIDE DEF Inv, Moved
  <2> QED
    BY <2>1, <2>2, <2>3, <2>4, <2>5, <2>6, <2>7, <2>8, <2>9, <2>10, <2>11, <2>12, <2>13 DEF Step
<1> QED
  BY <1>1, <1>2

\* Of the steps, only three touch the working directory.
LEMMA DirectoryFrame ==
    ASSUME Inv, NEW s \in Servers, Step(s), ~Getwd(s), ~Chdir(s), ~RestoreCwd(s)
    PROVE  /\ cwd' = cwd /\ prev' = prev
           /\ pc'[s] \in {"getwd", "chdir", "restore"} => Embedded(s)'
           /\ pc'[s] \in {"remove", "returned", "leftover"} /\ Moved(s) => pc[s] \in {"remove", "returned", "leftover"}
<1> USE DEF Inv, StateInv, Goto, Prepare, Embedded, Moved, Entered
<1>1. CASE GateNew(s)
  BY <1>1 DEF GateNew
<1>2. CASE New(s)
  BY <1>2 DEF New
<1>3. CASE Locate(s)
  BY <1>3 DEF Locate
<1>4. CASE Load(s)
  BY <1>4 DEF Load
<1>5. CASE MkdirTemp(s)
  BY <1>5 DEF MkdirTemp
<1>6. CASE WriteFloodgateKey(s)
  BY <1>6 DEF WriteFloodgateKey
<1>7. CASE RenderConfig(s)
  BY <1>7 DEF RenderConfig
<1>8. CASE CopyPermissionsYML(s)
  BY <1>8 DEF CopyPermissionsYML
<1>9. CASE RunEnds(s)
  BY <1>9 DEF RunEnds
<1>10. CASE RemoveWorkdir(s)
  BY <1>10 DEF RemoveWorkdir
<1> HIDE DEF Inv, Moved, Embedded
<1> QED
  BY <1>1, <1>2, <1>3, <1>4, <1>5, <1>6, <1>7, <1>8, <1>9, <1>10 DEF Step

\* Every step keeps what is known of the process's directory.
LEMMA DirectoryStep ==
    ASSUME Inv, NEW s \in Servers, Step(s)
    PROVE  DirectoryInv'
<1>0. Frame(s) /\ \A t \in Servers : Moved(t) => Moved(t)'
  BY StepFrame, MovedStable DEF Inv
<1>1. \A t \in Servers : DirectoryOf(t)
  BY DEF Inv, DirectoryInv
<1>2. ASSUME NEW t \in Servers, t # s PROVE pc'[t] \in {"getwd", "chdir", "restore"} => Embedded(t)'
  BY <1>0, <1>1, <1>2 DEF DirectoryOf, Embedded, Frame
<1>3. CASE ~Getwd(s) /\ ~Chdir(s) /\ ~RestoreCwd(s)
  <2>1. /\ cwd' = cwd /\ prev' = prev
        /\ pc'[s] \in {"getwd", "chdir", "restore"} => Embedded(s)'
        /\ pc'[s] \in {"remove", "returned", "leftover"} /\ Moved(s) => pc[s] \in {"remove", "returned", "leftover"}
    BY <1>3, DirectoryFrame
  <2>2. ASSUME NEW t \in Servers PROVE DirectoryOf(t)'
    <3>1. pc'[t] \in {"getwd", "chdir", "restore"} => Embedded(t)'
      BY <1>2, <2>1
    <3>2. cwd' = t => Moved(t)'
      BY <1>0, <1>1, <2>1 DEF DirectoryOf
    <3>3. \A u \in Servers : prev'[t] = u => u # t /\ Moved(u)'
      BY <1>0, <1>1, <2>1 DEF DirectoryOf
    <3>4. cwd' = t /\ pc'[t] \in {"remove", "returned", "leftover"} => prev'[t] # Home \/ \E u \in Servers \ {t} : Moved(u)'
      BY <1>0, <1>1, <2>1 DEF DirectoryOf, Frame
    <3> QED
      BY <3>1, <3>2, <3>3, <3>4 DEF DirectoryOf
  <2> QED
    BY <2>2 DEF DirectoryInv
<1>4. CASE Getwd(s)
  <2>1. pc[s] = "getwd" /\ pc'[s] = "chdir" /\ opts' = opts /\ cwd' = cwd /\ Embedded(s)
    BY <1>1, <1>4 DEF Getwd, Goto, DirectoryOf, Inv, StateInv
  <2>2. prev'[s] = cwd \/ prev'[s] = prev[s]
    BY <1>4 DEF Getwd, Inv, StateInv
  <2>3. ~Moved(s)
    BY <2>1 DEF Moved, Entered
  <2>4. ASSUME NEW t \in Servers PROVE DirectoryOf(t)'
    <3>1. pc'[t] \in {"getwd", "chdir", "restore"} => Embedded(t)'
      BY <1>2, <2>1 DEF Embedded
    <3>2. cwd' = t => Moved(t)'
      BY <1>0, <1>1, <2>1 DEF DirectoryOf
    <3>3. \A u \in Servers : prev'[t] = u => u # t /\ Moved(u)'
      BY <1>0, <1>1, <2>2, <2>3 DEF DirectoryOf, Frame
    <3>4. cwd' = t /\ pc'[t] \in {"remove", "returned", "leftover"} => prev'[t] # Home \/ \E u \in Servers \ {t} : Moved(u)'
      BY <1>0, <1>1, <2>1 DEF DirectoryOf, Frame
    <3> QED
      BY <3>1, <3>2, <3>3, <3>4 DEF DirectoryOf
  <2> QED
    BY <2>4 DEF DirectoryInv
<1>5. CASE Chdir(s)
  <2>1. pc[s] = "chdir" /\ opts' = opts /\ prev' = prev /\ Embedded(s)
    BY <1>1, <1>5 DEF Chdir, DirectoryOf
  <2>2. (cwd' = s /\ pc'[s] = "running") \/ (cwd' = cwd /\ pc'[s] = "remove")
    BY <1>5 DEF Chdir, Goto, Inv, StateInv
  <2>3. ~Moved(s) /\ Moved(s)'
    BY <2>1, <2>2 DEF Moved, Entered, Embedded
  <2>4. ASSUME NEW t \in Servers PROVE DirectoryOf(t)'
    <3>1. pc'[t] \in {"getwd", "chdir", "restore"} => Embedded(t)'
      BY <1>2, <2>2
    <3>2. cwd' = t => Moved(t)'
      BY <1>0, <1>1, <2>2, <2>3 DEF DirectoryOf
    <3>3. \A u \in Servers : prev'[t] = u => u # t /\ Moved(u)'
      BY <1>0, <1>1, <2>1 DEF DirectoryOf
    <3>4. cwd' = t /\ pc'[t] \in {"remove", "returned", "leftover"} => prev'[t] # Home \/ \E u \in Servers \ {t} : Moved(u)'
      BY <1>0, <1>1, <2>2, <2>3 DEF DirectoryOf, Frame
    <3> QED
      BY <3>1, <3>2, <3>3, <3>4 DEF DirectoryOf
  <2> QED
    BY <2>4 DEF DirectoryInv
<1>6. CASE RestoreCwd(s)
  <2>1. /\ pc[s] = "restore" /\ pc'[s] = "remove" /\ opts' = opts /\ prev' = prev /\ Embedded(s)
        /\ cwd' = IF Exists(prev[s]) THEN prev[s] ELSE cwd
    BY <1>1, <1>6 DEF RestoreCwd, Goto, DirectoryOf, Inv, StateInv
  <2>2. Moved(s)'
    BY <2>1 DEF Moved, Entered, Embedded
  <2>3. cwd' = s => prev[s] # Home
    BY <1>1, <2>1, ServerAssumption DEF DirectoryOf, Exists
  <2>4. ASSUME NEW t \in Servers PROVE DirectoryOf(t)'
    <3>1. pc'[t] \in {"getwd", "chdir", "restore"} => Embedded(t)'
      BY <1>2, <2>1
    <3>2. cwd' = t => Moved(t)'
      BY <1>0, <1>1, <2>1 DEF DirectoryOf
    <3>3. \A u \in Servers : prev'[t] = u => u # t /\ Moved(u)'
      BY <1>0, <1>1, <2>1 DEF DirectoryOf
    <3>4. cwd' = t /\ pc'[t] \in {"remove", "returned", "leftover"} => prev'[t] # Home \/ \E u \in Servers \ {t} : Moved(u)'
      BY <2>1, <2>2, <2>3
    <3> QED
      BY <3>1, <3>2, <3>3, <3>4 DEF DirectoryOf
  <2> QED
    BY <2>4 DEF DirectoryInv
<1> QED
  BY <1>3, <1>4, <1>5, <1>6

\* The invariant holds: one lemma above for each of its parts.
THEOREM SetupInvariant == Spec => []Inv
<1>1. Init => Inv
  BY InitInv
<1>2. Inv /\ [Next]_vars => Inv'
  <2> SUFFICES ASSUME Inv, [Next]_vars PROVE Inv'
    OBVIOUS
  <2>1. CASE Next
    <3>1. PICK s \in Servers : Step(s)
      BY <2>1 DEF Next, Step
    <3>2. StateInv
      BY DEF Inv
    <3> QED
      BY <3>1, <3>2, StateStep, OptionsStep, SourceStep, FilesStep, DirectoryStep DEF Inv
  <2>2. CASE UNCHANGED vars
    <3>1. StateInv'
      BY <2>2 DEF vars, Inv, StateInv
    <3>2. OptionsInv'
      BY <2>2 DEF vars, Inv, OptionsInv, OptionsOf, Asked
    <3>3. SourceInv'
      <4>1. ASSUME NEW t \in Servers PROVE Given(t)' = Given(t)
        BY <2>2 DEF vars, Given, Asked
      <4> QED
        BY <2>2, <4>1 DEF vars, Inv, SourceInv, First
    <3>4. FilesInv'
      BY <2>2 DEF vars, Inv, FilesInv, FilesOf
    <3>5. DirectoryInv'
      BY <2>2 DEF vars, Inv, DirectoryInv, DirectoryOf, Moved, Embedded
    <3> QED
      BY <3>1, <3>2, <3>3, <3>4, <3>5 DEF Inv
  <2> QED
    BY <2>1, <2>2
<1> QED
  BY <1>1, <1>2, PTL DEF Spec

----------------------------------------------------------------------------
(***************************************************************************)
(* The properties.                                                         *)
(***************************************************************************)
LEMMA PortValues ==
    ASSUME NEW s, NEW h, NEW n
    PROVE  splitHostPort(s, h, n).port[1] = "int"
BY DEF splitHostPort, Int_

\* Whatever the overrides are, the port of config.yml that they leave alone is
\* an int, and the directory of a run exists exactly while run owns it or if it
\* could not be removed.
THEOREM SetupTypeCorrect == Spec => []TypeOK
<1>1. Inv => TypeOK
  <2> SUFFICES ASSUME Inv, NEW s \in Servers, "config.yml" \in DOMAIN files[s],
                      NEW p \in {<<"bedrock", "port">>, <<"java", "port">>}, Inherited(s, p)
               PROVE  At(ConfigOf(s), p)[1] = "int"
    BY DEF Inv, StateInv, FilesInv, FilesOf, TypeOK
  <2>1. ConfigOf(s) = Map(buildConfigMap(opts[s]))
    BY DEF Inv, FilesInv, FilesOf, ConfigOf
  <2>2. /\ Inherited(s, <<"bedrock", "port">>) => At(ConfigOf(s), <<"bedrock", "port">>) = Listen(opts[s]).port
        /\ Inherited(s, <<"java", "port">>) => At(ConfigOf(s), <<"java", "port">>) = Upstream(opts[s]).port
    BY <2>1, BuiltConfig, Zenon DEF Inherited, Overrides
  <2> QED
    BY <2>2, PortValues DEF Listen, Upstream
<1> QED
  BY <1>1, SetupInvariant, PTL

\* The rendered address is the one the text gives, unless overridden.
LEMMA AddressHolds ==
    ASSUME NEW s, NEW key, NEW text, IsText(text), text # <<>>, NEW h, NEW n,
           Inherited(s, <<key, "address">>) =>
                At(ConfigOf(s), <<key, "address">>) = splitHostPort(text, h, n).address,
           Inherited(s, <<key, "port">>) =>
                At(ConfigOf(s), <<key, "port">>) = splitHostPort(text, h, n).port
    PROVE  Addressed(s, key, text, h, n)
<1> SUFFICES ASSUME NEW x \in Parts(text), NEW y \in Parts(text), Reads(text, x, y)
             PROVE  /\ Inherited(s, <<key, "address">>) =>
                            At(ConfigOf(s), <<key, "address">>) = Text(IF x = <<>> THEN h ELSE x)
                    /\ Inherited(s, <<key, "port">>) =>
                            At(ConfigOf(s), <<key, "port">>) = Int_(IF IsNumber(y) THEN Atoi(y) ELSE n)
  BY Zenon DEF Addressed
<1>1. splitHostPortStr(text) = [host |-> x, port |-> y]
  BY SplitReads, Zenon
<1>2. splitHostPortStr(text).host = x /\ splitHostPortStr(text).port = y
  BY <1>1
<1>3. /\ splitHostPort(text, h, n).address = Text(IF x = <<>> THEN h ELSE x)
      /\ splitHostPort(text, h, n).port = Int_(IF IsNumber(y) THEN Atoi(y) ELSE n)
  BY <1>2 DEF splitHostPort
<1> QED
  BY <1>3, Zenon

\* For every tree of overrides and every address, the config.yml of a running
\* server holds each override, the typed option or the baseline where none
\* speaks, and nothing else; and the addresses are split where they are to be.
THEOREM PrecedenceKept == Spec => []ConfigPrecedence
<1>1. Inv => ConfigPrecedence
  <2> SUFFICES ASSUME Inv, NEW s \in Servers, pc[s] = "running"
               PROVE  /\ \A p \in Leaves(Overrides(s)) : At(ConfigOf(s), p) = At(Overrides(s), p)
                      /\ \A p \in DefaultPaths(opts[s]) :
                            Inherited(s, p) => At(ConfigOf(s), p) = Default(opts[s], p)
                      /\ \A p \in Leaves(ConfigOf(s)) \ Leaves(Overrides(s)) :
                            Inherited(s, p) /\ p \in DefaultPaths(opts[s]) \cup AddressPaths
                      /\ Addressed(s, "bedrock", IF opts[s].listen = <<>> THEN DefaultListen ELSE opts[s].listen,
                                   ListenHost, 19132)
                      /\ Addressed(s, "java", opts[s].upstream, UpstreamHost, 25565)
    BY DEF ConfigPrecedence
  <2>1. ConfigOf(s) = Map(buildConfigMap(opts[s]))
    BY DEF Inv, FilesInv, FilesOf, ConfigOf, Rendered
  <2>2. IsText(opts[s].listen) /\ IsText(opts[s].upstream) /\ opts[s].listen # <<>> /\ opts[s].upstream # <<>>
    BY DEF Inv, OptionsInv, OptionsOf, Complete, Valid, Accepted, Steps
  <2>a. \A p \in Leaves(Overrides(s)) : At(ConfigOf(s), p) = At(Overrides(s), p)
    BY <2>1, BuiltConfig DEF Overrides
  <2>b. \A p \in DefaultPaths(opts[s]) : Inherited(s, p) => At(ConfigOf(s), p) = Default(opts[s], p)
    BY <2>1, BuiltConfig, Zenon DEF Inherited, Overrides
  <2>3. \A p \in Leaves(ConfigOf(s)) \ Leaves(Overrides(s)) :
            Inherited(s, p) /\ p \in DefaultPaths(opts[s]) \cup AddressPaths
    BY <2>1, BuiltConfig, ZenonT(60) DEF Inherited, Overrides
  <2>4. /\ Inherited(s, <<"bedrock", "address">>) =>
                At(ConfigOf(s), <<"bedrock", "address">>) = Listen(opts[s]).address
        /\ Inherited(s, <<"bedrock", "port">>) => At(ConfigOf(s), <<"bedrock", "port">>) = Listen(opts[s]).port
        /\ Inherited(s, <<"java", "address">>) =>
                At(ConfigOf(s), <<"java", "address">>) = Upstream(opts[s]).address
        /\ Inherited(s, <<"java", "port">>) => At(ConfigOf(s), <<"java", "port">>) = Upstream(opts[s]).port
    BY <2>1, BuiltConfig, Zenon DEF Inherited, Overrides
  <2>5. Addressed(s, "bedrock", opts[s].listen, ListenHost, 19132)
    <3>1. /\ Inherited(s, <<"bedrock", "address">>) => At(ConfigOf(s), <<"bedrock", "address">>) =
                splitHostPort(opts[s].listen, ListenHost, 19132).address
          /\ Inherited(s, <<"bedrock", "port">>) => At(ConfigOf(s), <<"bedrock", "port">>) =
                splitHostPort(opts[s].listen, ListenHost, 19132).port
      BY <2>4 DEF Listen
    <3>2. PICK text, n : text = opts[s].listen /\ n = 19132
      OBVIOUS
    <3>3. /\ IsText(text) /\ text # <<>>
          /\ Inherited(s, <<"bedrock", "address">>) =>
                At(ConfigOf(s), <<"bedrock", "address">>) = splitHostPort(text, ListenHost, n).address
          /\ Inherited(s, <<"bedrock", "port">>) =>
                At(ConfigOf(s), <<"bedrock", "port">>) = splitHostPort(text, ListenHost, n).port
      BY <2>2, <3>1, <3>2
    <3>4. Addressed(s, "bedrock", text, ListenHost, n)
      BY <3>3, AddressHolds, Zenon
    <3> QED
      BY <3>2, <3>4
  <2>6. Addressed(s, "java", opts[s].upstream, UpstreamHost, 25565)
    <3>1. /\ Inherited(s, <<"java", "address">>) => At(ConfigOf(s), <<"java", "address">>) =
                splitHostPort(opts[s].upstream, UpstreamHost, 25565).address
          /\ Inherited(s, <<"java", "port">>) => At(ConfigOf(s), <<"java", "port">>) =
                splitHostPort(opts[s].upstream, UpstreamHost, 25565).port
      BY <2>4 DEF Upstream
    <3>2. PICK text, n : text = opts[s].upstream /\ n = 25565
      OBVIOUS
    <3>3. /\ IsText(text) /\ text # <<>>
          /\ Inherited(s, <<"java", "address">>) =>
                At(ConfigOf(s), <<"java", "address">>) = splitHostPort(text, UpstreamHost, n).address
          /\ Inherited(s, <<"java", "port">>) =>
                At(ConfigOf(s), <<"java", "port">>) = splitHostPort(text, UpstreamHost, n).port
      BY <2>2, <3>1, <3>2
    <3>4. Addressed(s, "java", text, UpstreamHost, n)
      BY <3>3, AddressHolds, Zenon
    <3> QED
      BY <3>2, <3>4
  <2>7. (IF opts[s].listen = <<>> THEN DefaultListen ELSE opts[s].listen) = opts[s].listen
    BY <2>2, Zenon
  <2> QED
    BY <2>3, <2>5, <2>6, <2>7, <2>a, <2>b
<1> QED
  BY <1>1, SetupInvariant, PTL

\* On every host and for every request, a server runs in the mode and with
\* the authentication asked for, from the first asset that was given, and with
\* its key exactly if it needs one.
THEOREM ConfigurationRuns == Spec => []RunsAsConfigured
<1>1. Inv => RunsAsConfigured
  BY DEF Inv, OptionsInv, OptionsOf, SourceInv, First, FilesInv, FilesOf, RunsAsConfigured,
         Accepted, Steps, Located, WithWorkdir, Rendered
<1> QED
  BY <1>1, SetupInvariant, PTL

\* However the runs of any number of servers interleave and wherever they
\* fail, their directories are gone in the end unless os.RemoveAll failed; and the
\* process is back where it was if only one of them was embedded.
THEOREM SetupIsUndone == Spec => []SetupUndone
<1>1. Inv => SetupUndone
  <2> SUFFICES ASSUME Inv, \A s \in Servers : Over(s) \/ pc[s] \in {"disabled", "refused"}
               PROVE  /\ workdirs = {s \in Servers : pc[s] = "leftover"}
                      /\ \A s \in Servers \ workdirs : files[s] = Empty
                      /\ (\A s, t \in Servers :
                            Over(s) /\ Over(t) /\ Embedded(s) /\ Embedded(t) => s = t)
                         => cwd = Home \/ \E s \in Servers : cwd = s /\ prev[s] = NoDir
    BY DEF SetupUndone
  <2>1. workdirs = {s \in Servers : pc[s] = "leftover"}
    BY DEF Inv, StateInv, WithWorkdir, Over
  <2>2. ASSUME NEW s \in Servers \ workdirs PROVE files[s] = Empty
    BY DEF Inv, StateInv, FilesInv, FilesOf, WithWorkdir, Over
  <2>3. ASSUME \A s, t \in Servers :
                    Over(s) /\ Over(t) /\ Embedded(s) /\ Embedded(t) => s = t,
               cwd # Home
        PROVE  \E s \in Servers : cwd = s /\ prev[s] = NoDir
    <3>1. PICK s \in Servers : cwd = s
      BY <2>3 DEF Inv, StateInv
    <3>2. \A u \in Servers : Moved(u) => Over(u) /\ Embedded(u)
      BY DEF Moved, Entered, Over
    <3>3. Moved(s) /\ (prev[s] # Home \/ \E u \in Servers \ {s} : Moved(u))
      BY <3>1, <3>2 DEF Inv, DirectoryInv, DirectoryOf, Over
    <3>4. prev[s] # Home
      BY <2>3, <3>2, <3>3
    <3>5. ASSUME NEW t \in Servers PROVE prev[s] # t
      BY <2>3, <3>2, <3>3 DEF Inv, DirectoryInv, DirectoryOf
    <3>6. prev[s] \in Servers \cup {Home, NoDir}
      BY DEF Inv, StateInv
    <3> QED
      BY <3>1, <3>4, <3>5, <3>6
  <2> QED
    BY <2>1, <2>2, <2>3
<1> QED
  BY <1>1, SetupInvariant, PTL

----------------------------------------------------------------------------
(***************************************************************************)
(* The recursion of mergeMap.                                              *)
(***************************************************************************)
\* Maps that are one, two and three levels deep.
Deep1(d) == \A k \in DOMAIN d : ~IsMap(d[k])
Deep2(d) == \A k \in DOMAIN d : IsMap(d[k]) => Deep1(d[k][2])
Deep3(d) == \A k \in DOMAIN d : IsMap(d[k]) => Deep2(d[k][2])

\* The same, read with Keys and Child.
LEMMA DeepTrees ==
    ASSUME NEW d, NEW t, t = Map(d),
           \A a \in Keys(t) : \A b \in Keys(Child(t, a)) : \A c \in Keys(Child(Child(t, a), b)) :
                ~IsMap(Child(Child(Child(t, a), b), c))
    PROVE  Deep3(d)
<1>1. Keys(t) = DOMAIN d /\ \A k \in DOMAIN d : Child(t, k) = d[k]
  BY ChildFacts, Zenon
<1> SUFFICES ASSUME NEW a \in DOMAIN d, IsMap(d[a]) PROVE Deep2(d[a][2])
  BY Zenon DEF Deep3
<1> DEFINE e == Child(t, a)
           f == e[2]
<1>2. e = d[a] /\ IsMap(e)
  BY <1>1
<1>3. Keys(e) = DOMAIN f /\ \A k \in DOMAIN f : Child(e, k) = f[k]
  BY <1>2, ChildFacts, Zenon
<1>4. \A b \in Keys(e) : \A c \in Keys(Child(e, b)) : ~IsMap(Child(Child(e, b), c))
  BY <1>1
<1>5. f = d[a][2]
  BY <1>2
<1> HIDE DEF e, f
<1> SUFFICES ASSUME NEW b \in DOMAIN f, IsMap(f[b]) PROVE Deep1(f[b][2])
  BY <1>5, Zenon DEF Deep2
<1> DEFINE g == Child(e, b)
           h == g[2]
<1>6. g = f[b] /\ IsMap(g)
  BY <1>3
<1>7. Keys(g) = DOMAIN h /\ \A k \in DOMAIN h : Child(g, k) = h[k]
  BY <1>6, ChildFacts, Zenon
<1>8. \A c \in Keys(g) : ~IsMap(Child(g, c))
  BY <1>3, <1>4
<1>9. h = f[b][2]
  BY <1>6
<1> HIDE DEF g, h
<1> QED
  BY <1>7, <1>8, <1>9 DEF Deep1

\* The baseline is three levels deep.
LEMMA BaselineDeep == Deep3(baselineConfigYAML)
<1> DEFINE B == [address |-> Text(ListenHost), port |-> Int_(19132), motd1 |-> Word("geyserlite"),
                 compressionLevel |-> Int_(6)]
           J == [address |-> Text(UpstreamHost), port |-> Int_(25565), authType |-> Word("floodgate")]
           X == Bool(FALSE)
           H == [useHaproxyProtocol |-> X]
           A == [java |-> Map(H)]
<1>1. Deep1(B) /\ Deep1(J)
  BY TagFacts DEF Deep1
<1>2. Deep1(H)
  <2>1. ~IsMap(X)
    BY TagFacts, Zenon
  <2> HIDE DEF X
  <2> QED
    BY <2>1 DEF Deep1
<1>3. baselineConfigYAML = [bedrock |-> Map(B), java |-> Map(J), advanced |-> Map(A), mtu |-> Int_(1400)]
  BY DEF baselineConfigYAML
<1> HIDE DEF B, J, H
<1>4. Deep2(A)
  BY <1>2, TagFacts DEF Deep2
<1>5. Deep2(B) /\ Deep2(J)
  BY <1>1 DEF Deep1, Deep2
<1> HIDE DEF A
<1>6. ASSUME NEW k \in DOMAIN baselineConfigYAML, IsMap(baselineConfigYAML[k])
      PROVE  Deep2(baselineConfigYAML[k][2])
  BY <1>3, <1>4, <1>5, <1>6, TagFacts
<1> QED
  BY <1>6, Zenon DEF Deep3

\* So is the configuration that the overrides meet.
LEMMA BaseDeep ==
    ASSUME NEW o
    PROVE  Deep3(Base(o))
<1> DEFINE t == Map(Base(o))
<1>1. BaseTree(o, t)
  BY BaseIsTree, Zenon
<1> HIDE DEF t
<1>2. ASSUME NEW a \in Keys(t), NEW b \in Keys(Child(t, a)), NEW c \in Keys(Child(Child(t, a), b))
      PROVE  ~IsMap(Child(Child(Child(t, a), b), c))
  <2>1. IsMap(Child(t, a)) /\ IsMap(Child(Child(t, a), b))
    BY ChildFacts, Zenon
  <2>2. ~IsMap(Proxied(o))
    BY TagFacts, Zenon DEF Proxied
  <2>3. /\ ~IsMap(Listen(o).address) /\ ~IsMap(Listen(o).port)
        /\ ~IsMap(Upstream(o).address) /\ ~IsMap(Upstream(o).port)
    BY AddressValues DEF Listen, Upstream
  <2>4. /\ ~IsMap(Motd(o)) /\ ~IsMap(AuthWord(o)) /\ ~IsMap(Word("key.bin"))
    BY TagFacts, Zenon DEF Motd, AuthWord
  <2>5. ~IsMap(Int_(6)) /\ ~IsMap(Int_(1400))
    BY TagFacts
  <2>6. a = "advanced" /\ b = "java" /\ c = "useHaproxyProtocol"
    BY <1>1, <2>1, <2>3, <2>4, <2>5 DEF BaseTree
  <2> QED
    BY <1>1, <2>2, <2>6 DEF BaseTree
<1> QED
  BY <1>2, DeepTrees, Zenon DEF t

\* mergeMap calls itself without a limit on the depth, where ServerSetup stops
\* at the third level.  Let R be any operator that satisfies the recursive
\* equation of the code on the maps D of the configuration: then
\* buildConfigMap is what it is with R, whatever the overrides are.
THEOREM MergeUnrolled ==
    ASSUME NEW o, NEW R(_, _), NEW D,
           baselineConfigYAML \in D, Base(o) \in D,
           \A d \in D : \A k \in DOMAIN d : IsMap(d[k]) => d[k][2] \in D,
           \A d \in D : \A src : R(d, src) = mergeLevel(d, src, R)
    PROVE  buildConfigMap(o) = R(KeyFile(o, R(baselineConfigYAML, Knobs(o))), o.overrides)
<1>1. ASSUME NEW d \in D, Deep1(d)
      PROVE  \A src : R(d, src) = mergeLeaves(d, src)
  <2> TAKE src
  <2>1. R(d, src) = mergeLevel(d, src, R)
    OBVIOUS
  <2> QED
    BY <1>1, <2>1 DEF mergeLevel, mergeLeaves, Deep1
<1>2. ASSUME NEW d \in D, Deep2(d)
      PROVE  \A src : R(d, src) = mergeSection(d, src)
  <2> TAKE src
  <2>1. R(d, src) = mergeLevel(d, src, R)
    OBVIOUS
  <2>2. \A k \in DOMAIN d : IsMap(d[k]) => R(d[k][2], src[k][2]) = mergeLeaves(d[k][2], src[k][2])
    BY <1>1, <1>2 DEF Deep2
  <2> QED
    BY <2>1, <2>2 DEF mergeLevel, mergeSection
<1>3. ASSUME NEW d \in D, Deep3(d)
      PROVE  \A src : R(d, src) = mergeMap(d, src)
  <2> TAKE src
  <2>1. R(d, src) = mergeLevel(d, src, R)
    OBVIOUS
  <2>2. \A k \in DOMAIN d : IsMap(d[k]) => R(d[k][2], src[k][2]) = mergeSection(d[k][2], src[k][2])
    BY <1>2, <1>3 DEF Deep3
  <2> QED
    BY <2>1, <2>2 DEF mergeLevel, mergeMap
<1>4. R(baselineConfigYAML, Knobs(o)) = mergeMap(baselineConfigYAML, Knobs(o))
  BY <1>3, BaselineDeep, Zenon
<1>5. R(Base(o), o.overrides) = mergeMap(Base(o), o.overrides)
  BY <1>3, BaseDeep, Zenon
<1>6. KeyFile(o, R(baselineConfigYAML, Knobs(o))) = Base(o)
  BY <1>4, Zenon DEF Base
<1>7. buildConfigMap(o) = mergeMap(Base(o), o.overrides)
  BY Zenon DEF buildConfigMap, Base
<1> QED
  BY <1>5, <1>6, <1>7, Zenon

=============================================================================
