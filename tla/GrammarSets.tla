------------------------------- MODULE GrammarSets -------------------------------
(* What a grammar file's LIST and SET statements become: sets made one per      *)
(* content and found by content or by name (Grammar::add_set, append_to_set,    *)
(* TextualParser::parse_tag_list, parse_set_inline), and what reindex makes of  *)
(* them before a rule runs: the used ones numbered, children first, and indexed *)
(* by the tags they look at.  A 32-bit hash is what is hashed: two contents     *)
(* that the code hashes alike are equal here, chance collisions are left out.   *)
(* Tags are numbers in the order of their hashes: t > 0 plain, or special when  *)
(* it is a pattern, -t the tag ^t, and 0 the tag *.                             *)
EXTENDS Integers, Sequences, FiniteSets, SequencesExt, FiniteSetsExt

CONSTANTS
  Patterns,   \* the plain-looking tags that are special (regular expressions)
  Covers,     \* what tags of a reading a pattern matches
  Programs    \* the grammar files: [lines, ...]

VARIABLES
  file,       \* the grammar being read
  line,       \* how many of its statements are read
  g,          \* the Grammar
  phase       \* "parse", then "indexed"

None == 0
Failfast(t) == t < 0
Special(t) == t <= 0 \/ t \in Patterns
Later(a, b) == a < b

--------------------------------------------------------------------------------
(* Tries: the tag sequences of a set.  A node is its path from the root.        *)
NoTrie == [nodes |-> {}, ends |-> {}]
Before(p, q) == IsStrictPrefix(p, q)

\* What trie_insert makes of a trie: nothing, when a prefix is there already.
TrieInsert(trie, path) ==
  IF \E p \in trie.ends : IsPrefix(p, path) THEN trie
  ELSE [nodes |-> {p \in trie.nodes : ~Before(path, p)} \union (Prefixes(path) \ {<<>>}),
        ends |-> {p \in trie.ends : ~Before(path, p)} \union {path}]
\* add_tag_to_set marks the node of one tag, and leaves what is below it.
TrieMark(trie, t) == [nodes |-> trie.nodes \union {<<t>>}, ends |-> trie.ends \union {<<t>>}]

Below(trie, path) == {p[Len(path) + 1] : p \in {q \in trie.nodes : Len(q) = Len(path) + 1 /\ Before(path, q)}}
\* One chain that ends.
TrieSingular(trie) ==
  LET shortest == {p \in trie.ends : ~\E q \in trie.ends : Before(q, p)}
  IN  Cardinality(shortest) = 1
      /\ \A p \in shortest : \A q \in Prefixes(p) \ {p} : Cardinality(Below(trie, q)) = 1
Ascending(S) == [i \in 1 .. Cardinality(S) |-> CHOOSE x \in S : Cardinality({y \in S : y < x}) = i - 1]
InHashOrder(tags) == Ascending(tags)
\* Every tag of a trie; of one chain, its tags.
RECURSIVE TrieGetTagList(_, _)
TrieGetTagList(trie, path) ==
  FoldLeft(LAMBDA l, t : Append(l, t) \o TrieGetTagList(trie, Append(path, t)), <<>>, InHashOrder(Below(trie, path)))
\* trie_get_tags_into: the tag lists of a trie.  tv is the caller's buffer, which
\* a level that ends nowhere leaves one tag longer.
RECURSIVE GetTagsInto(_, _, _)
GetTagsInto(trie, path, acc) ==
  FoldLeft(LAMBDA a, t :
             LET tv == Append(a.tv, t)
                 here == Append(path, t)
                 sorted == SortSeq(tv, Later)
             IN  CASE here \in trie.ends -> [lists |-> a.lists \union {sorted}, tv |-> Front(sorted)]
                   [] here \notin trie.ends /\ Below(trie, here) # {} -> GetTagsInto(trie, here, [a EXCEPT !.tv = tv])
                   [] OTHER -> [a EXCEPT !.tv = tv],
           acc, InHashOrder(Below(trie, path)))
\* trie_get_tags: the buffer is new for each tag of the first level.
TrieGetTags(trie) ==
  UNION {LET p == <<t>> IN
         IF p \in trie.ends THEN {p}
         ELSE GetTagsInto(trie, p, [lists |-> {}, tv |-> p]).lists : t \in Below(trie, <<>>)}

--------------------------------------------------------------------------------
(* Sets and the two maps that find them.                                        *)
Blank == [name |-> <<"", "">>, sets |-> <<>>, ops |-> <<>>, trie |-> NoTrie, special |-> NoTrie,
          ff |-> {}, flags |-> {}, hash |-> None]
Internal(name) == name[1] = "_G_"
Anonymous == <<"_G_", "">>

EmptyGrammar ==
  [sets |-> [i \in {} |-> Blank], next |-> 1, contents |-> [c \in {} |-> None], names |-> [n \in {} |-> None],
   seeds |-> [n \in {} |-> None], alias |-> [n \in {} |-> None], tags |-> <<>>, rules |-> <<>>,
   order |-> <<>>, byTag |-> [t \in {} |-> {}], ruleTags |-> [t \in {} |-> {}], error |-> "none"]

Without(f, x) == [y \in DOMAIN f \ {x} |-> f[y]]
Put(f, x, v) == (x :> v) @@ f

\* The set's hash is made of its flags and its tries' tags, or its components;
\* of a node that ends and one that does not, alike.
Content(s) ==
  IF s.sets = <<>>
  THEN [unify |-> s.flags \intersect {"TAG_UNIFY", "SET_UNIFY"}, trie |-> s.trie.nodes, special |-> s.special.nodes]
  ELSE [unify |-> s.flags \intersect {"TAG_UNIFY", "SET_UNIFY"}, sets |-> s.sets, ops |-> s.ops]

AllocateSet(gr, s) == [gr EXCEPT !.sets = Put(@, gr.next, s), !.next = @ + 1]
Intern(gr, tags) == [gr EXCEPT !.tags = FoldLeft(LAMBDA ts, t : IF Contains(ts, t) THEN ts ELSE Append(ts, t), @, tags)]

ByContent(gr, c) == gr.sets[gr.contents[c]]
\* The set a name stands for.  A name whose set has a seed is looked up again
\* under content plus seed, where nothing is.
GetSet(gr, name) ==
  IF <<name, 0>> \notin DOMAIN gr.names THEN None
  ELSE LET id == gr.contents[gr.names[<<name, 0>>]]
       IN  IF gr.sets[id].name \in DOMAIN gr.seeds THEN None ELSE id

AddTagToSet(s, t) ==
  LET any == IF t = 0 THEN {"ANY"} ELSE {}
      ff == IF Failfast(t) THEN {t} ELSE {}
      with == [s EXCEPT !.flags = @ \union any, !.ff = @ \union ff]
  IN  IF Special(t) THEN [with EXCEPT !.special = TrieMark(@, t), !.flags = @ \union {"SPECIAL"}]
      ELSE [with EXCEPT !.trie = TrieMark(@, t)]
\* One tag sequence of a list: in the special trie when any of its tags is.
AddTags(s, tags) ==
  CASE Len(tags) = 1 -> AddTagToSet(s, tags[1])
    [] Len(tags) > 1 /\ \E i \in DOMAIN tags : Special(tags[i]) -> [s EXCEPT !.special = TrieInsert(@, tags)]
    [] OTHER -> [s EXCEPT !.trie = TrieInsert(@, tags)]

GetNonEmpty(s) == IF s.trie.nodes # {} THEN s.trie ELSE s.special
\* A component that SET-to-LIST folding takes: one tag sequence.
OneList(s) == s.sets = <<>> /\ (s.trie.nodes = {} \/ s.special.nodes = {}) /\ TrieSingular(GetNonEmpty(s))

\* MUTANT of Folded: whatever the operators are.
FoldedAnyOp(gr, s) ==
  IF s.sets # <<>> /\ s.flags \intersect {"TAG_UNIFY", "SET_UNIFY", "CHILD_UNIFY"} = {}
     /\ \A c \in ToSet(s.sets) : OneList(ByContent(gr, c))
  THEN FoldLeft(LAMBDA r, c : AddTags(r, TrieGetTagList(GetNonEmpty(ByContent(gr, c)), <<>>)),
                [s EXCEPT !.sets = <<>>, !.ops = <<>>], s.sets)
  ELSE s
\* An OR of single tag sequences becomes a list of them.
Folded(gr, s) ==
  IF s.sets # <<>> /\ s.flags \intersect {"TAG_UNIFY", "SET_UNIFY", "CHILD_UNIFY"} = {}
     /\ ToSet(s.ops) \subseteq {"OR"}
     /\ \A c \in ToSet(s.sets) : OneList(ByContent(gr, c))
  THEN FoldLeft(LAMBDA r, c : AddTags(r, TrieGetTagList(GetNonEmpty(ByContent(gr, c)), <<>>)),
                [s EXCEPT !.sets = <<>>, !.ops = <<>>], s.sets)
  ELSE s

\* Registration by name: a name is not given twice to different contents, as far
\* as the set that holds the first content still goes by that name.
Named(gr, id, c) ==
  LET name == gr.sets[id].name
      slot == <<name, IF name \in DOMAIN gr.seeds THEN gr.seeds[name] ELSE 0>>
      seed == Min({k \in 1 .. Cardinality(DOMAIN gr.names) + 1 : <<name, slot[2] + k>> \notin DOMAIN gr.names})
  IN  CASE Internal(name) \/ (<<name, 0>> \in DOMAIN gr.names /\ gr.names[<<name, 0>>] = c) -> gr
        [] ~Internal(name) /\ (<<name, 0>> \in DOMAIN gr.names => gr.names[<<name, 0>>] # c)
           /\ slot \notin DOMAIN gr.names -> [gr EXCEPT !.names = Put(@, slot, c)]
        [] OTHER -> IF gr.names[slot] = c THEN gr
                    ELSE IF ByContent(gr, gr.names[slot]).name = name THEN [gr EXCEPT !.error = "redefined"]
                    ELSE [gr EXCEPT !.seeds = Put(@, name, seed), !.names = Put(@, <<name, slot[2] + seed>>, c)]
\* Registration by content: of two sets with one content the first stays.
\* (Contents are the hashes here, so two that differ never collide.)
Canonical(gr, id, c) ==
  IF c \notin DOMAIN gr.contents THEN [g |-> [gr EXCEPT !.contents = Put(@, c, id)], id |-> id]
  ELSE [g |-> IF gr.contents[c] = id THEN gr ELSE [gr EXCEPT !.sets = Without(@, id)], id |-> gr.contents[c]]
Register(gr, id) ==
  LET c == Content(gr.sets[id])
      named == Named([gr EXCEPT !.sets[id].hash = c], id, c)
  IN  IF named.error # "none" THEN [g |-> named, id |-> None] ELSE Canonical(named, id, c)

\* A list with ^tags beside others becomes the others MINUS the tags.
Positive(s) ==
  [Blank EXCEPT !.name = <<"_G_", "POSITIVE">>, !.trie = s.trie,
                !.special = [nodes |-> {p \in s.special.nodes : ~(p[1] \in s.ff /\ <<p[1]>> \in s.special.ends)},
                             ends |-> {p \in s.special.ends : ~(p[1] \in s.ff /\ <<p[1]>> \in s.special.ends)}]]
Negative(s) ==
  FoldLeft(LAMBDA r, t : AddTagToSet(r, -t), [Blank EXCEPT !.name = <<"_G_", "NEGATIVE">>], InHashOrder(s.ff))
RegisterNew(gr, s) == Register(AllocateSet(gr, s), gr.next)
Halved(id, s, plus, minus) ==
  [minus.g EXCEPT !.sets[id] =
     [s EXCEPT !.trie = NoTrie, !.special = NoTrie, !.ff = {}, !.ops = Append(@, "MINUS"),
               !.sets = @ \o <<minus.g.sets[plus].hash, minus.g.sets[minus.id].hash>>]]
LessNegative(id, s, plus) ==
  Halved(id, s, plus.id, RegisterNew(Intern(plus.g, InHashOrder({-t : t \in s.ff})), Negative(s)))
Split(gr, id) ==
  LET s == gr.sets[id]
  IN  IF s.ff = {} \/ Cardinality(s.ff) >= Cardinality(Below(s.trie, <<>>)) + Cardinality(Below(s.special, <<>>)) THEN gr
      ELSE LessNegative(id, s, RegisterNew(gr, Positive(s)))

\* add_set: g and the set that stands for it now.
AddSet(gr, s) == Register(Split(AllocateSet(gr, Folded(gr, s)), gr.next), gr.next)
ReAddSet(gr, id) == Register(Split([gr EXCEPT !.sets[id] = Folded(gr, @)], id), id)

--------------------------------------------------------------------------------
(* LIST += : the set a name stands for, taken out of the name index and put in  *)
(* again under no name; the new one holds both.                                 *)
Prefixed(name) == <<<<"$$", name>>, <<"&&", name>>, <<"", name>>>>
UndefSet(gr, name) ==
  FoldLeft(LAMBDA r, n :
             LET id == GetSet(r, n)
                 seed == IF n \in DOMAIN r.seeds THEN r.seeds[n] ELSE 0
             IN  [(IF id = None THEN r ELSE [r EXCEPT !.sets[id].name = Anonymous])
                  EXCEPT !.seeds = Without(@, n), !.names = Without(@, <<n, seed>>)],
           gr, Prefixed(name))

MergeTries(s, from) ==
  [s EXCEPT !.trie = FoldLeft(TrieInsert, @, SetToSeq(TrieGetTags(from.trie))),
            !.special = FoldLeft(TrieInsert, @, SetToSeq(TrieGetTags(from.special)))]
EitherOf(name, hash, wrapped) ==
  AddSet(wrapped.g, [Blank EXCEPT !.name = name, !.ops = <<"OR">>,
                                  !.sets = <<hash, wrapped.g.sets[wrapped.id].hash>>])
AppendTo(s, again) ==
  LET was == again.g.sets[again.id]
      part(i) == ByContent(again.g, was.sets[i])
      negatives == {p[1] : p \in {q \in part(2).trie.nodes \union part(2).special.nodes : Len(q) = 1}}
      merged == IF was.sets = <<>> THEN [MergeTries(s, was) EXCEPT !.ff = @ \union was.ff]
                ELSE FoldLeft(LAMBDA r, t : AddTagToSet(r, -t), MergeTries(s, part(1)), InHashOrder(negatives))
  IN  IF was.sets = <<>> \/ part(1).name = <<"_G_", "POSITIVE">> THEN AddSet(again.g, merged)
      ELSE EitherOf(s.name, was.hash, AddSet(again.g, [s EXCEPT !.name = Anonymous]))
AppendToSet(gr, s) == AppendTo(s, ReAddSet(UndefSet(gr, s.name[2]), GetSet(gr, s.name)))

--------------------------------------------------------------------------------
(* Parsing: a list's entries, and a set's components with their operators.      *)
\* The order of the tags' ids, which is that of their first mention.
IdOf(gr, t) == CHOOSE i \in DOMAIN gr.tags : gr.tags[i] = t
LexBefore(gr, a, b) ==
  \/ Before(a, b)
  \/ \E i \in DOMAIN a \intersect DOMAIN b :
       SubSeq(a, 1, i - 1) = SubSeq(b, 1, i - 1) /\ IdOf(gr, a[i]) < IdOf(gr, b[i])
\* The most frequent tag first, so that entries share the start of their paths.
ByFrequency(lists, tags) ==
  LET freq(t) == Cardinality({l \in lists : Contains(l, t)})
      first(a, b) == freq(a) > freq(b) \/ (freq(a) = freq(b) /\ Later(a, b))
  IN  SortSeq(tags, first)
ParseTagList(gr, s, entries, ordered) ==
  LET lists == {IF ordered THEN e ELSE InHashOrder(ToSet(e)) : e \in ToSet(entries)}
      less(a, b) == LexBefore(gr, a, b)
  IN  FoldLeft(LAMBDA r, l : AddTags(r, IF ordered THEN l ELSE ByFrequency(lists, l)), s, SetToSortSeq(lists, less))

ParseList(gr, st) ==
  LET mentioned == Intern(gr, FlattenSeq(st.entries))
      s == ParseTagList(mentioned, [Blank EXCEPT !.name = <<"", st.name>>], st.entries, st.ordered)
  IN  IF ~st.append THEN AddSet(mentioned, s)
      ELSE IF GetSet(gr, <<"", st.name>>) = None THEN [g |-> [gr EXCEPT !.error = "undefined"], id |-> None]
      ELSE AppendToSet(mentioned, s)

\* parse_set: a name, $$name or &&name, which is made when it is first used.
FoundSet(gr, name, made) ==
  LET id == IF name \in DOMAIN made.alias THEN made.contents[made.alias[name]] ELSE GetSet(made, name)
  IN  IF id = None \/ (name[1] # "" /\ GetSet(gr, <<"", name[2]>>) = None)
      THEN [g |-> [gr EXCEPT !.error = "undefined"], id |-> None]
      ELSE [g |-> made, id |-> id]
ParseSet(gr, name) ==
  LET plain == GetSet(gr, <<"", name[2]>>)
      flag == IF name[1] = "$$" THEN "TAG_UNIFY" ELSE "SET_UNIFY"
      new == name[1] \in {"$$", "&&"} /\ plain # None /\ GetSet(gr, name) = None
  IN  FoundSet(gr, name,
               IF ~new THEN gr
               ELSE AddSet(gr, [Blank EXCEPT !.name = name, !.sets = <<gr.sets[plain].hash>>, !.flags = {flag}]).g)
\* ( tags ) in place of a name: one sequence, in the order written.
ParseInline(gr, tags) == AddSet(Intern(gr, tags), AddTags([Blank EXCEPT !.name = Anonymous], tags))

\* Grammar::get_tags, one buffer for the tries of a set.
RECURSIVE GetTags(_, _)
GetTags(gr, id) ==
  LET s == gr.sets[id]
      own(trie) == GetTagsInto(trie, <<>>, [lists |-> {}, tv |-> <<>>]).lists
  IN  own(s.trie) \union own(s.special) \union UNION {GetTags(gr, gr.contents[s.sets[i]]) : i \in DOMAIN s.sets}

Eager == {"DIFF", "ISECT", "SYMDIFF"}
\* The operators that work on the lists as they stand: the two last components
\* become one list.
Combined(gr, b, op, a) ==
  LET A == GetTags(gr, gr.contents[a])      B == GetTags(gr, gr.contents[b])
      lists == CASE op = "ISECT" -> A \intersect B [] op = "SYMDIFF" -> (A \ B) \union (B \ A) [] OTHER -> B \ A
  IN  AddSet(gr, FoldLeft(LAMBDA r, l : AddTags(r, ByFrequency(lists, l)), [Blank EXCEPT !.name = Anonymous],
                          SetToSeq(lists)))

\* One component more: r holds the grammar, the components and the operators.
InPlaceOfLast(r, both) == [r EXCEPT !.g = both.g, !.sets = Append(Front(@), both.g.sets[both.id].hash)]
WithComponent(r, c, found) ==
  LET hash == found.g.sets[found.id].hash
  IN  IF found.g.error # "none" THEN [r EXCEPT !.g = found.g]
      ELSE IF c.op \in Eager THEN InPlaceOfLast(r, Combined(found.g, Last(r.sets), c.op, hash))
      ELSE [r EXCEPT !.g = found.g, !.sets = Append(@, hash), !.ops = IF r.sets = <<>> THEN @ ELSE Append(@, c.op)]
ParseComponent(r, c) ==
  IF r.g.error # "none" THEN r
  ELSE WithComponent(r, c, IF c.kind = "tags" THEN ParseInline(r.g, c.tags) ELSE ParseSet(r.g, c.name))
ParseSetInline(gr, components) ==
  FoldLeft(ParseComponent, [g |-> gr, sets |-> <<>>, ops |-> <<>>], components)

\* SET: one component makes the name an alias of it.
SetDefined(st, r) ==
  LET s == [Blank EXCEPT !.name = <<"", st.name>>, !.sets = r.sets, !.ops = r.ops]
  IN  IF r.g.error # "none" THEN r
      ELSE IF Content(s) \notin DOMAIN r.g.contents /\ Len(r.sets) = 1
      THEN ReAddSet([r.g EXCEPT !.alias = Put(@, <<"", st.name>>, r.sets[1])], r.g.contents[r.sets[1]])
      ELSE AddSet(r.g, s)
ParseSetDef(gr, st) == SetDefined(st, ParseSetInline(gr, st.components))

\* A rule's target: the one set it names, or a nameless one of them.
ForRule(hash, gr) == [g |-> [gr EXCEPT !.rules = Append(@, hash)]]
ForRuleMade(made) == ForRule(made.g.sets[made.id].hash, made.g)
RuleParsed(r) ==
  IF r.g.error # "none" THEN r
  ELSE IF Len(r.sets) = 1 THEN ForRule(r.sets[1], r.g)
  ELSE ForRuleMade(AddSet(r.g, [Blank EXCEPT !.name = Anonymous, !.sets = r.sets, !.ops = r.ops]))
ParseRule(gr, st) == RuleParsed(ParseSetInline(gr, st.components))

Statement(gr, st) ==
  CASE st.kind = "LIST" -> ParseList(gr, st) [] st.kind = "SET" -> ParseSetDef(gr, st) [] OTHER -> ParseRule(gr, st)

--------------------------------------------------------------------------------
(* Grammar::reindex.                                                            *)
Children(gr, id) == {gr.contents[gr.sets[id].sets[i]] : i \in DOMAIN gr.sets[id].sets}
RECURSIVE Reachable(_, _)
Reachable(gr, ids) ==
  LET more == UNION {Children(gr, i) : i \in ids} IN IF more \subseteq ids THEN ids ELSE Reachable(gr, ids \union more)
\* Set::mark_used, from the rules' targets.
Used(gr) == Reachable(gr, {gr.contents[gr.rules[r]] : r \in DOMAIN gr.rules})

\* add_set_to_list: a set after its components.
RECURSIVE AddSetToList(_, _, _)
AddSetToList(gr, order, id) ==
  IF Contains(order, id) THEN order
  ELSE Append(FoldLeft(LAMBDA o, c : AddSetToList(gr, o, gr.contents[c]), order, gr.sets[id].sets), id)
\* The sets are taken in the order of their hashes, which is no order of the
\* file's: up or down is as good as any.
Numbering(gr, ids) == FoldLeft(LAMBDA o, id : AddSetToList(gr, o, id), <<>>, ids)

\* Set::reindex: what a set's tags and components make it.
Unify == {"TAG_UNIFY", "SET_UNIFY", "CHILD_UNIFY"}
RECURSIVE Reindexed(_, _)
Reindexed(gr, id) ==
  LET s == gr.sets[id]
      below == UNION {Reindexed(gr, c) : c \in Children(gr, id)}
      tags == UNION {ToSet(p) : p \in s.trie.nodes \union s.special.nodes}
      own == s.flags \ {"SPECIAL", "CHILD_UNIFY"}
      with == own \union (IF "SPECIAL" \in below \/ \E t \in tags : Special(t) THEN {"SPECIAL"} ELSE {})
                  \union (IF below \intersect Unify # {} THEN {"CHILD_UNIFY"} ELSE {})
  IN  IF with \intersect Unify # {} THEN with \union {"SPECIAL", "CHILD_UNIFY"} ELSE with

AnyTag == 0
Tags(s) == UNION {ToSet(p) : p \in s.trie.nodes \union s.special.nodes}
\* MUTANT of IndexedTags: a set of sets is not indexed by their tags.
IndexedTagsOwn(sets, n) ==
  IF sets[n].flags \intersect {"SPECIAL", "TAG_UNIFY"} # {} THEN {AnyTag} ELSE Tags(sets[n])
\* index_sets: the tags a reading must have one of for set n to match, in terms of
\* the numbered sets; and index_set_to_rule, which goes on below a special set.
RECURSIVE IndexedTags(_, _)
IndexedTags(sets, n) ==
  IF sets[n].flags \intersect {"SPECIAL", "TAG_UNIFY"} # {} THEN {AnyTag}
  ELSE Tags(sets[n]) \union UNION {IndexedTags(sets, sets[n].sets[i]) : i \in DOMAIN sets[n].sets}
RECURSIVE RuleTags(_, _)
RuleTags(sets, n) ==
  (IF sets[n].flags \intersect {"SPECIAL", "TAG_UNIFY"} # {} THEN {AnyTag} ELSE {})
  \union Tags(sets[n]) \union UNION {RuleTags(sets, sets[n].sets[i]) : i \in DOMAIN sets[n].sets}

\* The grammar the rules run with: sets by number, their components numbers too.
Reindex(gr, ids) ==
  LET order == Numbering(gr, SelectSeq(ids, LAMBDA i : i \in Used(gr)))
      number(c) == CHOOSE n \in DOMAIN order : order[n] = gr.contents[c]
      sets == [n \in DOMAIN order |->
                 LET s == gr.sets[order[n]]
                 IN  [s EXCEPT !.flags = Reindexed(gr, order[n]), !.sets = [i \in DOMAIN @ |-> number(@[i])]]]
      rules == [r \in DOMAIN gr.rules |-> number(gr.rules[r])]
      indexed == UNION {Tags(sets[n]) : n \in DOMAIN sets} \union {AnyTag}
  IN  [gr EXCEPT !.sets = sets, !.rules = rules, !.order = order,
                 !.byTag = [t \in indexed |-> {n \in DOMAIN sets : t \in IndexedTags(sets, n)}],
                 !.ruleTags = [t \in indexed |-> {r \in DOMAIN rules : t \in RuleTags(sets, rules[r])}],
                 !.contents = [c \in {} |-> None], !.names = [n \in {} |-> None],
                 !.seeds = [n \in {} |-> None], !.alias = [n \in {} |-> None]]

--------------------------------------------------------------------------------
GrammarInit ==
  /\ file \in Programs
  /\ line = 0
  /\ g = EmptyGrammar
  /\ phase = "parse"

\* The next statement of the file.
Parse ==
  /\ phase = "parse" /\ g.error = "none" /\ line < Len(file.lines)
  /\ line' = line + 1
  /\ g' = Statement(g, file.lines[line + 1]).g
  /\ UNCHANGED <<file, phase>>

\* The file is read: the grammar is made ready to run.
IndexGrammar ==
  /\ phase = "parse" /\ g.error = "none" /\ line = Len(file.lines)
  /\ LET up == Ascending(DOMAIN g.sets) IN \E ids \in {up, Reverse(up)} : g' = Reindex(g, ids)
  /\ phase' = "indexed"
  /\ UNCHANGED <<file, line>>
================================================================================
