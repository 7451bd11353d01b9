------------------------------ MODULE GrammarMeaning ------------------------------
(* What a grammar file's sets mean, read off its statements alone, and what the  *)
(* sets it became have to do with it.                                            *)
EXTENDS SetMatching

Entry(tags) == ToSet(tags)
EntryMatches(reading, e) == \A t \in e : t = 0 \/ TagMatches(reading, t)
\* A list matches a reading that has all tags of an entry, and none of its ^tags.
Extent(entries) ==
  {reading \in Readings :
     /\ \A e \in entries : \A t \in e : Failfast(t) => ~TagMatches(reading, t)
     /\ \E e \in entries : (\A t \in e : ~Failfast(t)) /\ EntryMatches(reading, e)}

\* A set's components in order: what each matches, the operator before it, and
\* the entries of those that are lists.
Groups(cs) == {i \in DOMAIN cs : i = 1 \/ cs[i].op = "OR"}
GroupOf(cs, i) == {j \in DOMAIN cs : j >= i /\ \A k \in Groups(cs) : k > i => j < k}
Stops(cs, i, reading) == \E j \in GroupOf(cs, i) \ {i} : cs[j].op = "FAILFAST" /\ reading \in cs[j].extent
Holds(cs, i, reading) ==
  reading \in cs[i].extent /\ \A j \in GroupOf(cs, i) \ {i} : (cs[j].op = "PLUS") <=> (reading \in cs[j].extent)
\* A OR B + C - D ^ E: a group holds as its operators say, and the first ^ that
\* applies ends the search.
SetExtent(cs) ==
  {reading \in Readings :
     \E i \in Groups(cs) : Holds(cs, i, reading) /\ \A k \in Groups(cs) : k < i => ~Stops(cs, k, reading)}

\* What a component stands for, given what the names before it mean.
Component(env, c) ==
  CASE c.kind = "tags" -> [op |-> c.op, entries |-> {Entry(c.tags)}, extent |-> Extent({Entry(c.tags)}), parts |-> <<>>]
    [] c.kind = "name" /\ c.name[1] = "&&" ->
         [op |-> c.op, entries |-> {}, extent |-> UNION {env[c.name[2]].parts[i].extent : i \in DOMAIN env[c.name[2]].parts},
          parts |-> <<>>]
    [] OTHER -> [op |-> c.op, entries |-> env[c.name[2]].entries, extent |-> env[c.name[2]].extent, parts |-> <<>>]
\* \ , the intersection and the symmetric difference are taken of the entries.
Combine(cs, c) ==
  LET A == Last(cs).entries
      entries == CASE c.op = "ISECT" -> A \intersect c.entries
                   [] c.op = "SYMDIFF" -> (A \ c.entries) \union (c.entries \ A)
                   [] OTHER -> A \ c.entries
  IN  IF c.op \in Eager THEN Append(Front(cs), [op |-> Last(cs).op, entries |-> entries, extent |-> Extent(entries), parts |-> <<>>])
      ELSE Append(cs, c)
Components(env, st) == FoldLeft(LAMBDA cs, c : Combine(cs, Component(env, c)), <<>>, st.components)

\* A statement more: the names defined, and the rules' targets.
Meant(acc, st) ==
  LET cs == Components(acc.env, st)
      entries == {Entry(st.entries[i]) : i \in DOMAIN st.entries}
      old == acc.env[st.name]
      define(v) == [acc EXCEPT !.env = Put(@, st.name, v)]
      made == IF Len(cs) = 1 THEN [cs[1] EXCEPT !.op = "OR"]
              ELSE [op |-> "OR", entries |-> UNION {cs[i].entries : i \in DOMAIN cs}, extent |-> SetExtent(cs), parts |-> cs]
  IN  CASE st.kind = "RULE" -> [acc EXCEPT !.rules = Append(@, made)]
        [] st.kind = "SET" -> define(made)
        [] st.kind = "LIST" /\ ~st.append -> define([op |-> "OR", entries |-> entries, extent |-> Extent(entries), parts |-> <<>>])
        [] OTHER ->
             define(IF old.parts = <<>>
                    THEN [old EXCEPT !.entries = @ \union entries, !.extent = Extent(old.entries \union entries)]
                    ELSE [old EXCEPT !.extent = @ \union Extent(entries), !.parts = Append(@, [old EXCEPT !.extent = Extent(entries)])])
Meaning == FoldLeft(Meant, [env |-> [n \in {} |-> None], rules |-> <<>>], file.lines)

Ready == phase = "indexed" /\ asks = 0

\* Every rule's target, after the sets were merged, folded, split, appended to,
\* numbered and adjusted, matches the readings that the statements say (add_set,
\* append_to_set, reindex, does_set_match_reading).
MeaningMatches ==
  Ready => LET meant == Meaning.rules
           IN  \A r \in DOMAIN g.rules :
                 {reading \in Readings : Answer(NoMemo, reading, g.rules[r]).yes} = meant[r].extent

\* No set and no rule is missing from the index a reading is looked up in: one
\* that can match it is under one of its tags, or under "any tag" (index_sets,
\* index_set_to_rule).
IndexComplete ==
  Ready =>
    \A reading \in Readings :
      LET found(index) == UNION {index[t] : t \in DOMAIN index \intersect (reading \union {AnyTag})}
      IN  /\ \A n \in DOMAIN g.sets : Answer(NoMemo, reading, n).yes => n \in found(g.byTag)
          /\ \A r \in DOMAIN g.rules : Answer(NoMemo, reading, g.rules[r]).yes => r \in found(g.ruleTags)

\* The caches change no answer: each is what it would be with both empty, though
\* what was unified before depends on it (index_reading_set_yes and _no).
CacheTransparent == \A i \in DOMAIN asked : asked[i].yes = asked[i].anew

\* The readings that a $$ set matches under one rule have an entry in common,
\* and those an && set matches each share a component with the first of them
\* (check_unif_tags, unif_sets).
Unified ==
  \A r \in {asked[i].rule : i \in DOMAIN asked} :
    LET c == file.lines[CHOOSE l \in DOMAIN file.lines : file.lines[l].kind = "RULE"
                          /\ Cardinality({k \in 1 .. l : file.lines[k].kind = "RULE"}) = r].components[1]
        said == SelectSeq(asked, LAMBDA q : q.rule = r /\ q.yes)
        source == Meaning.env[c.name[2]]
    IN  c.kind = "name" =>
          CASE c.name[1] = "$$" -> source.entries # {} =>
                 \E e \in source.entries : \A i \in DOMAIN said : EntryMatches(said[i].reading, e)
            [] c.name[1] = "&&" ->
                 \A i \in DOMAIN said : \E p \in ToSet(source.parts) : {said[1].reading, said[i].reading} \subseteq p.extent
            [] OTHER -> TRUE
================================================================================
