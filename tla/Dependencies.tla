----------------------------- MODULE Dependencies -----------------------------
(* The tree and the named relations between cohorts: what the input writes as *)
(* raw ids, resolved to global numbers once enough windows are read, then     *)
(* rewired by the rules while windows come and go, and cohorts with them.     *)
(* Of a cohort only its links are kept; the tests that choose the target of a *)
(* rule, and what it attaches to, are a choice over the cohorts they reach.   *)
EXTENDS Integers, FiniteSets, SequencesExt

CONSTANTS
  Cases,         \* [doc, rules, dep_delimit]: the cohorts as read (see Entry), the
                 \*   dependency and relation rules of the grammar, [type, flags],
                 \*   and --dep-delimit, 0 for off
  NumWindows,    \* --num-windows
  HardLimit,     \* --hard-limit
  BlockLoops,    \* whether loops are refused
  BlockCrossing, \* --dep-no-crossing
  MaxClimb,      \* the limit on climbing the tree: 1000 in the code
  MaxRules       \* bound: rules that match in one window

\* self and parent: the ids of #self->parent, self = 0 for none.  sentence: what
\* the ids are about.  closes: it matches the delimiters.  id and rel: ID:id and
\* R:name:rel, 0 for none.
Entry == [self : Nat, parent : Nat, sentence : Nat, closes : BOOLEAN, id : Nat, rel : Nat]

None == -1   \* no parent

ASSUME DependencyAssumption ==
  /\ \A c \in Cases : c.doc \in Seq(Entry) /\ c.dep_delimit \in Nat
  /\ {NumWindows, MaxRules} \subseteq Nat
  /\ {MaxClimb, HardLimit} \subseteq Nat \ {0}
  /\ {BlockLoops, BlockCrossing} \subseteq BOOLEAN

VARIABLES
  grammar,
  doc, pos,      \* the input and how much of it is read
  coh,           \* the cohorts by global number, those of >>> included
  wins,          \* the windows: [cohorts, all]
  stream,        \* [previous, current, next], windows by their place in wins
  pending,       \* the cohort read last, in no window yet; 0 for none
  live,          \* cohort_map, but for its entry 0,
  zero,          \*   which is the >>> this names
  dep_window,
  relation_map,  \* raw id to global number
  highest,       \* dep_highest_seen
  left,          \* [rules: that may still match in the window, eof: input_eof]
  touched,       \* history: the cohorts whose parent a rule has set
  meant,         \* history: [put: relations put by rules, tags: the R: tags of all that
                 \*   ever were, lost: relations taken back, dropped: raw ids taken
                 \*   back unresolved, reset: the cohorts SETRELATION has cleared]
  pc

vars == <<grammar, doc, pos, coh, wins, stream, pending, live, zero, dep_window, relation_map,
          highest, left, touched, meant, pc>>

MinOf(S) == CHOOSE n \in S : \A m \in S : n <= m
Cohort(w) == [at |-> 0, win |-> w, self |-> 0, parent |-> None, children |-> {}, done |-> FALSE,
              state |-> "shown", rel |-> {}, relin |-> {}, named |-> FALSE]
Shown(w) == wins[w].cohorts
Opening(w) == wins[w].cohorts[1]
Numbers == DOMAIN coh
Ascending(S) == SetToSortSeq(S, <)

-----------------------------------------------------------------------------
(* Climbing the tree.                                                      *)

\* The cohorts from c upwards, until one has no parent, or one not in the map.
Climb(co, c) ==
  LET Up[n \in 0 .. MaxClimb, x \in DOMAIN co] ==
        IF n = 0 \/ co[x].parent \in {0, None} \/ co[x].parent \notin live THEN {}
        ELSE {co[x].parent} \union Up[n - 1, co[x].parent]
  IN  Up[MaxClimb, c]

IsChildOf(co, child, parent) ==
  \/ child = parent \/ co[child].parent = parent
  \/ \E a \in Climb(co, child) : co[a].parent = parent

WouldLoop(co, parent, child) ==
  \/ parent = child
  \/ /\ co[child].parent # parent /\ co[parent].parent # parent
     /\ \/ co[parent].parent = child
        \/ \E a \in Climb(co, parent) : co[a].parent = child

\* The grandparent decides, whatever lies between the two.
WouldCross(co, parent, child) ==
  LET mn == IF parent < child THEN parent ELSE child
      mx == IF parent < child THEN child ELSE parent
      at == IF co[parent].parent = 0 THEN zero ELSE co[parent].parent
      up == IF at \in live THEN co[at].parent ELSE None
  IN  mn + 1 < mx /\ up # None /\ (up < mn \/ up > mx)

Refused(co, parent, child, flags) ==
  \/ "allowloop" \notin flags /\ BlockLoops /\ WouldLoop(co, parent, child)
  \/ "allowcross" \notin flags /\ BlockCrossing /\ WouldCross(co, parent, child)

\* MUTANT of Attach: the old parent lets go of the child after the new one has it.
AttachSwapped(co, parent, child, flags) ==
  LET marked == [co EXCEPT ![parent].self = parent, ![child].self = child]
      was == marked[child].parent
      given == [marked EXCEPT ![child].parent = parent, ![parent].children = @ \union {child},
                              ![parent].done = TRUE, ![child].done = TRUE]
  IN  IF Refused(marked, parent, child, flags) THEN marked
      ELSE IF was \in live THEN [given EXCEPT ![was].children = @ \ {child}] ELSE given

\* MUTANT of Attach: the loop is looked for from the child.
AttachLoops(co, parent, child, flags) ==
  LET marked == [co EXCEPT ![parent].self = parent, ![child].self = child]
      was == marked[child].parent
      left_ == IF was \in live THEN [marked EXCEPT ![was].children = @ \ {child}] ELSE marked
  IN  IF Refused(marked, child, parent, flags) THEN marked
      ELSE [left_ EXCEPT ![child].parent = parent, ![parent].children = @ \union {child},
                         ![parent].done = TRUE, ![child].done = TRUE]

\* attach_parent_child: even when refused, both take part in the tree from now on.
Attach(co, parent, child, flags) ==
  LET marked == [co EXCEPT ![parent].self = parent, ![child].self = child]
      was == IF marked[child].parent = None THEN child
             ELSE IF marked[child].parent = 0 THEN zero ELSE marked[child].parent
      parted == IF was \in live THEN [marked EXCEPT ![was].children = @ \ {child}] ELSE marked
  IN  IF Refused(marked, parent, child, flags) THEN marked
      ELSE [parted EXCEPT ![child].parent = parent, ![parent].children = @ \union {child},
                          ![parent].done = TRUE, ![child].done = TRUE]

-----------------------------------------------------------------------------
(* Resolving what the input wrote.                                         *)

\* From the place p on, the cohorts to resolve together: up to one at or past max,
\* or whose raw id one before it has.  Returns the place after them.
BatchEnd(co, dw, p, max) ==
  LET Skips(c) == co[c].done \/ co[c].self = 0
      End[q \in p .. Len(dw) + 1, seen \in SUBSET {co[c].self : c \in ToSet(dw)}] ==
        IF q > Len(dw) THEN q
        ELSE IF Skips(dw[q]) THEN End[q + 1, seen]
        ELSE IF (max # 0 /\ dw[q] >= max) \/ co[dw[q]].self \in seen THEN q
        ELSE End[q + 1, seen \union {co[dw[q]].self}]
  IN  End[p, {}]

\* MUTANT of ResolveBatch: a parent is looked for by its raw id in all that is read.
ResolveAnywhere(co, batch) ==
  LET ids == [r \in {co[c].self : c \in DOMAIN co} \ {0} |->
                MinOf({c \in DOMAIN co : co[c].self = r})] @@ (0 :> 0)
      Known(c) == co[c].parent # None /\ co[c].parent \in DOMAIN ids
  IN  [c \in DOMAIN co |->
         IF c \notin batch THEN co[c]
         ELSE IF Known(c) THEN [co[c] EXCEPT !.self = c, !.parent = ids[@], !.done = TRUE]
         ELSE [co[c] EXCEPT !.self = c, !.parent = None]]

\* One batch: every raw id becomes the number of its cohort, 0 stays 0; a parent
\* whose id none of them has is forgotten, and its child is not done.
ResolveBatch(co, batch) ==
  LET ids == [r \in {co[c].self : c \in batch} |-> CHOOSE c \in batch : co[c].self = r] @@ (0 :> 0)
      Known(c) == co[c].parent # None /\ co[c].parent \in DOMAIN ids
  IN  [c \in DOMAIN co |->
         IF c \notin batch THEN co[c]
         ELSE IF Known(c) THEN [co[c] EXCEPT !.self = c, !.parent = ids[@], !.done = TRUE]
         ELSE [co[c] EXCEPT !.self = c, !.parent = None]]

\* reflow_dependency_window(max) on the tree co, with the entry 0 of the map at z:
\* the children are told to the parents, those of 0 to >>> of their own window.
Reflow(co, z, dep, max, alive) ==
  LET dw == Ascending(dep)
      Told(co1, batch) ==
        [d \in DOMAIN co1 |->
           [co1[d] EXCEPT !.children = @ \union
              {c \in batch : /\ co1[c].done
                             /\ \/ co1[c].parent = d /\ d \in alive
                                \/ co1[c].parent = 0 /\ d = Opening(co1[c].win)}]]
      Batch(co1, p, q) == {dw[i] : i \in {j \in p .. q - 1 : ~co1[dw[j]].done /\ co1[dw[j]].self # 0}}
      Go[n \in 0 .. Len(dw)] ==   \* after n batches: [co, z, p]
        IF n = 0 THEN [co |-> co, z |-> z, p |-> 1]
        ELSE LET was == Go[n - 1]
                 q == BatchEnd(was.co, dw, was.p, max)
                 batch == Batch(was.co, was.p, q)
                 res == ResolveBatch(was.co, batch)
                 last == {c \in batch : res[c].done}
             IN  [co |-> Told(res, batch), p |-> q,
                  z |-> IF last = {} THEN was.z
                        ELSE Opening(res[CHOOSE c \in last : \A e \in last : e <= c].win)]
  IN  Go[Len(dw)]

\* With --dep-delimit, what the newest window already holds is for the next time.
NewestFirst(eof) ==
  LET next == stream.next
  IN  IF grammar.dep_delimit # 0 /\ ~eof /\ next # <<>> /\ Len(Shown(Last(next))) > 1
      THEN Shown(Last(next))[2] ELSE 0

\* reflow_relation_window: the ids known by now become the numbers of their cohorts,
\* but in the newest window, when it has more than >>>.
ReflowRelations(co, eof) ==
  LET newest == Last(stream.next)
      max == IF ~eof /\ stream.next # <<>> /\ Len(Shown(newest)) > 1 THEN Opening(newest) ELSE 0
      known == DOMAIN relation_map
  IN  [c \in DOMAIN co |->
         IF co[c].state # "shown" \/ (max # 0 /\ c >= max) THEN co[c]
         ELSE [co[c] EXCEPT !.rel = @ \union {relation_map[r] : r \in co[c].relin \intersect known},
                            !.named = @ \/ co[c].relin \intersect known # {},
                            !.relin = @ \ known]]

-----------------------------------------------------------------------------
(* Reading.                                                                *)

\* append_cohort, of c to the window w.
Appended(ws, w, c) == [ws EXCEPT ![w].cohorts = Append(@, c), ![w].all = Append(@, c)]

\* alloc_append_single_window and init_empty_single_window: >>> is cohort n.
Opened(ws, n) == Append(ws, [cohorts |-> <<n>>, all |-> <<n>>])

ReadWordform ==
  /\ pc = "read" /\ pos < Len(doc)
  /\ LET w == Len(wins)
         closing == /\ pending # 0
                    /\ \/ Len(Shown(w)) >= HardLimit
                       \/ grammar.dep_delimit = 0 /\ doc[coh[pending].at].closes
         opens == w = 0 \/ closing
         n == Len(coh) + 1
         ws == IF pending = 0 THEN wins ELSE Appended(wins, w, pending)
     IN  /\ wins' = IF opens THEN Opened(ws, n) ELSE ws
         /\ coh' = LET known == IF pending = 0 THEN coh
                                ELSE [coh EXCEPT ![pending].win = w, ![pending].state = "shown"]
                   IN  IF opens THEN Append(known, Cohort(w + 1)) ELSE known
         /\ live' = live \union ({pending} \ {0}) \union (IF opens THEN {n} ELSE {})
         /\ dep_window' = dep_window \union ({pending} \ {0}) \union (IF opens THEN {n} ELSE {})
         /\ zero' = IF opens THEN n ELSE zero
         /\ stream' = IF opens THEN [stream EXCEPT !.next = Append(@, w + 1)] ELSE stream
         /\ highest' = IF pending # 0 /\ coh[pending].self # 0 THEN coh[pending].self ELSE highest
  /\ pending' = 0 /\ pc' = "line"
  /\ UNCHANGED <<grammar, doc, pos, relation_map, left, touched, meant>>

NewCohort ==
  /\ pc = "line" /\ Len(stream.next) <= NumWindows + 1
  /\ coh' = Append(coh, [Cohort(0) EXCEPT !.at = pos + 1, !.state = "pending"])
  /\ pos' = pos + 1 /\ pending' = Len(coh) + 1 /\ pc' = "reading"
  /\ UNCHANGED <<grammar, doc, wins, stream, live, zero, dep_window, relation_map, highest, left,
                 touched, meant>>

\* The reading: its tags, then whether they start another window.
OutOfSentence(self) ==
  grammar.dep_delimit # 0 /\ highest # 0 /\ (self <= highest \/ self - highest > grammar.dep_delimit)

ReadReading ==
  /\ pc = "reading"
  /\ LET e == doc[pos]
         read == [coh EXCEPT ![pending].self = e.self,
                             ![pending].parent = IF e.self = 0 \/ e.self = e.parent THEN None
                                                 ELSE e.parent,
                             ![pending].relin = {e.rel} \ {0}]
         done == Reflow(read, zero, dep_window, pending, live)
         n == Len(coh) + 1
     IN  /\ relation_map' = IF e.id = 0 THEN relation_map ELSE relation_map @@ (e.id :> pending)
         /\ IF OutOfSentence(e.self)
            THEN /\ coh' = Append(done.co, Cohort(Len(wins) + 1))
                 /\ wins' = Opened(wins, n)
                 /\ stream' = [stream EXCEPT !.next = Append(@, Len(wins) + 1)]
                 /\ live' = live \union {n} /\ zero' = n
                 /\ dep_window' = {n} /\ highest' = 0
            ELSE /\ coh' = read
                 /\ UNCHANGED <<wins, stream, live, zero, dep_window, highest>>
  /\ pc' = "read"
  /\ UNCHANGED <<grammar, doc, pos, pending, left, touched, meant>>

EndInput ==
  /\ pc = "read" /\ pos = Len(doc)
  /\ LET w == Len(wins)
     IN  IF pending = 0 THEN UNCHANGED <<coh, wins, live, dep_window, highest>>
         ELSE /\ wins' = Appended(wins, w, pending)
              /\ coh' = [coh EXCEPT ![pending].win = w, ![pending].state = "shown"]
              /\ live' = live \union {pending}
              /\ dep_window' = dep_window \union {pending}
              /\ highest' = IF coh[pending].self # 0 THEN coh[pending].self ELSE highest
  /\ pending' = 0 /\ pc' = "eof"
  /\ UNCHANGED <<grammar, doc, pos, stream, zero, relation_map, left, touched, meant>>

-----------------------------------------------------------------------------
(* Running the window next in turn.                                        *)

\* free_swindow of the windows in gone: their cohorts leave the maps (at stays, for
\* the properties).
Freed(co, gone) ==
  LET cs == UNION {ToSet(wins[w].all) : w \in gone}
  IN  [c \in DOMAIN co |-> IF c \in cs THEN [Cohort(0) EXCEPT !.at = co[c].at, !.state = "freed"]
                          ELSE co[c]]

\* MUTANT of KeptIds: the ids of a window that is gone stay known.
KeptIdsAll(gone) == relation_map

KeptIds(gone) ==
  LET lasts == {Last(Shown(w)) : w \in {v \in gone : Len(Shown(v)) > 1}}
  IN  [r \in {i \in DOMAIN relation_map : \A l \in lasts : relation_map[i] > l} |-> relation_map[r]]

\* shuffle_windows_down, the reflows at the start of the run, and the freeing of
\* the windows there is no room for at the start of its first pass.
RunWindow ==
  /\ \/ pc = "line" /\ Len(stream.next) > NumWindows + 1
     \/ pc = "eof" /\ stream.next # <<>>
  /\ LET eof == pc = "eof"
         before == IF stream.current = 0 THEN stream.previous
                   ELSE Append(stream.previous, stream.current)
         cut == IF Len(before) > NumWindows THEN Len(before) - NumWindows ELSE 0
         gone == ToSet(SubSeq(before, 1, cut))
         down == [previous |-> SubSeq(before, cut + 1, Len(before)),
                  current |-> Head(stream.next), next |-> Tail(stream.next)]
         dep == UNION {ToSet(wins[w].all) : w \in gone}
         done == Reflow(coh, zero, dep_window, NewestFirst(eof), live)
     IN  /\ stream' = down
         /\ coh' = Freed(ReflowRelations(done.co, eof), gone)
         /\ zero' = done.z
         /\ live' = live \ dep
         /\ dep_window' = IF ~eof /\ Len(Shown(Last(stream.next))) > 1
                          THEN ToSet(Shown(Last(stream.next))) ELSE {}
         /\ relation_map' = KeptIds(gone)
         /\ left' = [rules |-> MaxRules, eof |-> eof]
  /\ pc' = "rules"
  /\ UNCHANGED <<grammar, doc, pos, wins, pending, highest, touched, meant>>

-----------------------------------------------------------------------------
(* The rules.                                                              *)

Current == stream.current
Targets == ToSet(Tail(Shown(Current)))
\* What the tests of a rule reach: the window, and one to either side.
Reach == ToSet(Shown(Current))
         \union (IF stream.previous = <<>> THEN {} ELSE ToSet(Shown(Last(stream.previous))))
         \union (IF stream.next = <<>> THEN {} ELSE ToSet(Shown(Head(stream.next))))

Fires(type) ==
  /\ pc = "rules" /\ left.rules > 0 /\ \E ru \in grammar.rules : ru.type = type
  /\ left' = [left EXCEPT !.rules = @ - 1]

Rewires == UNCHANGED <<grammar, doc, pos, stream, pending, relation_map, highest, meant, pc>>

SetParent ==
  /\ Fires("setparent")
  /\ \E ru \in grammar.rules, t \in Targets, a \in Reach :
       /\ ru.type = "setparent"
       /\ coh' = Attach(coh, a, t, ru.flags)
       /\ touched' = touched \union {t}
  /\ UNCHANGED <<wins, live, zero, dep_window>> /\ Rewires

\* Its grammars choose no >>> for a child.
SetChild ==
  /\ Fires("setchild")
  /\ \E ru \in grammar.rules, t \in Targets, a \in Reach :
       /\ ru.type = "setchild" /\ a # Opening(coh[a].win)
       /\ coh' = Attach(coh, t, a, ru.flags)
       /\ touched' = touched \union {a}
  /\ UNCHANGED <<wins, live, zero, dep_window>> /\ Rewires

RemParent ==
  /\ Fires("remparent")
  /\ \E t \in Targets :
       /\ coh' = [coh EXCEPT ![t].parent = None]
       /\ touched' = touched \union {t}
  /\ UNCHANGED <<wins, live, zero, dep_window>> /\ Rewires

\* rr_switchparent, where the tests of the rule have found a parent other than >>>:
\* the target goes between its parent and its grandparent, and takes the siblings.
SwitchParent ==
  /\ Fires("switchparent")
  /\ \E t \in Targets :
       /\ coh[t].parent \in live \ {Opening(w) : w \in {coh[c].win : c \in live}}
       /\ LET parent == coh[t].parent
              grand == IF coh[parent].parent = 0 THEN zero ELSE coh[parent].parent
          IN  \E siblings \in {<<>>, SelectSeq(Shown(Current), LAMBDA c : coh[c].parent = parent)} :
                LET loose == {t, parent} \union ToSet(siblings)
                    bare == [c \in DOMAIN coh |-> IF c \in loose THEN [coh[c] EXCEPT !.parent = None]
                                                  ELSE coh[c]]
                    up == IF grand \in live THEN Attach(bare, grand, t, {}) ELSE bare
                    under(co, c) == Attach(co, t, c, {})
                IN  /\ coh' = FoldLeft(under, under(up, parent), siblings)
                    /\ touched' = touched \union loose
  /\ UNCHANGED <<wins, live, zero, dep_window>> /\ Rewires

\* rr_rem_cohort: its children, the last first, go to its parent.
Forwarded(co, t) ==
  LET to == IF co[t].parent \in {None, 0} THEN zero ELSE co[t].parent
      next(co1, ch) == IF to \in live /\ ch \in live
                       THEN Attach(co1, to, ch, {"allowloop", "allowcross"}) ELSE co1
  IN  FoldLeft(next, co, Reverse(Ascending(co[t].children)))

RemCohort ==
  /\ Fires("remcohort")
  /\ \E t \in Targets :
       LET co == Forwarded(coh, t)
       IN  /\ coh' = [c \in DOMAIN co |->
                        IF c = t THEN [co[c] EXCEPT !.children = {}, !.state = "removed"]
                        ELSE IF c \in live THEN [co[c] EXCEPT !.children = @ \ {co[t].self}]
                        ELSE co[c]]
           /\ wins' = [wins EXCEPT ![Current].cohorts = SelectSeq(@, LAMBDA c : c # t)]
           /\ live' = live \ {t}
           /\ touched' = touched \union coh[t].children
  /\ UNCHANGED <<zero, dep_window>> /\ Rewires

\* rr_collect_subtree: the head, the children of it that match, and what is below
\* those.
Subtree(t, with) ==
  LET near == IF with THEN {c \in Reach : c \in ToSet(Shown(Current)) /\ coh[c].parent = t} ELSE {}
  IN  {t} \union near \union
      {c \in ToSet(Shown(Current)) : \E h \in near \ {t} : IsChildOf(coh, c, h)}

\* REMCOHORT IGNORED, and then another look at what is still to be resolved.
RemIgnored ==
  /\ Fires("remignored")
  /\ \E t \in Targets, with \in BOOLEAN :
       LET gone == Subtree(t, with)
           done == Reflow([c \in DOMAIN coh |-> IF c \in gone THEN [coh[c] EXCEPT !.state = "ignored"]
                                                ELSE coh[c]],
                          zero, dep_window, NewestFirst(left.eof), live \ gone)
       IN  /\ coh' = done.co /\ zero' = done.z /\ dep_window' = {}
           /\ wins' = [wins EXCEPT ![Current].cohorts = SelectSeq(@, LAMBDA c : c \notin gone)]
           /\ live' = live \ gone
  /\ UNCHANGED touched /\ Rewires

\* The R: tag a rule adds to the readings is read like one of the input: its number
\* is a raw id from then on.  REMRELATION takes back a raw id as well as a number.
Relate ==
  /\ pc = "rules" /\ left.rules > 0 /\ left' = [left EXCEPT !.rules = @ - 1]
  /\ \E ru \in grammar.rules, t \in Targets, a \in Reach :
       \/ /\ ru.type = "addrelation"
          /\ coh' = [coh EXCEPT ![t].rel = @ \union {a}, ![t].relin = @ \union {a}, ![t].named = TRUE]
          /\ meant' = [meant EXCEPT !.put = @ \union {<<t, a>>}, !.tags = @ \union {<<t, a>>},
                                    !.lost = @ \ {<<t, a>>}]
       \/ /\ ru.type = "setrelation"
          /\ coh' = [coh EXCEPT ![t].rel = {a}, ![t].relin = {a}, ![t].named = TRUE]
          /\ meant' = [meant EXCEPT !.put = {p \in @ : p[1] # t} \union {<<t, a>>},
                                    !.tags = @ \union {<<t, a>>}, !.lost = @ \ {<<t, a>>},
                                    !.reset = @ \union {t}]
       \/ /\ ru.type = "remrelation" /\ coh[t].named
          /\ coh' = [coh EXCEPT ![t].rel = @ \ {a}, ![t].relin = @ \ {a}]
          /\ meant' = [meant EXCEPT !.put = @ \ {<<t, a>>},
                                    !.lost = @ \union ({<<t, a>>} \intersect {<<t, b>> : b \in coh[t].rel}),
                                    !.dropped = @ \union ({<<t, a>>} \intersect
                                                          {<<t, b>> : b \in coh[t].relin})]
  /\ UNCHANGED <<grammar, doc, pos, wins, stream, pending, live, zero, dep_window, relation_map, highest,
                 touched, pc>>

\* The end of the run: what was ignored is back in its place.
EndWindow ==
  /\ pc = "rules"
  /\ LET back == {c \in ToSet(wins[Current].all) : coh[c].state = "ignored"}
         shown == [c \in DOMAIN coh |-> IF c \in back THEN [coh[c] EXCEPT !.state = "shown"] ELSE coh[c]]
         done == Reflow(shown, zero, dep_window, NewestFirst(left.eof), live \union back)
     IN  IF back = {} THEN UNCHANGED <<coh, wins, live, zero, dep_window>>
         ELSE /\ coh' = done.co /\ zero' = done.z /\ dep_window' = {}
              /\ live' = live \union back
              /\ wins' = [wins EXCEPT ![Current].cohorts =
                            SelectSeq(wins[Current].all, LAMBDA c : shown[c].state = "shown")]
  /\ pc' = IF left.eof THEN "eof" ELSE "line"
  /\ UNCHANGED <<grammar, doc, pos, stream, pending, relation_map, highest, left, touched, meant>>

Finished == pc = "eof" /\ stream.next = <<>> /\ UNCHANGED vars

Init ==
  /\ \E c \in Cases : /\ doc = c.doc
                     /\ grammar = [rules |-> c.rules, dep_delimit |-> c.dep_delimit]
  /\ pos = 0 /\ coh = <<>> /\ wins = <<>>
  /\ stream = [previous |-> <<>>, current |-> 0, next |-> <<>>]
  /\ pending = 0 /\ live = {} /\ zero = 0 /\ dep_window = {} /\ relation_map = <<>>
  /\ highest = 0 /\ left = [rules |-> 0, eof |-> FALSE]
  /\ touched = {} /\ meant = [put |-> {}, tags |-> {}, lost |-> {}, dropped |-> {}, reset |-> {}] /\ pc = "read"

Next ==
  \/ ReadWordform \/ NewCohort \/ ReadReading \/ EndInput \/ RunWindow
  \/ SetParent \/ SetChild \/ RemParent \/ SwitchParent \/ RemCohort \/ RemIgnored
  \/ Relate \/ EndWindow \/ Finished

Spec == Init /\ [][Next]_vars

-----------------------------------------------------------------------------
(* Properties.                                                             *)

\* The cohorts that a dependency or an id of the input is about.
Named(c) == {d \in Numbers : /\ coh[d].at # 0 /\ coh[c].at # 0
                             /\ doc[coh[d].at].sentence = doc[coh[c].at].sentence
                             /\ doc[coh[d].at].self = doc[coh[c].at].parent}
HasRun == (ToSet(stream.previous) \union {stream.current}) \ {0}

\* The cohorts of the map whose links are global numbers.
Tied == {c \in live : coh[c].done}

\* A cohort whose window has come to its rules has the parent the input gave it in
\* its sentence, if the parent is still there and no rule has set another
\* (reflow_dependency_window over dep_window, and the windows that come and go).
ResolvedAsWritten ==
  \A c \in Numbers :
    (/\ coh[c].state = "shown" /\ coh[c].win \in HasRun /\ coh[c].at # 0 /\ c \notin touched
     /\ doc[coh[c].at].self # 0 /\ doc[coh[c].at].parent # doc[coh[c].at].self)
    => IF doc[coh[c].at].parent = 0 THEN coh[c].parent = 0
       ELSE \A d \in Named(c) : coh[d].state \in {"shown", "ignored"} => coh[c].parent = d

\* Nobody is above himself, when loops are refused (would_parent_child_loop before
\* every attachment, but for those REMCOHORT makes).
NoLoops ==
  \A c \in Tied : coh[c].parent \in live => ~ \E a \in Climb(coh, c) : coh[a].parent = c \/ a = c

\* A parent in the map has every child that names it in its list: REMCOHORT goes by
\* the list to find whom to forward.  And it forwards them: no cohort is left under
\* one that is removed, unless nobody above that one is in the map any more.
ChildrenKnown ==
  \A c \in Tied :
    /\ coh[c].parent \in live => c \in coh[coh[c].parent].children
    /\ coh[c].parent \in Numbers =>
         LET p == coh[coh[c].parent]
         IN  p.state = "removed" => p.parent \in Numbers \ live

\* The relations of a cohort that has run are those the input gave it, as far as
\* their ends have run, or are read if their ids are used once, and those the rules gave it (reflow_relation_window), and
\* no others -- but that the number a rule writes into an R: tag is read as an id of
\* the input (add_tag_to_reading).  So the cohort with that ID: comes to be related as
\* well, and a relation of the input is lost when REMRELATION takes back a number
\* that is also its id, still unresolved.
UsedOnce(r) == Cardinality({i \in DOMAIN doc : doc[i].id = r}) = 1
Given(c) ==
  LET r == doc[coh[c].at].rel
  IN  IF coh[c].at = 0 \/ c \in meant.reset \/ r = 0 \/ <<c, r>> \in meant.dropped THEN {}
      ELSE {d \in live : /\ coh[d].at # 0 /\ doc[coh[d].at].id = r /\ <<c, d>> \notin meant.lost
                         /\ coh[d].win \in HasRun \/ (pc = "rules" /\ UsedOnce(r))}
ReadFromInput(c, d) ==
  /\ c \notin meant.reset /\ <<c, d>> \notin meant.lost
  /\ coh[c].at # 0 /\ doc[coh[d].at].id = doc[coh[c].at].rel
ReadFromRule(c, d) == <<c, doc[coh[d].at].id>> \in meant.tags
RelationsMeant ==
  \A c \in live : coh[c].win \in HasRun =>
    LET put == {p[2] : p \in {q \in meant.put : q[1] = c}}
    IN  /\ Given(c) \union put \subseteq coh[c].rel
        /\ \A d \in coh[c].rel \ put :
             coh[d].at # 0 /\ (ReadFromInput(c, d) \/ ReadFromRule(c, d))
===============================================================================
