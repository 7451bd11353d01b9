------------------------------ MODULE ReadingRules ------------------------------
(* The readings of the cohorts, from the reading of the input to the printing of *)
(* the result, under the rules that change them: the four lists a cohort keeps   *)
(* its readings in, the readings a rule has collected when it comes to the next  *)
(* cohort, protection, and the splitting and merging of readings over their      *)
(* mapping tags.  Which readings a set or a test matches is open, as far as the  *)
(* cache of plain signatures leaves it open.  Subreadings, regular expressions,  *)
(* unification and tracing are left out.                                         *)
EXTENDS Integers, FiniteSets, SequencesExt

CONSTANTS
  Inputs,      \* what is run: [grammar, window], a set of rules (see Rule) and for
               \* each cohort the sequence of its readings [base, tags, maps, deleted]
  Wordform,    \* the word form that every cohort is read with
  Unsafe,      \* --unsafe
  Magic,       \* allow_magic_readings
  MaxReadings, \* bound: readings in use at a time
  MaxRules     \* bound: rules run

None == "none"
Types == {"select", "remove", "iff", "protect", "unprotect", "unmap", "add", "map",
          "restore", "replace", "substitute", "append", "copy"}
\* tags, maps: the tags of the rule that are mapping tags and those that are not.
\* sub: the tags it takes away.  wordform: the word form SUBSTITUTE puts, if any.
\* special: whether its target set looks at more than the plain tags, so that the
\* plain cache is not used.
Rule == [type : Types, flags : SUBSET {"safe", "unsafe", "nomapped", "unmaplast", "delayed", "ignored"},
         tags : SUBSET STRING, maps : Seq(STRING), sub : SUBSET STRING,
         wordform : STRING, special : BOOLEAN]

ASSUME ReadingAssumption ==
  /\ \A in \in Inputs : in.grammar \subseteq Rule /\ in.window # <<>>
  /\ MaxRules \in Nat /\ MaxReadings \in Nat \ {0}
  /\ Unsafe \in BOOLEAN /\ Magic \in BOOLEAN

VARIABLES
  grammar,
  given,    \* history: what each cohort was read from
  cohort,   \* for each cohort its word form and its lists of readings
  reading,  \* for each handle the reading there, or Free
  run,      \* [rule, next, removed, selected, changed]: RRState
  astray,   \* history: the readings a rule collected in one cohort and put in
            \* the lists of another
  count,    \* rules run
  pc

vars == <<grammar, given, cohort, reading, run, astray, count, pc>>

CohortIds == DOMAIN given
Handles == 1 .. MaxReadings
Lists == {"readings", "deleted", "delayed", "ignored"}
Free == [base |-> None, tags |-> {}, mapping |-> None, mapped |-> FALSE, noprint |-> FALSE,
         immutable |-> FALSE, deleted |-> FALSE, number |-> 0]
NoRule == [type |-> None, flags |-> {}, tags |-> {}, maps |-> <<>>, sub |-> {},
           wordform |-> None, special |-> FALSE]
NoRun == [rule |-> NoRule, next |-> 0, removed |-> <<>>, selected |-> <<>>, changed |-> FALSE]

Plain(r) == <<r.base, r.tags>>
Signature(r) == <<r.base, r.tags, r.mapping>>
InUse(rd) == {h \in Handles : rd[h] # Free}
Where(hs, h) == CHOOSE i \in DOMAIN hs : hs[i] = h
Held(c, rd) == {rd[h] : h \in ToSet(c.readings)}
HasProtect == \E ru \in grammar : ru.type = "protect"

-----------------------------------------------------------------------------
(* Making readings.  x is the pair [cohort, reading] and the rest of the state. *)

NextHandle(x) == CHOOSE h \in Handles : x.reading[h] = Free /\
                   \A g \in 1 .. h - 1 : x.reading[g] # Free

\* alloc_reading(_copy) and append_reading: the record r becomes the last reading.
Appended(x, c, r) ==
  LET h == NextHandle(x)
  IN  [x EXCEPT !.reading[h] = r, !.cohort[c].readings = Append(@, h)]

NumberAtEnd(x, c) == Len(x.cohort[c].readings) * 1000 + 1000

\* split_mappings: one reading for each mapping tag.  The last one stays with the
\* reading itself; a mapping that another reading of the cohort with the same
\* plain tags has is left out.
SplitMappings(x, c, h, maps, mapped) ==
  LET all == IF x.reading[h].mapping = None THEN maps ELSE Append(maps, x.reading[h].mapping)
      bare == [x EXCEPT !.reading[h].mapping = None]
      rest == Front(all)
      One(y, m) ==
        LET me == y.x.reading[h]
        IN  IF \E r \in Held(y.x.cohort[c], y.x.reading) : Plain(r) = Plain(me) /\ r.mapping = m
            THEN y
            ELSE [x |-> Appended(y.x, c, [me EXCEPT !.mapped = mapped, !.mapping = m,
                                                    !.number = @ - y.i]),
                  i |-> y.i - 1]
      split == FoldLeft(One, [x |-> bare, i |-> Len(rest)], rest).x
  IN  [split EXCEPT !.reading[h].mapped = mapped, !.reading[h].mapping = Last(all)]

Mapped(x, c, h, maps, mapped) ==
  IF maps = <<>> THEN x ELSE SplitMappings(x, c, h, maps, mapped)

\* Reading::cmp_number, with the hash for equal numbers left out.
SortedByNumber(hs, rd) == SortSeq(hs, LAMBDA g, h : rd[g].number < rd[h].number)

\* A cohort as it is read: its readings and those marked as deleted, and when it
\* is complete split_all_mappings.  The mappings of deleted ones are forgotten.
Raw(x, c, in) ==
  LET r == [Free EXCEPT !.base = in.base, !.tags = in.tags \cup {x.cohort[c].wordform},
                        !.deleted = in.deleted, !.number = NumberAtEnd(x, c)]
      h == NextHandle(x)
  IN  IF in.deleted THEN [x EXCEPT !.reading[h] = r, !.cohort[c].deleted = Append(@, h)]
      ELSE Appended(x, c, r)

ReadCohort(x, c, input) ==
  LET raw == FoldLeft(LAMBDA y, in : Raw(y, c, in), x, input)
      shown == SelectSeq(input, LAMBDA in : ~in.deleted)
      hs == raw.cohort[c].readings
      split == FoldLeft(LAMBDA y, i : Mapped(y, c, hs[i], shown[i].maps, TRUE), raw,
                        [i \in DOMAIN hs |-> i])
  IN  [split EXCEPT !.cohort[c].readings = SortedByNumber(@, split.reading)]

\* init_empty_cohort.
EmptyCohort(x, c) ==
  IF x.cohort[c].readings # <<>> THEN x
  ELSE Appended(x, c, [Free EXCEPT !.base = IF Magic THEN "base" ELSE x.cohort[c].wordform,
                                   !.tags = {x.cohort[c].wordform}, !.noprint = TRUE,
                                   !.number = NumberAtEnd(x, c)])

Init ==
  /\ \E in \in Inputs : grammar = in.grammar /\ given = in.window
  /\   LET bare == [readings |-> <<>>, deleted |-> <<>>, delayed |-> <<>>, ignored |-> <<>>,
                    wordform |-> Wordform]
           empty == [cohort |-> [c \in CohortIds |-> bare], reading |-> [h \in Handles |-> Free]]
           read == FoldLeft(LAMBDA x, c : EmptyCohort(ReadCohort(x, c, given[c]), c), empty,
                            [c \in CohortIds |-> c])
       IN  cohort = read.cohort /\ reading = read.reading
  /\ run = NoRun /\ astray = {} /\ count = 0 /\ pc = "rules"

-----------------------------------------------------------------------------
(* What a rule does to a reading h of cohort c.  x is [cohort, reading, run].   *)

Changed(x) == [x EXCEPT !.run.changed = TRUE]
ChangedIf(x, h, was) == IF Signature(x.reading[h]) # Signature(was) THEN Changed(x) ELSE x

Unmapped(x, h) ==
  LET r == x.reading[h]
      bare == IF r.mapping = None THEN x
              ELSE [x EXCEPT !.reading[h].mapping = None, !.reading[h].noprint = FALSE]
  IN  IF r.mapping = None /\ ~r.mapped THEN x
      ELSE Changed([bare EXCEPT !.reading[h].mapped = FALSE])

AddMap(x, ru, c, h) ==
  LET was == x.reading[h]
      added == [x EXCEPT !.reading[h].noprint = FALSE, !.reading[h].tags = @ \cup ru.tags]
      split == Mapped(added, c, h, ru.maps, ru.type = "map")
  IN  ChangedIf([split EXCEPT !.reading[h].mapped = @ \/ ru.type = "map"], h, was)

Replace(x, ru, c, h) ==
  LET was == x.reading[h]
      new == [was EXCEPT !.noprint = FALSE, !.mapping = None,
                         !.tags = {x.cohort[c].wordform} \cup ru.tags \cup (@ \cap ru.sub)]
  IN  ChangedIf(Mapped([x EXCEPT !.reading[h] = new], c, h, ru.maps, TRUE), h, was)

\* A new word form becomes that of the cohort and of every reading in its lists
\* but the ignored ones.
Reworded(x, ru, c) ==
  LET old == x.cohort[c].wordform
      held == UNION {ToSet(x.cohort[c][l]) : l \in Lists \ {"ignored"}}
      new == [x EXCEPT !.cohort[c].wordform = ru.wordform,
                       !.reading = [h \in Handles |->
                          IF h \in held THEN [@[h] EXCEPT !.tags = (@ \ {old}) \cup {ru.wordform}]
                          ELSE @[h]]]
  IN  IF ru.wordform \in {None, old} THEN x ELSE new

\* The tags of the list go, and the new ones come where they were, if any was.
Substitute(x, ru, c, h) ==
  LET was == x.reading[h]
      put == ru.tags \cup ({ru.wordform} \ {None})
      new == [was EXCEPT !.noprint = FALSE, !.tags = (@ \ ru.sub) \cup put,
                         !.mapping = IF @ \in ru.sub THEN None ELSE @]
      split == Mapped([x EXCEPT !.reading[h] = new], c, h, ru.maps, TRUE)
  IN  IF (was.tags \cup {was.mapping}) \cap ru.sub = {} THEN x
      ELSE ChangedIf(Reworded(split, ru, c), h, was)

\* The readings that are not to be printed are dropped if others are left.
AppendReadings(x, ru, c) ==
  LET h == NextHandle(x)
      made == [x EXCEPT !.reading[h] = [Free EXCEPT !.base = "new",
                                                    !.tags = ru.tags \cup {x.cohort[c].wordform},
                                                    !.number = NumberAtEnd(x, c)]]
      split == Mapped(made, c, h, ru.maps, FALSE)
      full == [split EXCEPT !.cohort[c].readings = Append(@, h)]
      magic == {g \in ToSet(full.cohort[c].readings) : full.reading[g].noprint}
  IN  Changed(IF Len(full.cohort[c].readings) = 1 THEN full
              ELSE [full EXCEPT !.cohort[c].readings = SelectSeq(@, LAMBDA g : g \notin magic),
                                !.reading = [g \in Handles |-> IF g \in magic THEN Free ELSE @[g]]])

Copy(x, ru, c, h) ==
  LET made == Appended(x, c, [x.reading[h] EXCEPT
                                !.number = @ + 100, !.noprint = FALSE,
                                !.tags = (@ \ ru.sub) \cup ru.tags,
                                !.mapping = IF @ \in ru.sub THEN None ELSE @])
  IN  Changed(Mapped(made, c, NextHandle(x), ru.maps, TRUE))

\* The list DELAYED and IGNORED choose.
ListOf(ru) == IF "delayed" \in ru.flags THEN "delayed"
              ELSE IF "ignored" \in ru.flags THEN "ignored" ELSE "deleted"

\* MUTANT of Restore: the readings stay in the list they were set aside in.
RestoreTwice(x, ru, c, back) ==
  [x EXCEPT !.cohort[c].readings = @ \o SelectSeq(x.cohort[c][ListOf(ru)], LAMBDA h : h \in back),
            !.reading = [h \in Handles |-> [@[h] EXCEPT !.deleted = @ /\ h \notin back]]]

\* RESTORE of the readings `back`; it is no change to the rule loop.
Restore(x, ru, c, back) ==
  [x EXCEPT !.cohort[c].readings = @ \o SelectSeq(x.cohort[c][ListOf(ru)], LAMBDA h : h \in back),
            !.cohort[c][ListOf(ru)] = SelectSeq(@, LAMBDA h : h \notin back),
            !.reading = [h \in Handles |-> IF h \in back THEN [@[h] EXCEPT !.deleted = FALSE]
                                           ELSE @[h]]]

\* reading_cb.  `good` says that the reading matched the tests.
ReadingCb(x, ru, c, h, good) ==
  CASE ru.type = "select" \/ (ru.type = "iff" /\ good) ->
         [x EXCEPT !.run.selected = Append(@, h)]
    [] ru.type = "remove" /\ "unmaplast" \in ru.flags
       /\ Len(x.run.removed) = Len(x.cohort[c].readings) - 1 -> Unmapped(x, h)
    [] ru.type \in {"remove", "iff"} /\ ~(ru.type = "iff" /\ good)
       /\ ~("unmaplast" \in ru.flags /\ ru.type = "remove"
            /\ Len(x.run.removed) = Len(x.cohort[c].readings) - 1) ->
         [x EXCEPT !.run.removed = Append(@, h)]
    [] ru.type = "protect" -> [x EXCEPT !.reading[h].immutable = TRUE]
    [] ru.type = "unprotect" -> [x EXCEPT !.reading[h].immutable = FALSE]
    [] ru.type = "unmap" -> Unmapped(x, h)
    [] ru.type \in {"add", "map"} -> AddMap(x, ru, c, h)
    [] ru.type = "replace" -> Replace(x, ru, c, h)
    [] ru.type = "substitute" -> Substitute(x, ru, c, h)
    [] ru.type = "copy" -> Copy(x, ru, c, h)

Put(x, ru, c, hs) ==
  [x EXCEPT !.cohort[c][ListOf(ru)] = @ \o hs,
            !.reading = [h \in Handles |-> IF h \in ToSet(hs) THEN [@[h] EXCEPT !.deleted = TRUE]
                                           ELSE @[h]]]

MayEmpty(ru) == (Unsafe /\ "safe" \notin ru.flags) \/ "unsafe" \in ru.flags

\* cohort_cb of SELECT.
SelectCollected(x, ru, c) ==
  LET kept == x.run.selected
      dropped == SelectSeq(x.cohort[c].readings, LAMBDA h : h \notin ToSet(kept))
      done == [x EXCEPT !.run.selected = <<>>]
  IN  IF kept = <<>> \/ Len(kept) >= Len(x.cohort[c].readings) THEN done
      ELSE Changed([Put(done, ru, c, dropped) EXCEPT !.cohort[c].readings = kept])

\* Each of the readings, the last first, changes places with the last one left.
SwappedOut(hs, gone) ==
  FoldRight(LAMBDA h, s : IF h \notin ToSet(s) THEN s
                          ELSE Front([s EXCEPT ![Where(s, h)] = Last(s)]), gone, hs)


\* cohort_cb of REMOVE: readings it may not remove stay collected.
RemoveCollected(x, ru, c) ==
  LET gone == x.run.removed
      may == gone # <<>> /\ (Len(gone) < Len(x.cohort[c].readings) \/ MayEmpty(ru))
      rest == SwappedOut(x.cohort[c].readings, gone)
      done == IF ~may THEN x
              ELSE Changed([Put(x, ru, c, gone) EXCEPT !.cohort[c].readings = rest,
                                                       !.run.removed = <<>>])
  IN  [EmptyCohort(done, c) EXCEPT !.run.selected = <<>>]

CohortCb(x, ru, c) ==
  IF ru.type = "select" \/ (ru.type = "iff" /\ x.run.selected # <<>>) THEN SelectCollected(x, ru, c)
  ELSE IF ru.type \in {"remove", "iff"} THEN RemoveCollected(x, ru, c)
  ELSE x

-----------------------------------------------------------------------------
(* One rule on one cohort.                                                     *)

\* The skips for cohorts with one reading, and RESTORE with nothing to restore.
PassesOver(ru, c) ==
  \/ ru.type = "restore" /\ cohort[c][ListOf(ru)] = <<>>
  \/ /\ Len(cohort[c].readings) = 1
     /\ \/ ru.type = "select"
        \/ /\ ru.type \in {"remove", "iff"}
           /\ reading[cohort[c].readings[1]].noprint \/ ~MayEmpty(ru)
  \/ Len(cohort[c].readings) # 1 /\ ru.type = "unmap" /\ "safe" \in ru.flags

\* The readings the loop steps over before it looks at protection.
LeftAlone(ru, r) ==
  \/ r.mapped /\ ru.type \in {"map", "add", "replace"}
  \/ r.mapped /\ "nomapped" \in ru.flags
  \/ r.noprint /\ ~Magic

\* MUTANT of Protected: UNPROTECT alone is not enough, REMOVE looks through it too.
ProtectedNot(ru, r) == r.immutable /\ ru.type \notin {"unprotect", "remove"}
Protected(ru, r) == r.immutable /\ ru.type # "unprotect"

\* What the target and the tests may match: readings with the same plain tags
\* match alike, unless the set looks at more.
Matches(ru, hs) ==
  LET tried == {h \in ToSet(hs) : ~LeftAlone(ru, reading[h]) /\ ~Protected(ru, reading[h])}
      Alike(S) == ru.special \/
                  \A g, h \in tried : Plain(reading[g]) = Plain(reading[h]) => (g \in S <=> h \in S)
  IN  {m \in [target : SUBSET tried, good : SUBSET tried] :
         m.good \subseteq m.target /\ Alike(m.target) /\ Alike(m.good)}

\* From the matches to the readings the rule acts on.
Verdict(ru, hs, m) ==
  LET guarded == {h \in ToSet(hs) : ~LeftAlone(ru, reading[h]) /\ Protected(ru, reading[h])}
      counted == IF ru.type \in {"restore", "append", "copy"} THEN {} ELSE guarded
      switched == ru.type = "iff" /\ m.good # {}
      Before(h) == \A g \in m.good : Where(hs, h) < Where(hs, g)
      early == IF switched /\ HasProtect THEN {h \in guarded : Before(h)} ELSE {}
      kept == IF ru.type = "select" THEN guarded
              ELSE IF switched THEN {h \in guarded : ~Before(h)} ELSE {}
  IN  [active |-> Cardinality(counted) + Cardinality(m.good) + Cardinality(early),
       iff |-> guarded \cup m.target # {},
       selects |-> ru.type = "select" \/ switched,
       good |-> m.good \cup kept,
       on |-> SelectSeq(hs, LAMBDA h : \/ h \in m.good \cup kept
                                       \/ ru.type = "iff" /\ h \in m.target)]

\* No reading is good, or all of them are and nothing is to be done.
NothingToDo(ru, hs, v) ==
  \/ v.active = 0 /\ ~(ru.type = "iff" /\ v.iff)
  \/ v.active = Len(hs) /\ v.selects
  \/ v.active = Len(hs) /\ ru.type \in {"remove", "iff"} /\ ~v.selects /\ ~MayEmpty(ru)

\* Dispatch: RESTORE and APPEND end the loop over the readings.
Dispatched(x, ru, c, v, back) ==
  IF ru.type = "append" THEN IF v.on = <<>> THEN x ELSE AppendReadings(x, ru, c)
  ELSE IF ru.type = "restore" THEN IF v.on = <<>> THEN x ELSE Restore(x, ru, c, back)
  ELSE FoldLeft(LAMBDA y, h : ReadingCb(y, ru, c, h, h \in v.good), x, v.on)

StartRule ==
  /\ pc = "rules" /\ run.next = 0 /\ count < MaxRules
  /\ \E ru \in grammar : run' = [NoRun EXCEPT !.rule = ru, !.next = 1]
  /\ count' = count + 1
  /\ UNCHANGED <<grammar, given, cohort, reading, astray, pc>>

Room == Cardinality(Handles \ InUse(reading)) > 2 * Len(cohort[run.next].readings)

RunOnCohort ==
  /\ pc = "rules" /\ run.next # 0 /\ run.next <= Len(given)
  /\ ~PassesOver(run.rule, run.next) /\ Room
  /\ LET ru == run.rule
         c == run.next
         hs == cohort[c].readings
     IN  \E m \in Matches(ru, hs) :
         \E back \in IF ru.type = "restore" THEN SUBSET ToSet(cohort[c][ListOf(ru)]) ELSE {{}} :
           LET v == Verdict(ru, hs, m)
               x == [cohort |-> cohort, reading |-> reading, run |-> [run EXCEPT !.next = @ + 1]]
               y == CohortCb(Dispatched(x, ru, c, v, back), ru, c)
           IN  /\ ~NothingToDo(ru, hs, v)
               /\ cohort' = y.cohort /\ reading' = y.reading /\ run' = y.run
               /\ astray' = astray \cup (ToSet(run.removed) \cap ToSet(y.cohort[c][ListOf(ru)]))
  /\ UNCHANGED <<grammar, given, count, pc>>

\* The rule leaves the cohort as it is.
StepOver ==
  /\ pc = "rules" /\ run.next # 0 /\ run.next <= Len(given)
  /\ run' = [run EXCEPT !.next = @ + 1]
  /\ UNCHANGED <<grammar, given, cohort, reading, astray, count, pc>>

EndRule ==
  /\ pc = "rules" /\ run.next # 0 /\ run.next > Len(given)
  /\ run' = NoRun
  /\ UNCHANGED <<grammar, given, cohort, reading, astray, count, pc>>

-----------------------------------------------------------------------------
(* Printing.                                                                   *)

\* The tags of a mapping, or of several merged in one line.
Maps(r) == IF r.mapping = None THEN {} ELSE {r.mapping}

\* MUTANT of Twins: it is the mapped one of two that is marked as deleted.
TwinsMapped(hs, rd) ==
  {h \in ToSet(hs) : rd[h].mapping # None /\
     \E g \in ToSet(hs) : Plain(rd[g]) = Plain(rd[h]) /\ rd[g].mapping = None}

\* merge_readings.  A reading without mapping whose plain tags were last seen on
\* a mapped one, or the other way round, is marked as deleted; then the readings
\* that differ by their mapping alone become one, with the number of the first.
Twins(hs, rd) ==
  LET One(y, h) ==
        LET p == Plain(rd[h])
            seen == {g \in DOMAIN y.last : Plain(rd[g]) = p /\ y.last[g]}
            m == rd[h].mapping # None
            g == CHOOSE k \in seen : TRUE
            out == IF seen = {} THEN {}
                   ELSE IF rd[g].mapping # None /\ ~m THEN {h}
                   ELSE IF rd[g].mapping = None /\ m THEN {g} ELSE {}
        IN  [last |-> [k \in DOMAIN y.last |-> k = h \/ (y.last[k] /\ k \notin seen)],
             marked |-> y.marked \cup out]
  IN  FoldLeft(One, [last |-> [k \in ToSet(hs) |-> FALSE], marked |-> {}], hs).marked

Group(hs, rd, h) == SelectSeq(hs, LAMBDA g : Plain(rd[g]) = Plain(rd[h])
                                          /\ (rd[g].mapping = None) = (rd[h].mapping = None))

\* The lines printed: unignore_all, merge_mappings, the sort, and print_reading.
Printed(c, rd0) ==
  LET hs == c.readings \o c.ignored
      back == [h \in Handles |-> IF h \in ToSet(c.ignored) THEN [rd0[h] EXCEPT !.deleted = FALSE]
                                 ELSE rd0[h]]
      marked == Twins(hs, back)
      rd == [h \in Handles |-> [back[h] EXCEPT !.deleted = @ \/ h \in marked]]
      firsts == SelectSeq(hs, LAMBDA h : Group(hs, rd, h)[1] = h)
      shown == SelectSeq(SortedByNumber(firsts, rd), LAMBDA h : ~rd[h].noprint /\ ~rd[h].deleted)
  IN  [i \in DOMAIN shown |->
         [base |-> rd[shown[i]].base, tags |-> rd[shown[i]].tags,
          maps |-> UNION {Maps(rd[g]) : g \in ToSet(Group(hs, rd, shown[i]))}]]

PrintWindow ==
  /\ pc = "rules" /\ run.next = 0
  /\ pc' = "printed"
  /\ cohort' = [c \in CohortIds |-> [cohort[c] EXCEPT !.readings = @ \o cohort[c].ignored,
                                                      !.ignored = <<>>]]
  /\ reading' = [h \in Handles |->
                   IF \E c \in CohortIds : h \in ToSet(cohort[c].ignored)
                   THEN [reading[h] EXCEPT !.deleted = FALSE] ELSE reading[h]]
  /\ UNCHANGED <<grammar, given, run, astray, count>>

Finished == pc = "printed" /\ UNCHANGED vars

Next == StartRule \/ RunOnCohort \/ StepOver \/ EndRule \/ PrintWindow \/ Finished

Spec == Init /\ [][Next]_vars

-----------------------------------------------------------------------------
(* Properties.                                                                *)

\* Every reading is in one place of one list of one cohort: none is lost, shown
\* twice, or freed with two cohorts, whatever rules moved it between the lists.
\* The exception are the readings gone astray: what an IFF collected in a cohort
\* and might not remove is still collected when the rule comes to the next cohort
\* (st.removed is cleared for each rule, schedule.rs 105-109), and goes to the
\* lists of that one as well.
HeldOnce ==
  \A h \in InUse(reading) \ astray :
    Cardinality({<<c, l, i>> \in CohortIds \X Lists \X (1 .. MaxReadings) :
                   i \in DOMAIN cohort[c][l] /\ cohort[c][l][i] = h}) = 1

Printable(c, rd) == {h \in ToSet(c.readings) : ~rd[h].noprint}


\* A protected reading stays where it is and as it is, whatever rules come, until
\* it is unprotected.  Three kinds of rule go past the protection: an IFF that
\* selects drops protected readings in front of all it keeps (single_rule.rs
\* 665-684), APPEND frees one that is not to be printed (dispatch.rs 1014-1026),
\* and SUBSTITUTE gives every reading of the cohort its new word form (1301-1316).
DroppedInFront(c, h) ==
  /\ run.rule.type = "iff"
  /\ \A g \in ToSet(cohort'[c].readings) :
       Where(cohort[c].readings, h) < Where(cohort[c].readings, g)
Crowded(c, h) == run.rule.type = "append" /\ reading[h].noprint

ButWord(c, r) == [Signature(r) EXCEPT ![2] = @ \ {c.wordform}]
Same(c, h) ==
  IF run.rule.type = "substitute"
  THEN ButWord(cohort'[c], reading'[h]) = ButWord(cohort[c], reading[h])
  ELSE Signature(reading'[h]) = Signature(reading[h])

ProtectedKept ==
  [][\A c \in CohortIds : \A h \in ToSet(cohort[c].readings) :
       reading[h].immutable =>
         \/ /\ h \in ToSet(cohort'[c].readings) /\ Same(c, h)
            /\ reading'[h].immutable \/ run.rule.type = "unprotect"
         \/ h \notin ToSet(cohort'[c].readings) /\ (DroppedInFront(c, h) \/ Crowded(c, h))]_vars

\* Merging what differs by its mapping tag alone drops nothing: in a cohort where
\* no reading has gone astray every reading to be printed is on a line with its
\* mapping, but for one without mapping beside one that has the same tags and a
\* mapping; and no line comes twice.
MergesWithoutLoss ==
  \A c \in CohortIds :
    LET lines == Printed(cohort[c], reading)
        Line(r) == {i \in DOMAIN lines : <<lines[i].base, lines[i].tags>> = Plain(r)
                                         /\ Maps(r) \subseteq lines[i].maps}
    IN  ToSet(cohort[c].readings \o cohort[c].ignored) \cap astray = {} =>
          /\ \A r \in {reading[h] : h \in Printable(cohort[c], reading)} : Line(r) # {}
          /\ \A i, j \in DOMAIN lines : lines[i] = lines[j] => i = j
=============================================================================
