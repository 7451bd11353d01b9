------------------------------ MODULE ReadingText ------------------------------
(***************************************************************************)
(* One window written in a stream format and read back, as happens between *)
(* two processes of a pipeline: the printers and the cohort parsers of the *)
(* native, Apertium, JSON lines, binary and FST formats.  What the main    *)
(* loops of the readers do with windows is in FormatReaders; here it is    *)
(* what becomes of readings, sub-readings, mapping tags, static tags and   *)
(* the text between cohorts.                                               *)
(*                                                                         *)
(* A reading is its chain of sub-readings, the head first: a piece is a    *)
(* baseform and the tags in tags_list, the mapping tag and <<< included.   *)
(* Strings, escapes, dependencies, relations and traces are left out, and  *)
(* so is the order of the readings of a cohort (cmp_number).               *)
(***************************************************************************)
EXTENDS Integers, SequencesExt

CONSTANTS MappingTags,   \* the tags with the mapping prefix
          LtrChoices,    \* the values of SUBREADINGS = LTR to be looked at
          Formats,       \* the stream formats of the pipeline
          Documents,     \* the windows that rules may leave
          MaxLegs        \* bound on how often the window is written

ASSUME TextAssumption ==
  /\ LtrChoices \subseteq BOOLEAN /\ MaxLegs \in Nat
  /\ Formats \subseteq {"cg", "apertium", "jsonl", "binary", "fst"}

End == "<<<"

VARIABLES
  ltr,      \* grammar.sub_readings_ltr
  doc,      \* the window in memory: its text and all its cohorts
  format,   \* the format of the stream last written
  stream,   \* that stream, while it waits for its reader
  wanted,   \* the document as it was when it was written
  legs,     \* how often it has been written
  pc        \* "memory" or "stream"

vars == <<ltr, doc, format, stream, wanted, legs, pc>>

-----------------------------------------------------------------------------
(* Readings and their mapping tags.                                        *)

IsMapping(t) == t \in MappingTags

Maps(piece) == SelectSeq(piece.tags, IsMapping)

Bare(piece) == [piece EXCEPT !.tags = SelectSeq(@, LAMBDA t : ~IsMapping(t))]

\* hash_plain: the head alone, without its mapping tag.
Plain(piece) == <<piece.base, ToSet(Bare(piece).tags)>>

Mapped(chain, m) == [chain EXCEPT ![1].tags = Append(Bare(chain[1]).tags, m)]

Shown(chain) == [chain |-> chain, noprint |-> FALSE]

\* split_mappings for all but the last mapping: a copy of the reading each, but
\* for a mapping some reading of the cohort with the same plain tags has.
Copies(readings, chain, maps) ==
  FoldLeft(LAMBDA acc, m :
             IF \E i \in DOMAIN acc : /\ Plain(acc[i].chain[1]) = Plain(chain[1])
                                      /\ m \in ToSet(acc[i].chain[1].tags)
             THEN acc ELSE Append(acc, Shown(Mapped(chain, m))),
           readings, SubSeq(maps, 1, Len(maps) - 1))

\* The last mapping stays on the reading itself.
Settled(chain, maps) == IF maps = <<>> THEN chain ELSE Mapped(chain, Last(maps))

\* init_empty_cohort: a cohort without readings has a magic one, not printed.
MagicReading(word) ==
  [chain |-> <<[base |-> word, tags |-> <<>>]>>, noprint |-> TRUE]

WithMagic(c) ==
  IF c.readings = <<>> THEN [c EXCEPT !.readings = <<MagicReading(c.word)>>] ELSE c

NoCohort == [word |-> "", static |-> <<>>, readings |-> <<>>, hidden |-> <<>>,
             removed |-> FALSE, text |-> <<>>]

NoDoc == [text |-> <<>>, cohorts |-> <<>>]

OnLast(x, Op(_)) == [x EXCEPT !.cohorts[Len(x.cohorts)] = Op(@)]

TextBehind(x, t) ==
  IF x.cohorts = <<>> THEN [x EXCEPT !.text = Append(@, t)]
  ELSE OnLast(x, LAMBDA c : [c EXCEPT !.text = Append(@, t)])

\* The end of a window: <<< on every reading of the last cohort that lacks it.
Ended(x) ==
  LET Marked(r) == IF End \in ToSet(r.chain[1].tags) THEN r
                   ELSE [r EXCEPT !.chain[1].tags = Append(@, End)]
  IN  IF x.cohorts = <<>> THEN x
      ELSE OnLast(x, LAMBDA c :
             [c EXCEPT !.readings = [i \in DOMAIN @ |-> Marked(@[i])]])

WithoutEnd(tags) == SelectSeq(tags, LAMBDA t : t # End)

Printable(readings) == SelectSeq(readings, LAMBDA r : ~r.noprint)

Each(Op(_), s) == FlattenSeq([i \in DOMAIN s |-> Op(s[i])])

-----------------------------------------------------------------------------
(* The native format.                                                      *)

Line(kind, depth, word, tags) ==
  [kind |-> kind, depth |-> depth, word |-> word, tags |-> tags]

TextLine(t) == Line("text", 0, t, <<>>)

Count(chain) == Len(SelectSeq(chain, LAMBDA p : Maps(p) # <<>>))

PlainChain(chain) == [i \in DOMAIN chain |-> Plain(chain[i])]

\* merge_readings: readings that differ in the mapping of their head alone
\* become the first of them, with all those mappings.
Key(chain) == <<PlainChain(chain), Count(chain)>>

\* One without mapping is dropped if the nearest reading before or behind it
\* with the same plain tags has one.
Overshadowed(readings, i) ==
  LET twins == {j \in DOMAIN readings \ {i} :
                  PlainChain(readings[j].chain) = PlainChain(readings[i].chain)}
      Nearest(j) == \A k \in twins : ~(j < k /\ k < i) /\ ~(i < k /\ k < j)
  IN  /\ Count(readings[i].chain) = 0
      /\ \E j \in twins : Nearest(j) /\ Count(readings[j].chain) > 0

Alike(readings, r) == SelectSeq(readings, LAMBDA q : Key(q.chain) = Key(r.chain))

Merged(all) ==
  LET shown == SelectSeq([i \in DOMAIN all |-> i], LAMBDA i : ~Overshadowed(all, i))
      readings == [k \in DOMAIN shown |-> all[shown[k]]]
      First(i) == \A j \in 1 .. i - 1 : Key(readings[j].chain) # Key(readings[i].chain)
      fronts == SelectSeq([i \in DOMAIN readings |-> i], First)
      Joined(r) ==
        LET maps == FoldLeft(LAMBDA acc, q :
                               acc \o SelectSeq(Maps(q.chain[1]),
                                                LAMBDA m : m \notin ToSet(acc)),
                             <<>>, Alike(readings, r))
        IN  [r EXCEPT !.chain[1].tags = Bare(r.chain[1]).tags \o maps]
  IN  [k \in DOMAIN fronts |-> Joined(readings[fronts[k]])]

\* print_reading: one line a piece, a sub-reading one tab deeper than the
\* reading it belongs to, its mapping tags last.
CgReading(r) ==
  [i \in DOMAIN r.chain |->
     Line("reading", i, r.chain[i].base, WithoutEnd(Bare(r.chain[i]).tags) \o Maps(r.chain[i]))]

\* MUTANT of CgCohort: a removed cohort takes its text along.
CgCohortWhole(c) ==
  IF c.removed THEN <<>>
  ELSE <<Line("cohort", 0, c.word, c.static)>>
         \o Each(CgReading, Printable(Merged(c.readings)))
         \o [i \in DOMAIN c.text |-> TextLine(c.text[i])]

\* print_cohort: of a removed cohort the text alone.
CgCohort(c) ==
  (IF c.removed THEN <<>>
   ELSE <<Line("cohort", 0, c.word, c.static)>>
          \o Each(CgReading, Printable(Merged(c.readings))))
  \o [i \in DOMAIN c.text |-> TextLine(c.text[i])]

CgWritten(x) ==
  [i \in DOMAIN x.text |-> TextLine(x.text[i])] \o Each(CgCohort, x.cohorts)

\* got_reading: the open readings are those less indented than the line.  With
\* none the line is a reading, else a sub-reading of the innermost one, lost if
\* that has one already; a sub-reading keeps the first of its mappings.
GotReading(x, line) ==
  LET open == SelectSeq(x.indents, LAMBDA e : e.indent < line.depth)
      piece == [base |-> line.word, tags |-> line.tags]
      maps == Maps(piece)
      sub == IF maps = <<>> THEN piece ELSE Mapped(<<piece>>, maps[1])[1]
      At(p) == Append(open, [indent |-> line.depth, place |-> p])
      chain == Last(Last(x.cohorts).readings).chain
  IN  CASE open = <<>> ->
             [OnLast(x, LAMBDA c : [c EXCEPT !.readings = Append(@, Shown(<<piece>>))])
                EXCEPT !.indents = At(1)]
        [] open # <<>> /\ Len(chain) = Last(open).place ->
             [OnLast(x, LAMBDA c :
                [c EXCEPT !.readings[Len(c.readings)].chain = Append(@, sub)])
                EXCEPT !.indents = At(Len(chain) + 1)]
        [] OTHER -> [x EXCEPT !.indents = open]

\* split_all_mappings, when the cohort is complete.
SplitAll(c) ==
  LET bare == [i \in DOMAIN c.readings |->
                 [c.readings[i] EXCEPT !.chain[1] = Bare(@)]]
      Split(acc, i) ==
        LET maps == Maps(c.readings[i].chain[1])
            chain == acc[i].chain
        IN  [k \in DOMAIN Copies(acc, chain, maps) |->
               IF k = i THEN [acc[i] EXCEPT !.chain = Settled(chain, maps)]
               ELSE Copies(acc, chain, maps)[k]]
  IN  [c EXCEPT !.readings = FoldLeft(Split, bare, [i \in DOMAIN bare |-> i])]

CgLine(x, line) ==
  CASE line.kind = "text" -> TextBehind(x, line.word)
    [] line.kind = "cohort" ->
         [x EXCEPT !.cohorts = Append(@, [NoCohort EXCEPT !.word = line.word,
                                                          !.static = line.tags]),
                   !.indents = <<>>]
    [] OTHER -> GotReading(x, line)

CgRead(lines) ==
  LET x == FoldLeft(CgLine, NoDoc @@ [indents |-> <<>>], lines)
  IN  Ended([text |-> x.text,
             cohorts |-> [i \in DOMAIN x.cohorts |-> WithMagic(SplitAll(x.cohorts[i]))]])

-----------------------------------------------------------------------------
(* Formats whose readers split the mappings of a piece as soon as they have *)
(* its tags, before it is joined to the other pieces: the copies have no    *)
(* sub-readings.                                                            *)

SplitPieces(readings, chain) ==
  LET copies == FoldLeft(LAMBDA acc, p : Copies(acc, <<p>>, Maps(p)), readings, chain)
      last == [i \in DOMAIN chain |-> Settled(<<chain[i]>>, Maps(chain[i]))[1]]
  IN  [copies |-> copies, chain |-> last]

-----------------------------------------------------------------------------
(* Apertium: ^word<static>/base<tag>+base<tag>$                            *)

Tok(kind, value) == <<kind, value>>

Reversed(chain) == IF ltr THEN Reverse(chain) ELSE chain

ApTags(tags) == [i \in DOMAIN WithoutEnd(tags) |-> Tok("tag", WithoutEnd(tags)[i])]

ApPiece(p) == <<Tok("base", p.base)>> \o ApTags(p.tags)

\* MUTANT of ApReading: the head is printed first.
ApReadingHeadFirst(r) ==
  LET Joined(p) == <<Tok("join", "")>> \o ApPiece(p)
  IN  <<Tok("slash", "")>> \o Tail(Each(Joined, Reversed(r.chain)))

\* print_reading: sub-readings before the reading they belong to.
ApReading(r) ==
  LET Joined(p) == <<Tok("join", "")>> \o ApPiece(p)
  IN  <<Tok("slash", "")>> \o Tail(Each(Joined, Reverse(Reversed(r.chain))))

\* merge_mappings: of readings that are the same, the first.
Distinct(readings) ==
  LET Signature(r) == [i \in DOMAIN r.chain |-> <<r.chain[i].base, ToSet(r.chain[i].tags)>>]
  IN  SelectSeq(readings, LAMBDA r :
        r = SelectSeq(readings, LAMBDA q : Signature(q) = Signature(r))[1])

ApCohort(c) ==
  (IF c.removed THEN <<>>
   ELSE <<Tok("word", c.word)>> \o [i \in DOMAIN c.static |-> Tok("tag", c.static[i])]
          \o Each(ApReading, Printable(Distinct(c.readings))) \o <<Tok("end", "")>>)
  \o [i \in DOMAIN c.text |-> Tok("text", c.text[i])]

ApWritten(x) ==
  [i \in DOMAIN x.text |-> Tok("text", x.text[i])] \o Each(ApCohort, x.cohorts)

\* process_reading: tags before the baseform come last, and the pieces are
\* taken from the back, so that the last one is the head.
ApPieces(toks) ==
  LET Add(acc, t) ==
        CASE t[1] = "join" -> Append(acc, <<>>)
          [] OTHER -> [acc EXCEPT ![Len(acc)] = Append(@, t)]
      parts == FoldLeft(Add, << <<>> >>, toks)
      Piece(part) ==
        LET at == CHOOSE i \in DOMAIN part : part[i][1] = "base"
            tags == SubSeq(part, at + 1, Len(part)) \o SubSeq(part, 1, at - 1)
        IN  [base |-> part[at][2], tags |-> [i \in DOMAIN tags |-> tags[i][2]]]
  IN  Reverse([i \in DOMAIN parts |-> Piece(parts[i])])

ApGot(c, toks) ==
  LET split == SplitPieces(c.readings, ApPieces(toks))
  IN  [c EXCEPT !.readings = Append(split.copies, Shown(Reversed(split.chain)))]

\* One character class at a time; x.toks is the reading begun, if any.
ApToken(x, t) ==
  LET Closed == IF x.toks = <<>> THEN x
                ELSE [OnLast(x, LAMBDA c : ApGot(c, x.toks)) EXCEPT !.toks = <<>>]
  IN  CASE t[1] = "text" -> TextBehind(x, t[2])
        [] t[1] = "word" ->
             [x EXCEPT !.cohorts = Append(@, [NoCohort EXCEPT !.word = t[2]]),
                       !.static = TRUE]
        [] t[1] = "slash" -> [Closed EXCEPT !.static = FALSE]
        [] t[1] = "end" -> OnLast([Closed EXCEPT !.static = FALSE], WithMagic)
        [] t[1] = "tag" /\ x.static ->
             OnLast(x, LAMBDA c : [c EXCEPT !.static = Append(@, t[2])])
        [] OTHER -> [x EXCEPT !.toks = Append(@, t)]

ApRead(toks) ==
  LET x == FoldLeft(ApToken, NoDoc @@ [toks |-> <<>>, static |-> FALSE], toks)
  IN  Ended([text |-> x.text, cohorts |-> x.cohorts])

-----------------------------------------------------------------------------
(* JSON lines: an object a cohort, the chain as objects in each other.     *)

JsonReading(chain) ==
  [i \in DOMAIN chain |-> [l |-> chain[i].base, ts |-> WithoutEnd(chain[i].tags)]]

NoObject == [t |-> "", w |-> "", sts |-> <<>>, z |-> <<>>, rs |-> <<>>, drs |-> <<>>]

\* print_cohort: nothing of a removed cohort, and the deleted readings as well.
JsonCohort(c) ==
  LET printed == Printable(c.readings)
      object == [NoObject EXCEPT
                   !.w = c.word, !.sts = c.static, !.z = c.text,
                   !.rs = [i \in DOMAIN printed |-> JsonReading(printed[i].chain)],
                   !.drs = [i \in DOMAIN c.hidden |-> JsonReading(c.hidden[i])]]
  IN  IF c.removed THEN <<>> ELSE <<object>>

JsonWritten(x) ==
  [i \in DOMAIN x.text |-> [NoObject EXCEPT !.t = x.text[i]]] \o Each(JsonCohort, x.cohorts)

\* parse_json_reading.
JsonChain(reading) ==
  [i \in DOMAIN reading |-> [base |-> reading[i].l, tags |-> reading[i].ts]]

JsonGot(c, reading) ==
  LET split == SplitPieces(c.readings, JsonChain(reading))
  IN  [c EXCEPT !.readings = Append(split.copies, Shown(split.chain))]

JsonGotDeleted(c, reading) ==
  LET split == SplitPieces(c.readings, JsonChain(reading))
  IN  [c EXCEPT !.readings = split.copies, !.hidden = Append(@, split.chain)]

\* parse_json_cohort.
JsonObject(x, o) ==
  LET new == [NoCohort EXCEPT !.word = o.w, !.static = o.sts, !.text = o.z]
      read == WithMagic(FoldLeft(JsonGot, new, o.rs))
  IN  IF o.t # "" THEN TextBehind(x, o.t)
      ELSE [x EXCEPT !.cohorts = Append(@, FoldLeft(JsonGotDeleted, read, o.drs))]

JsonRead(objects) == Ended(FoldLeft(JsonObject, NoDoc, objects))

-----------------------------------------------------------------------------
(* Binary: a table of the tags in use, and indexes into it everywhere.     *)

\* The text of a removed cohort goes to the nearest cohort before it that is
\* printed, or to the window.
TextMoved(x) ==
  LET Move(y, i) ==
        LET before == {j \in 1 .. i - 1 : ~y.cohorts[j].removed}
            last == CHOOSE j \in before : \A k \in before : k <= j
            left == [y EXCEPT !.cohorts[i].text = <<>>]
            text == y.cohorts[i].text
        IN  CASE ~y.cohorts[i].removed -> y
              [] y.cohorts[i].removed /\ before = {} -> [left EXCEPT !.text = @ \o text]
              [] OTHER -> [left EXCEPT !.cohorts[last].text = @ \o text]
  IN  FoldLeft(Move, x, [i \in DOMAIN x.cohorts |-> i])

\* The readings of a cohort in a row, each sub-reading marked as one.
BinReading(r) ==
  [i \in DOMAIN r.chain |-> [sub |-> i > 1, base |-> r.chain[i].base,
                            tags |-> r.chain[i].tags]]

BinTags(c) ==
  <<c.word>> \o c.static
    \o Each(LAMBDA p : <<p.base>> \o p.tags, Each(BinReading, Printable(c.readings)))

\* bin_print_single_window.
BinWritten(x) ==
  LET moved == TextMoved(x)
      shown == SelectSeq(moved.cohorts, LAMBDA c : ~c.removed)
      used == Each(BinTags, shown)
      table == FoldLeft(LAMBDA acc, t : IF t \in ToSet(acc) THEN acc ELSE Append(acc, t),
                        <<>>, used)
      Index(t) == CHOOSE i \in DOMAIN table : table[i] = t
      Indexes(ts) == [i \in DOMAIN ts |-> Index(ts[i])]
      Row(p) == <<[sub |-> p.sub, base |-> Index(p.base), tags |-> Indexes(p.tags)]>>
  IN  [table |-> table, text |-> moved.text,
       cohorts |-> [k \in DOMAIN shown |->
         [word |-> Index(shown[k].word), static |-> Indexes(shown[k].static),
          text |-> shown[k].text,
          rows |-> Each(Row, Each(BinReading, Printable(shown[k].readings)))]]]

\* read_window: a row marked as a sub-reading belongs to the row before it.
BinRead(packet) ==
  LET Tags(is) == [i \in DOMAIN is |-> packet.table[is[i]]]
      Got(c, row) ==
        LET piece == [base |-> packet.table[row.base], tags |-> Tags(row.tags)]
            split == SplitPieces(c.readings, <<piece>>)
        IN  IF row.sub /\ c.readings # <<>>
            THEN [c EXCEPT !.readings = [split.copies EXCEPT
                                           ![Len(c.readings)].chain = @ \o split.chain]]
            ELSE [c EXCEPT !.readings = Append(split.copies, Shown(split.chain))]
      Cohort(k) ==
        LET p == packet.cohorts[k]
            new == [NoCohort EXCEPT !.word = packet.table[p.word],
                                    !.static = Tags(p.static), !.text = p.text]
        IN  WithMagic(FoldLeft(Got, new, p.rows))
  IN  Ended([text |-> packet.text, cohorts |-> [k \in DOMAIN packet.cohorts |-> Cohort(k)]])

-----------------------------------------------------------------------------
(* FST: word, tab, pieces joined by #, a line for each reading.            *)

FstLine(kind, word, pieces) == [kind |-> kind, word |-> word, pieces |-> pieces]

FstText(t) == FstLine("text", t, <<>>)

\* print_reading: the head last.
FstReading(r) ==
  IF r.noprint THEN <<>>
  ELSE Reverse([i \in DOMAIN r.chain |->
                  [base |-> r.chain[i].base, tags |-> WithoutEnd(r.chain[i].tags)]])

\* print_cohort: no static tags, and +? for a cohort with nothing to print.
FstCohort(c) ==
  LET merged == Merged(c.readings)
      nothing == merged = <<>> \/ (Len(merged) = 1 /\ merged[1].noprint)
  IN  (CASE c.removed -> <<>>
         [] ~c.removed /\ nothing -> <<FstLine("none", c.word, <<>>), FstLine("blank", "", <<>>)>>
         [] OTHER -> [i \in DOMAIN merged |->
                        FstLine("analysis", c.word, FstReading(merged[i]))]
                     \o <<FstLine("blank", "", <<>>)>>)
      \o [i \in DOMAIN c.text |-> FstText(c.text[i])]

FstWritten(x) ==
  [i \in DOMAIN x.text |-> FstText(x.text[i])] \o Each(FstCohort, x.cohorts)

\* An analysis is cut at each # that a + comes behind.  What follows the last + is
\* one tag, or one baseform when there is no +, and the pieces in it are lost.
FstCut(pieces) ==
  LET tagged == {i \in DOMAIN pieces : pieces[i].tags # <<>>}
      at == IF tagged = {} THEN 1 ELSE Max(tagged)
      rest == FoldLeft(LAMBDA acc, p : acc \o "#" \o p.base, "", SubSeq(pieces, at + 1, Len(pieces)))
      kept == SubSeq(pieces, 1, at)
  IN  IF tagged = {} THEN [kept EXCEPT ![1].base = @ \o rest]
      ELSE [kept EXCEPT ![at].tags = Append(Front(@), Last(@) \o rest)]

\* An analysis: each piece becomes the reading, with the one before it as its
\* sub-reading; the mappings of all pieces are split on the last, the head.
FstGot(c, analysis) ==
  LET pieces == IF analysis = <<>> THEN <<>> ELSE FstCut(analysis)
      chain == Reverse([i \in DOMAIN pieces |-> Bare(pieces[i])])
      maps == Each(Maps, pieces)
  IN  IF pieces = <<>> THEN c
      ELSE [c EXCEPT !.readings = Append(Copies(c.readings, chain, maps),
                                         Shown(Reversed(Settled(chain, maps))))]

\* Any line but an analysis closes the cohort; only one that is still open at the
\* end of the input is given <<<.
FstRead(lines) ==
  LET Closed(x) == IF x.open THEN [OnLast(x, WithMagic) EXCEPT !.open = FALSE] ELSE x
      Got(x, line) ==
        LET y == IF x.open THEN x
                 ELSE [x EXCEPT !.cohorts = Append(@, [NoCohort EXCEPT !.word = line.word]),
                                !.open = TRUE]
        IN  CASE line.kind = "text" -> TextBehind(Closed(x), line.word)
              [] line.kind = "blank" -> Closed(x)
              [] OTHER -> OnLast(y, LAMBDA c : FstGot(c, line.pieces))
      read == FoldLeft(Got, NoDoc @@ [open |-> FALSE], lines)
      all == [text |-> read.text, cohorts |-> Closed(read).cohorts]
  IN  IF read.open THEN Ended(all) ELSE all

-----------------------------------------------------------------------------
Init ==
  /\ ltr \in LtrChoices
  /\ doc \in Documents
  /\ format = "none" /\ stream = <<>> /\ wanted = doc /\ legs = 0 /\ pc = "memory"

Written(f, x) ==
  CASE f = "cg" -> CgWritten(x)
    [] f = "apertium" -> ApWritten(x)
    [] f = "jsonl" -> JsonWritten(x)
    [] f = "binary" -> BinWritten(x)
    [] f = "fst" -> FstWritten(x)

ReadFrom(f, s) ==
  CASE f = "cg" -> CgRead(s)
    [] f = "apertium" -> ApRead(s)
    [] f = "jsonl" -> JsonRead(s)
    [] f = "binary" -> BinRead(s)
    [] f = "fst" -> FstRead(s)

\* print_single_window of a format.
PrintWindow(f) ==
  /\ pc = "memory" /\ legs < MaxLegs
  /\ format' = f /\ stream' = Written(f, doc) /\ wanted' = doc
  /\ legs' = legs + 1 /\ pc' = "stream"
  /\ UNCHANGED <<ltr, doc>>

\* The next process reads it.
ReadWindow ==
  /\ pc = "stream"
  /\ doc' = ReadFrom(format, stream) /\ pc' = "memory"
  /\ UNCHANGED <<ltr, format, stream, wanted, legs>>

Next == (\E f \in Formats : PrintWindow(f)) \/ ReadWindow

Spec == Init /\ [][Next]_vars

-----------------------------------------------------------------------------
(* Properties.                                                             *)

Visible(x) == SelectSeq(x.cohorts, LAMBDA c : ~c.removed)

ChainMeaning(chain) == [i \in DOMAIN chain |-> <<chain[i].base, ToSet(WithoutEnd(chain[i].tags))>>]

\* What a format keeps of a cohort: FST has no static tags.
Analyses(c, f) ==
  <<c.word, IF f = "fst" THEN <<>> ELSE c.static,
    {<<ChainMeaning(c.readings[i].chain), c.readings[i].noprint>> : i \in DOMAIN c.readings}>>

Rejected(c) ==
  {ChainMeaning(c.hidden[k]) : k \in DOMAIN c.hidden}

\* <<< is on all readings of the last cohort and on no others; FST streams lose it.
EndMarked(x, f) ==
  \A k \in DOMAIN x.cohorts : \A i \in DOMAIN x.cohorts[k].readings :
    End \in ToSet(x.cohorts[k].readings[i].chain[1].tags) <=> k = Len(x.cohorts) /\ f # "fst"

\* An FST stream keeps the head of a reading apart from its sub-readings only when the
\* head has tags.
Splits(c) ==
  \A i \in DOMAIN c.readings :
    LET chain == c.readings[i].chain IN Len(chain) = 1 \/ WithoutEnd(chain[1].tags) # <<>>

HaveRead == pc = "memory" /\ legs > 0

\* A window printed and read back has the same cohorts with the same readings:
\* every chain of sub-readings in its order, each reading with its own mapping
\* tag, <<< on the last cohort alone, a cohort without analyses still without.
\* JSON lines also brings back the readings that were removed.  FST streams
\* keep the order of sub-readings only without SUBREADINGS = LTR and their head
\* only with tags, and bring no <<< (the blank line after each cohort has closed the
\* last one by the end of the input).
Reread ==
  HaveRead /\ ~(format = "fst" /\ ltr) =>
    LET before == Visible(wanted)
    IN  /\ Len(doc.cohorts) = Len(before)
        /\ EndMarked(doc, format)
        /\ \A k \in DOMAIN before :
             /\ \/ Analyses(doc.cohorts[k], format) = Analyses(before[k], format)
                \/ format = "fst" /\ ~Splits(before[k])
             /\ Rejected(doc.cohorts[k])
                  = IF format = "jsonl" THEN Rejected(before[k]) ELSE {}

\* The words and the texts between them, in their order.
Flow(x, dropped) ==
  x.text \o Each(LAMBDA c : (IF c.removed THEN <<>> ELSE <<c.word>>)
                              \o (IF c.removed /\ dropped THEN <<>> ELSE c.text),
                 x.cohorts)

\* The text around the cohorts stays between the same words, that of a removed
\* cohort too, wherever the printer had to move it; only JSON lines drops that.
TextKept == HaveRead => Flow(doc, FALSE) = Flow(wanted, format = "jsonl")
=============================================================================
