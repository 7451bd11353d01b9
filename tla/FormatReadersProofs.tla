------------------------- MODULE FormatReadersProofs -------------------------
(* Proofs about FormatReaders, for every value of its constants: whatever a  *)
(* reader does with a line, a unit or a packet, what was written, what the   *)
(* windows hold and what is pending are the input in the order it has to     *)
(* come out.                                                                 *)
EXTENDS FormatReaders, ReaderWindowsProofs

-----------------------------------------------------------------------------
(* Where the text of a line belongs, and what the reader holds.              *)

LEMMA CohortOfIs ==
  ASSUME NEW n \in Nat, NEW kinds \in Kinds, NEW c, c = CohortOf(n, kinds)
  PROVE  c \in CohortType /\ c.id = n /\ Says(c) = <<n>> /\ c.ids = <<n>> /\ c.text = <<>>
<1>1. <<n>> \in Text
  BY DEF Text
<1> DEFINE t == <<n>>
<1>2. c = [NoCohort EXCEPT !.id = n, !.ids = t, !.kinds = kinds]
  BY DEF CohortOf
<1>3. kinds \in SUBSET {"soft", "hard"} /\ t \in Text
  BY <1>1 DEF Kinds
<1> HIDE DEF t
<1>4. c \in CohortType /\ c.id = n /\ c.ids = t /\ c.text = NoCohort.text
  <2> DEFINE o == NoCohort
  <2>1. o \in CohortType /\ n \in Int
    BY NoCohortIs
  <2> HIDE DEF o
  <2>2. c = [o EXCEPT !.id = n, !.ids = t, !.kinds = kinds]
    BY <1>2 DEF o
  <2>3. c \in CohortType /\ c.id = n /\ c.ids = t /\ c.text = o.text
    BY <1>3, <2>1, <2>2 DEF CohortType
  <2> QED
    BY <2>3 DEF o
<1>5. Says(c) = t
  BY <1>3, <1>4, NoCohortIs, TextConcat DEF Says
<1> QED
  BY <1>4, <1>5, NoCohortIs DEF t

\* Where the text of a further line belongs.
Tracked(r) ==
  IF r.lCoh = 0
  THEN r.lSw = NoWin /\ Buffered(r) = <<>> /\ r.cCoh = NoCohort
  ELSE r.lCoh = r.cCoh.id \/ (r.cCoh = NoCohort /\ Anchored(r, r.lCoh))

\* What the reader has taken in, except for the blanks.
Told(r) == Written(r) \o Says(r.cCoh)

Bound(r, top) == IF r.cCoh.id = 0 THEN top ELSE r.cCoh.id - 1

Core(r, top) ==
  /\ Sound(r, Bound(r, top))
  /\ r.cCoh.id \in 0 .. top
  /\ r.cCoh.id = 0 => r.cCoh = NoCohort

Pending(r) ==
  /\ format \notin {"matxin", "binary"} => Tracked(r)
  /\ format \in {"plaintext", "jsonl", "apertium", "binary"} => r.cCoh = NoCohort
  /\ r.cSw = NoWin => r.cCoh = NoCohort
  /\ format \notin {"matxin", "apertium"} => r.blank = <<>>
  /\ format = "matxin" /\ r.cCoh.id = 0 => r.win = <<>> /\ r.lSw = NoWin
  /\ format = "matxin" /\ r.cCoh.id # 0 => r.blank = <<>>
  /\ format = "binary" => r.cSw = NoWin
  /\ format = "fst" => r.cCoh.text = <<>>

Inv ==
  /\ format \in FormatNames /\ fed \in Text /\ read \in Nat
  /\ InputInOrder
  /\ phase = "reading" => Core(d, read) /\ Pending(d) /\ Told(d) \o d.blank = fed

-----------------------------------------------------------------------------
(* Text that is no cohort.                                                   *)

\* The text goes after the last cohort that says something.
TextGoes(r, s, b, t, id) ==
  /\ Sound(s, b) /\ Written(s) = Written(r) \o t
  /\ SameLocals(r, s) /\ SameLists(r, s) /\ Anchored(s, id)

LEMMA TextAfterHolds ==
  ASSUME NEW r, NEW b, Sound(r, b), NEW t \in Text, NEW id, r.cCoh.id # id,
         NEW w, Anchor(r, w, id), NEW s, s = TextAfter(r, id, t)
  PROVE  TextGoes(r, s, b, t, id)
<1> DEFINE k == Len(r.win[w].cohorts)
           x == r.win[w]
           c == x.cohorts[k]
           e == [c EXCEPT !.text = c.text \o t]
<1>1. /\ r \in DocumentType /\ InTurn(r) /\ Len(r.win) \in Nat /\ Printed(r) \in Nat
      /\ Unflushed(r) /\ Filling(r)
  BY SoundFacts DEF Sound
<1>2. /\ w \in Printed(r) + 1 .. Len(r.win) /\ Len(r.win) <= w + 1
      /\ Unique(r, w, id) /\ Silent(r, w)
  BY DEF Anchor
<1>3. w \in 1 .. Len(r.win) /\ w \in Nat
  BY <1>1, <1>2
<1>4. /\ x \in WindowType /\ x.cohorts \in Seq(CohortType) /\ Headed(x, w, b)
      /\ k \in Nat /\ k >= 1 /\ x.flush = <<>>
  BY <1>2, <1>3, SoundFacts, <1>1 DEF Unflushed
<1>5. k # 0 /\ k \in 1 .. Len(x.cohorts)
  BY <1>4
<1>6. s = WithCohort(r, w, k, e)
  <2>1. TextAfter(r, id, t) = WithCohort(r, w, k, Longer(r.win[w].cohorts[k], t))
    <3> DEFINE j == Len(r.win[w].cohorts)
    <3>1. j = Len(r.win[w].cohorts) /\ j # 0
      BY <1>5
    <3> HIDE DEF j
    <3>2. r.cCoh.id # id
      OBVIOUS
    <3>3. /\ TextAfter(r, id, t)
               = WithCohort(r, w, j, Longer(r.win[w].cohorts[j], t))
          /\ j \in 1 .. Len(r.win[w].cohorts) /\ w \in 1 .. Len(r.win)
      BY ONLY <1>1, <1>2, <3>1, <3>2, TextAfterIs
    <3> QED
      BY <3>1, <3>3
  <2> QED
    BY <2>1 DEF Longer
<1>7. c \in CohortType
  BY <1>4, <1>5, ElementOfSeq
<1> HIDE DEF c
<1>8. e \in CohortType /\ e.id = c.id /\ e.kinds = c.kinds /\ Says(e) = Says(c) \o t
  <2>1. c.text \in Text /\ c.ids \in Text
    BY <1>7 DEF CohortType
  <2>2. c.text \o t \in Text
    BY <2>1, TextConcat
  <2>3. /\ e \in CohortType /\ e.id = c.id /\ e.ids = c.ids /\ e.text = c.text \o t
        /\ e.kinds = c.kinds
    BY <1>7, <2>2 DEF CohortType
  <2> HIDE DEF e
  <2>4. c.ids \o (c.text \o t) = (c.ids \o c.text) \o t
    BY <2>1, TextThree
  <2> QED
    BY <2>3, <2>4 DEF Says
<1> HIDE DEF e
<1>9. ReplacedIn(r, s, w, k, e)
  <2> HIDE DEF k, x
  <2>1. k \in 1 .. Len(r.win[w].cohorts)
    BY <1>5 DEF x
  <2> QED
    BY ONLY <1>1, <1>3, <1>6, <1>8, <2>1, CohortReplaced
<1> HIDE DEF x
<1>10. /\ s \in DocumentType /\ SameLists(r, s) /\ s.out = r.out /\ SameLocals(r, s)
       /\ \A v \in 1 .. Len(r.win) : v # w => s.win[v] = r.win[v]
       /\ s.win[w].text = x.text /\ s.win[w].flush = <<>>
       /\ s.win[w] \in WindowType /\ s.win[w].cohorts \in Seq(CohortType)
       /\ Len(s.win[w].cohorts) = k /\ s.win[w].cohorts[k] = e
       /\ \A j \in 1 .. k : j # k => s.win[w].cohorts[j] = x.cohorts[j]
  BY <1>4, <1>9 DEF ReplacedIn, x
<1>11. InTurn(s) /\ Printed(s) = Printed(r) /\ Documents(r, s) /\ Len(s.win) = Len(r.win)
  BY <1>1, <1>10, ListsSame DEF Documents, SameLists
<1>12. k = Len(x.cohorts) /\ c = x.cohorts[k]
  BY DEF c, x
<1> HIDE DEF k
<1>13. Items(s.win[w]) = Items(x) \o t
  <2> DEFINE n == k - 1
  <2>1. n \in Nat /\ n + 1 = k /\ \A j \in 1 .. n : j \in 1 .. k /\ j # k
    BY <1>4
  <2> HIDE DEF n
  <2>2. \A j \in 1 .. n : Says(s.win[w].cohorts[j]) = Says(x.cohorts[j])
    BY <1>10, <2>1
  <2>3. Says(s.win[w].cohorts[n + 1]) = Says(x.cohorts[n + 1]) \o t
    BY <1>8, <1>10, <1>12, <2>1
  <2>4. Len(x.cohorts) = n + 1 /\ Len(s.win[w].cohorts) = n + 1
    BY <1>10, <1>12, <2>1
  <2>5. x.cohorts \in Seq(CohortType) /\ s.win[w].cohorts \in Seq(CohortType) /\ n \in Nat
    BY <1>4, <1>10, <2>1
  <2>6. Said(s.win[w].cohorts) = Said(x.cohorts) \o t
    BY ONLY <2>2, <2>3, <2>4, <2>5, SaidLast, t \in Text
  <2> QED
    BY <1>4, <1>10, <2>6, ItemsMore
<1>14. \A v \in 1 .. Len(r.win) :
         /\ Len(s.win[v].cohorts) = Len(r.win[v].cohorts) /\ s.win[v].flush = r.win[v].flush
         /\ \A j \in 1 .. Len(r.win[v].cohorts) :
              /\ s.win[v].cohorts[j].id = r.win[v].cohorts[j].id
              /\ s.win[v].cohorts[j].kinds = r.win[v].cohorts[j].kinds
  BY <1>4, <1>8, <1>10, <1>12 DEF x
<1>15. Written(s) = Written(r) \o t
  <2>1. ASSUME NEW v \in Printed(r) + 1 .. w - 1
        PROVE  Items(s.win[v]) = Items(r.win[v])
    BY <1>1, <1>3, <1>10
  <2>2. ASSUME NEW v \in w + 1 .. Len(r.win)
        PROVE  Items(r.win[v]) = <<>> /\ Items(s.win[v]) = <<>>
    <3>1. v \in 1 .. Len(r.win) /\ v # w
      BY <1>3
    <3> QED
      BY <1>2, <1>10, <3>1 DEF Silent
  <2>3. Items(s.win[w]) = Items(r.win[w]) \o t
    BY <1>13 DEF x
  <2> QED
    BY <1>2, <1>10, <1>11, <2>1, <2>2, <2>3, WrittenMore
<1>16. Sound(s, b)
  <2>1. ASSUME NEW v \in 1 .. Len(r.win)
        PROVE  Headed(s.win[v], v, b)
    <3>1. CASE v # w
      BY <1>10, <3>1, SoundFacts
    <3>2. CASE v = w
      <4>1. s.win[w].cohorts # <<>>
        BY <1>4, <1>10, EmptySeq
      <4>2. 1 \in 1 .. k /\ \A j \in 2 .. k : j \in 1 .. k
        BY <1>4
      <4>3. s.win[w].cohorts[1].id = -w /\ s.win[w].cohorts[1].kinds = {}
        BY <1>4, <1>12, <1>14, <1>3, <4>2 DEF Headed, x
      <4>4. \A j \in 2 .. k : s.win[w].cohorts[j].id \in 1 .. b
        BY <1>4, <1>12, <1>14, <1>3, <4>2 DEF Headed, x
      <4> QED
        BY <1>10, <3>2, <4>1, <4>3, <4>4 DEF Headed
    <3> QED
      BY <3>1, <3>2
  <2>2. Windows(s, b)
    BY <1>11, <2>1 DEF Windows
  <2>3. Unflushed(s)
    <3>1. \A v \in Printed(r) + 1 .. Len(r.win) : v \in 1 .. Len(r.win)
      BY <1>1
    <3> QED
      BY <1>1, <1>11, <1>14, <3>1 DEF Unflushed
  <2>4. Filling(s)
    BY <1>1, <1>10 DEF Filling, SameLocals, SameLists
  <2> QED
    BY <1>10, <1>11, <2>2, <2>3, <2>4 DEF Sound
<1>17. Anchor(s, w, id)
  <2>1. \A v \in Printed(r) + 1 .. Len(r.win) : v \in 1 .. Len(r.win)
    BY <1>1
  <2>2. Unique(s, w, id)
    <3>1. Len(r.win[w].cohorts) = k /\ Len(s.win[w].cohorts) = k
      BY <1>10, <1>12 DEF x
    <3>2. k \in 1 .. Len(r.win[w].cohorts) /\ s.win[w].cohorts[k].id = id
      BY <1>2, <1>3, <1>5, <1>14, <1>12, <3>1 DEF Unique, x
    <3>3. ASSUME NEW v \in Printed(s) + 1 .. Len(s.win),
                 NEW j \in 1 .. Len(s.win[v].cohorts), s.win[v].cohorts[j].id = id
          PROVE  v = w /\ j = k
      <4>1. v \in Printed(r) + 1 .. Len(r.win) /\ v \in 1 .. Len(r.win)
        BY <1>11, <2>1
      <4>2. j \in 1 .. Len(r.win[v].cohorts) /\ r.win[v].cohorts[j].id = id
        BY <1>14, <3>3, <4>1
      <4> QED
        BY <1>2, <3>1, <4>1, <4>2 DEF Unique
    <3> QED
      BY <3>1, <3>2, <3>3 DEF Unique
  <2>3. \A v \in w + 1 .. Len(r.win) : v \in 1 .. Len(r.win) /\ v # w
    BY <1>3
  <2>4. Silent(s, w)
    BY <1>2, <1>10, <1>11, <2>3 DEF Silent
  <2> QED
    BY <1>2, <1>11, <2>2, <2>4 DEF Anchor
<1> QED
  BY <1>10, <1>15, <1>16, <1>17 DEF TextGoes, Anchored

\* Text appended to the pending cohort.
LengthensPending(r, s, b, t) ==
  /\ Sound(s, b) /\ Told(s) = Told(r) \o t /\ s.cCoh.id = r.cCoh.id
  /\ SameLists(r, s) /\ SameBody(r, s)
  /\ s.cSw = r.cSw /\ s.lSw = r.lSw /\ s.lCoh = r.lCoh /\ s.blank = r.blank

LEMMA PendingTextHolds ==
  ASSUME NEW r, NEW b, Sound(r, b), NEW t \in Text,
         NEW s, s = [r EXCEPT !.cCoh.text = r.cCoh.text \o t]
  PROVE  LengthensPending(r, s, b, t)
<1>x1. /\ r \in DocumentType /\ Written(r) \in Text /\ r.cCoh \in CohortType
       /\ r.lSw \in 0 .. Len(r.win)
  BY SoundFacts
<1>x2. Says(r.cCoh) \in Text
  BY <1>x1, SaysText
<1> DEFINE c == [r.cCoh EXCEPT !.text = r.cCoh.text \o t]
<1>1. s = [r EXCEPT !.cCoh = c]
  OBVIOUS
<1>2. c \in CohortType /\ c.id = r.cCoh.id /\ Says(c) = Says(r.cCoh) \o t
  <2>1. r.cCoh.text \in Text /\ r.cCoh.ids \in Text
    BY <1>x1 DEF CohortType
  <2>2. r.cCoh.text \o t \in Text
    BY <2>1, TextConcat
  <2>3. c \in CohortType /\ c.id = r.cCoh.id /\ c.ids = r.cCoh.ids
        /\ c.text = r.cCoh.text \o t
    BY <1>x1, <2>2 DEF CohortType
  <2> HIDE DEF c
  <2>4. r.cCoh.ids \o (r.cCoh.text \o t) = (r.cCoh.ids \o r.cCoh.text) \o t
    BY <2>1, TextThree
  <2> QED
    BY <2>3, <2>4 DEF Says
<1> HIDE DEF c
<1>3. s \in DocumentType /\ s.cCoh = c
  BY <1>x1, <1>1, <1>2 DEF DocumentType
<1>4. /\ s.win = r.win /\ s.prev = r.prev /\ s.cur = r.cur /\ s.next = r.next
      /\ s.cSw = r.cSw /\ s.lSw = r.lSw /\ s.lCoh = r.lCoh
      /\ s.blank = r.blank /\ s.out = r.out
  BY <1>x1, <1>1 DEF DocumentType
<1>5. SameLists(r, s) /\ SameBody(r, s)
  BY <1>4 DEF SameLists, SameBody
<1>6. Sound(s, b) /\ Written(s) = Written(r)
  BY <1>x1, <1>3, <1>4, <1>5, SoundLocals
<1>7. Told(s) = Told(r) \o t
  <2>1. Written(r) \o (Says(r.cCoh) \o t) = (Written(r) \o Says(r.cCoh)) \o t
    <3> DEFINE u == Written(r)
               v == Says(r.cCoh)
    <3>1. u \in Text /\ v \in Text
      BY <1>x1, <1>x2
    <3> HIDE DEF u, v
    <3>2. u \o (v \o t) = (u \o v) \o t
      BY ONLY <3>1, t \in Text, TextThree
    <3> QED
      BY <3>2 DEF u, v
  <2> QED
    BY <1>2, <1>3, <1>6, <2>1 DEF Told
<1> QED
  BY <1>2, <1>3, <1>4, <1>5, <1>6, <1>7 DEF LengthensPending


\* What a reader has kept track of survives a line of text.
Places(r, s, b, t) ==
  /\ Sound(s, b) /\ Tracked(s) /\ Told(s) = Told(r) \o t
  /\ s.cCoh.id = r.cCoh.id /\ (r.cCoh = NoCohort => s.cCoh = NoCohort)
  /\ s.cSw = r.cSw /\ s.lSw = r.lSw /\ s.lCoh = r.lCoh /\ s.blank = r.blank
  /\ SameLists(r, s)

LEMMA PlacedHolds ==
  ASSUME NEW r, NEW b, Sound(r, b), Tracked(r), NEW t \in Text,
         NEW s, s = PlacedText(r, t)
  PROVE  Places(r, s, b, t)
<1>1. /\ r \in DocumentType /\ InTurn(r) /\ Len(r.win) \in Nat /\ Printed(r) \in Nat
      /\ Written(r) \in Text /\ r.out \in Text /\ r.cCoh \in CohortType
      /\ r.lSw \in 0 .. Len(r.win)
  BY SoundFacts
<1>2. Says(r.cCoh) \in Text
  BY <1>1, SaysText
<1>3. CASE r.lCoh = 0
  <2>1. r.lSw = NoWin /\ Buffered(r) = <<>> /\ r.cCoh = NoCohort
    BY <1>3 DEF Tracked
  <2>2. s = [r EXCEPT !.out = r.out \o t]
    BY <1>3, <2>1 DEF PlacedText
  <2>3. r.out \o t \in Text
    BY <1>1, TextConcat
  <2>4. s \in DocumentType
    BY <1>1, <2>2, <2>3 DEF DocumentType
  <2>5. /\ s.win = r.win /\ s.prev = r.prev /\ s.cur = r.cur /\ s.next = r.next
        /\ s.cSw = r.cSw /\ s.lSw = r.lSw /\ s.cCoh = r.cCoh /\ s.lCoh = r.lCoh
        /\ s.blank = r.blank /\ s.out = r.out \o t
    BY <1>1, <2>2 DEF DocumentType
  <2>6. SameLists(r, s)
    BY <2>5 DEF SameLists
  <2>7. InTurn(s) /\ Printed(s) = Printed(r)
    BY <1>1, <2>6, ListsSame
  <2>8. Held(r) = <<>> /\ Held(s) = <<>>
    <3>1. Len(Buffered(r)) = 0
      BY <2>1
    <3>2. Printed(r) = Len(r.win)
      BY <1>1, <3>1, BufferedHolds
    <3> QED
      BY <1>1, <2>5, <2>7, <3>2, FlatEmpty DEF Held, ItemsAll
  <2>9. Written(r) = r.out /\ Written(s) = r.out \o t
    BY <1>1, <2>3, <2>5, <2>8, TextConcat DEF Written
  <2>10. Sound(s, b)
    BY <2>4, <2>5, <2>7 DEF Sound, Windows, Unflushed, Filling
  <2>11. Told(s) = Told(r) \o t
    BY <1>1, <2>1, <2>3, <2>5, <2>9, NoCohortIs, TextConcat DEF Told
  <2>12. Buffered(s) = Buffered(r)
    BY <2>5 DEF Buffered
  <2>13. Tracked(s)
    BY <1>3, <2>1, <2>5, <2>12 DEF Tracked
  <2> QED
    BY <2>5, <2>6, <2>10, <2>11, <2>13 DEF Places
<1>4. CASE r.lCoh # 0 /\ r.lCoh = r.cCoh.id
  <2>1. s = [r EXCEPT !.cCoh.text = r.cCoh.text \o t]
    BY <1>4 DEF PlacedText, TextAfter
  <2>2. LengthensPending(r, s, b, t)
    BY <2>1, PendingTextHolds
  <2>3. /\ Sound(s, b) /\ Told(s) = Told(r) \o t /\ s.cCoh.id = r.cCoh.id
        /\ SameLists(r, s) /\ s.cSw = r.cSw /\ s.lSw = r.lSw /\ s.lCoh = r.lCoh
        /\ s.blank = r.blank
    BY <2>2 DEF LengthensPending
  <2>4. Tracked(s) /\ r.cCoh # NoCohort
    BY <1>4, <2>3, NoCohortIs DEF Tracked
  <2> QED
    BY <2>3, <2>4 DEF Places
<1>5. CASE r.lCoh # 0 /\ r.lCoh # r.cCoh.id
  <2>1. r.cCoh = NoCohort /\ Anchored(r, r.lCoh)
    BY <1>5 DEF Tracked
  <2>2. PICK w : Anchor(r, w, r.lCoh)
    BY <2>1 DEF Anchored
  <2>3. s = TextAfter(r, r.lCoh, t)
    BY <1>5 DEF PlacedText
  <2>4. TextGoes(r, s, b, t, r.lCoh)
    <3> DEFINE id == r.lCoh
    <3>1. r.cCoh.id # id /\ Anchor(r, w, id) /\ s = TextAfter(r, id, t)
      BY <1>5, <2>2, <2>3
    <3> HIDE DEF id
    <3>2. TextGoes(r, s, b, t, id)
      BY <3>1, TextAfterHolds
    <3> QED
      BY <3>2 DEF id
  <2>5. /\ Sound(s, b) /\ Written(s) = Written(r) \o t /\ SameLists(r, s)
        /\ Anchored(s, r.lCoh) /\ s.cSw = r.cSw /\ s.lSw = r.lSw
        /\ s.cCoh = r.cCoh /\ s.lCoh = r.lCoh /\ s.blank = r.blank
    BY <2>4 DEF TextGoes, SameLocals
  <2>6. Written(r) \o t \in Text
    BY <1>1, TextConcat
  <2>7. Told(s) = Told(r) \o t
    BY <1>1, <2>1, <2>5, <2>6, NoCohortIs, TextConcat DEF Told
  <2>8. Tracked(s)
    BY <1>5, <2>1, <2>5 DEF Tracked
  <2> QED
    BY <2>5, <2>7, <2>8 DEF Places
<1> QED
  BY <1>3, <1>4, <1>5

-----------------------------------------------------------------------------
(* A flush: the command is kept with the last window, everything is run and  *)
(* written.                                                                  *)

LEMMA AlikeShaped ==
  ASSUME NEW r, NEW s, Alike(r, s), NEW b, Windows(r, b)
  PROVE  Windows(s, b)
<1>1. /\ r \in DocumentType /\ s \in DocumentType /\ Len(s.win) = Len(r.win)
      /\ \A w \in 1 .. Len(r.win) : SameWindow(r.win[w], s.win[w])
  BY DEF Alike, Documents
<1>2. \A w \in 1 .. Len(r.win) : r.win[w] \in WindowType /\ s.win[w] \in WindowType
  BY <1>1, DocumentFields
<1>3. \A w \in 1 .. Len(r.win) :
        r.win[w].cohorts \in Seq(CohortType) /\ s.win[w].cohorts \in Seq(CohortType)
  BY <1>2 DEF WindowType
<1>4. ASSUME NEW w \in 1 .. Len(r.win)
      PROVE  Headed(s.win[w], w, b)
  <2>1. Headed(r.win[w], w, b)
    BY DEF Windows
  <2> QED
    BY <1>1, <1>3, <2>1, SameWindowShape
<1> QED
  BY <1>1, <1>4 DEF Windows

\* The last window that is held.
LEMMA BackIs ==
  ASSUME NEW r \in DocumentType, InTurn(r)
  PROVE  /\ Len(r.win) \in Nat /\ Printed(r) \in Nat /\ Printed(r) <= Len(r.win)
         /\ Buffered(r) = <<>> => Back(r) = NoWin /\ Printed(r) = Len(r.win)
         /\ Buffered(r) # <<>> =>
              /\ Back(r) = Len(r.win) /\ Back(r) # NoWin /\ Len(r.win) \in 1 .. Len(r.win)
              /\ Len(r.win) \in Printed(r) + 1 .. Len(r.win)
<1> DEFINE p == Printed(r)
           q == Queued(r)
           n == Len(r.win)
<1>1. /\ p \in Nat /\ q \in Nat /\ n = p + q /\ Len(Buffered(r)) = q
      /\ Buffered(r) \in Seq(Nat) /\ \A i \in 1 .. q : Buffered(r)[i] = p + i
  BY BufferedHolds
<1>2. ASSUME Buffered(r) # <<>>
      PROVE  Back(r) = p + q /\ q # 0
  <2>1. q # 0
    BY <1>1, <1>2, EmptySeq
  <2>2. Back(r) = Buffered(r)[q]
    BY <1>1, <1>2 DEF Back, Last
  <2> HIDE DEF p, q
  <2>3. q \in 1 .. q
    BY <1>1, <2>1
  <2> QED
    BY <1>1, <2>1, <2>2, <2>3
<1>3. ASSUME Buffered(r) = <<>>
      PROVE  Back(r) = NoWin /\ q = 0
  BY <1>1, <1>3 DEF Back
<1> HIDE DEF p, q, n
<1>4. n \in Nat /\ p <= n /\ (q = 0 => p = n)
  BY <1>1
<1>5. q # 0 => n \in 1 .. n /\ n \in p + 1 .. n /\ n # 0
  BY <1>1
<1> QED
  BY <1>1, <1>2, <1>3, <1>4, <1>5 DEF p, n, NoWin

Flagged(r, n) ==
  WithWindow(r, Len(r.win), [r.win[Len(r.win)] EXCEPT !.flush = <<n>>])

LEMMA MarkedIs ==
  ASSUME NEW r \in DocumentType, InTurn(r), NEW n
  PROVE  /\ Buffered(r) = <<>> => Marked(r, n) = r
         /\ Buffered(r) # <<>> => Marked(r, n) = Flagged(r, n)
<1>1. CASE Buffered(r) = <<>>
  BY <1>1, BackIs DEF Marked
<1>2. CASE Buffered(r) # <<>>
  <2>1. Back(r) = Len(r.win) /\ Back(r) # NoWin
    BY <1>2, BackIs
  <2>2. Marked(r, n) = [r EXCEPT !.win[Len(r.win)].flush = <<n>>]
    BY <2>1 DEF Marked
  <2> QED
    BY <1>2, <2>2 DEF Flagged, WithWindow
<1> QED
  BY <1>1, <1>2

Marks(r, s, b, n) ==
  /\ s \in DocumentType /\ InTurn(s) /\ SameLists(r, s) /\ SameLocals(r, s)
  /\ s.out = r.out /\ Windows(s, b) /\ Printed(s) = Printed(r)
  /\ \A w \in 1 .. Len(r.win) : s.win[w].cohorts = r.win[w].cohorts
  /\ Buffered(s) = Buffered(r) /\ Written(s) \in Text
  /\ Buffered(r) = <<>> => Written(s) = Written(r)
  /\ Buffered(r) # <<>> => Written(s) = Written(r) \o <<n>>

LEMMA MarkedHolds ==
  ASSUME NEW r, NEW b, Sound(r, b), NEW n \in Nat, NEW s, s = Marked(r, n)
  PROVE  Marks(r, s, b, n)
<1>1. r \in DocumentType /\ InTurn(r) /\ Windows(r, b) /\ Written(r) \in Text
  BY SoundFacts DEF Sound
<1>2. CASE Buffered(r) = <<>>
  <2>1. s = r
    BY <1>1, <1>2, MarkedIs
  <2> QED
    BY <1>1, <1>2, <2>1 DEF Marks, SameLists, SameLocals
<1>3. CASE Buffered(r) # <<>>
  <2> DEFINE l == Len(r.win)
             y == r.win[l]
             x == [y EXCEPT !.flush = <<n>>]
  <2>1. /\ l \in 1 .. l /\ l \in Printed(r) + 1 .. l /\ l \in Nat /\ Printed(r) \in Nat
        /\ s = WithWindow(r, l, x)
    BY <1>1, <1>3, BackIs, MarkedIs DEF Flagged
  <2>2. y \in WindowType /\ y.flush = <<>>
    BY <1>1, <2>1, SoundFacts DEF Sound, Unflushed
  <2> HIDE DEF y
  <2>3. <<n>> \in Text
    BY DEF Text
  <2>4. x \in WindowType /\ x.cohorts = y.cohorts /\ x.text = y.text /\ x.flush = <<n>>
    BY <2>2, <2>3 DEF WindowType
  <2> HIDE DEF x
  <2>5. /\ s \in DocumentType /\ SameLists(r, s) /\ s.out = r.out
        /\ s.win[l] = x /\ \A v \in 1 .. Len(r.win) : v # l => s.win[v] = r.win[v]
        /\ s.cSw = r.cSw /\ s.lSw = r.lSw /\ s.cCoh = r.cCoh /\ s.lCoh = r.lCoh
        /\ s.blank = r.blank
    BY <1>1, <2>1, <2>4, WindowReplaced
  <2>6. InTurn(s) /\ Printed(s) = Printed(r) /\ Documents(r, s)
    BY <1>1, <2>5, ListsSame DEF Documents
  <2>7. \A w \in 1 .. Len(r.win) : s.win[w].cohorts = r.win[w].cohorts
    BY <2>4, <2>5 DEF y
  <2>8. Windows(s, b)
    <3>1. ASSUME NEW w \in 1 .. Len(r.win)
          PROVE  Headed(s.win[w], w, b)
      <4>1. Headed(r.win[w], w, b) /\ s.win[w].cohorts = r.win[w].cohorts
        BY <1>1, <2>7 DEF Windows
      <4> QED
        BY <4>1 DEF Headed
    <3> QED
      BY <2>5, <3>1 DEF Windows, SameLists
  <2>9. Buffered(s) = Buffered(r)
    BY <2>5 DEF Buffered, SameLists
  <2>10. Items(x) = Items(y) \o <<n>>
    <3>1. y.text \o Said(y.cohorts) \in Text
      BY <2>2, ItemsText, TextConcat
    <3>2. Items(y) = y.text \o Said(y.cohorts)
      BY <2>2, <3>1, TextConcat DEF Items
    <3> QED
      BY <2>4, <3>2 DEF Items
  <2>11. Written(s) = Written(r) \o <<n>>
    <3>1. Items(s.win[l]) = Items(r.win[l]) \o <<n>>
      BY <2>5, <2>10 DEF y
    <3>2. \A v \in Printed(r) + 1 .. l - 1 : v \in 1 .. Len(r.win) /\ v # l
      BY <2>1
    <3>3. \A v \in Printed(r) + 1 .. l - 1 : Items(s.win[v]) = Items(r.win[v])
      BY <2>5, <3>2
    <3>4. \A v \in l + 1 .. Len(r.win) : Items(r.win[v]) = <<>> /\ Items(s.win[v]) = <<>>
      BY <2>1
    <3> QED
      BY <2>1, <2>3, <2>5, <2>6, <3>1, <3>3, <3>4, WrittenMore
  <2>12. Written(s) \in Text
    BY <2>5, <2>6, HeldText
  <2> QED
    BY <1>3, <2>5, <2>6, <2>7, <2>8, <2>9, <2>11, <2>12 DEF Marks, SameLocals
<1> QED
  BY <1>2, <1>3

\* Everything of p is written by f.
Emptied(p, f, b) ==
  /\ f \in DocumentType /\ InTurn(f) /\ Windows(f, b) /\ Buffered(f) = <<>>
  /\ Printed(f) = Len(f.win) /\ Written(f) = Written(p) /\ Held(f) = <<>>
  /\ f.out = Written(p) /\ SameLocals(p, f) /\ Len(f.win) = Len(p.win)

LEMMA EmptiedHolds ==
  ASSUME NEW p \in DocumentType, InTurn(p), NEW b, Windows(p, b),
         NEW f, f = PrintedAll(RanAll(p))
  PROVE  Emptied(p, f, b)
<1> DEFINE x == RanAll(p)
<1>1. Alike(p, x) /\ x.next = <<>>
  BY RanAllHolds
<1> HIDE DEF x
<1>2. x \in DocumentType /\ InTurn(x) /\ f = PrintedAll(x) /\ Written(x) = Written(p)
  BY <1>1 DEF Alike, Documents, x
<1>3. /\ Alike(x, f) /\ f.prev = <<>> /\ f.cur = NoWin /\ f.next = <<>>
      /\ f.out = Written(x) /\ Held(f) = <<>> /\ Printed(f) = Len(f.win)
  BY <1>1, <1>2, PrintedAllHolds
<1>4. Alike(p, f)
  BY <1>1, <1>3, AlikeTrans
<1>5. Windows(f, b)
  BY <1>4, AlikeShaped
<1>6. Buffered(f) = <<>>
  BY <1>3 DEF Buffered
<1> QED
  BY <1>2, <1>3, <1>4, <1>5, <1>6 DEF Emptied, Alike, Documents

\* The command n, read in x, closes what z holds; p is what is left to print.
Flushes(z, p, f, b, n) ==
  /\ f \in DocumentType /\ InTurn(f) /\ Windows(f, b) /\ Buffered(f) = <<>>
  /\ Printed(f) = Len(f.win) /\ Written(f) = Written(z) \o <<n>>
  /\ SameLocals(p, f) /\ Len(f.win) = Len(p.win)

LEMMA FlushedHolds ==
  ASSUME NEW z, NEW b, Sound(z, b), NEW n \in Nat,
         NEW p \in DocumentType, InTurn(p), Windows(p, b),
         Written(p) = Written(Marked(z, n)),
         NEW x \in DocumentType, InTurn(x), Buffered(x) = Buffered(z),
         NEW f, f = CommandItself(PrintedAll(RanAll(p)), x, n)
  PROVE  Flushes(z, p, f, b, n)
<1> DEFINE e == PrintedAll(RanAll(p))
           m == Marked(z, n)
<1>1. Emptied(p, e, b)
  BY EmptiedHolds
<1>2. Marks(z, m, b, n)
  BY MarkedHolds
<1> HIDE DEF e, m
<1>3. /\ e \in DocumentType /\ InTurn(e) /\ Windows(e, b) /\ Buffered(e) = <<>>
      /\ Printed(e) = Len(e.win) /\ Written(e) = Written(p) /\ Held(e) = <<>>
      /\ e.out = Written(p) /\ SameLocals(p, e) /\ Len(e.win) = Len(p.win)
  BY <1>1 DEF Emptied
<1>4. Written(p) = Written(m) /\ f = CommandItself(e, x, n)
  BY DEF e, m
<1>5. CASE Buffered(x) # <<>>
  <2>1. f = e
    BY <1>4, <1>5, BackIs DEF CommandItself
  <2>2. Written(m) = Written(z) \o <<n>>
    BY <1>2, <1>5 DEF Marks
  <2> QED
    BY <1>3, <1>4, <2>1, <2>2 DEF Flushes
<1>6. CASE Buffered(x) = <<>>
  <2>1. Written(m) = Written(z)
    BY <1>2, <1>6 DEF Marks
  <2>2. f = [e EXCEPT !.out = Append(e.out, n)]
    BY <1>4, <1>6, BackIs DEF CommandItself
  <2>3. e.out \in Text /\ e.out = Written(z)
    BY <1>3, <1>4, <2>1, HeldText
  <2>4. Append(e.out, n) = e.out \o <<n>> /\ Append(e.out, n) \in Text
    BY <2>3 DEF Text
  <2> HIDE DEF e
  <2>5. f \in DocumentType
    BY <1>3, <2>2, <2>4 DEF DocumentType
  <2>6. /\ f.out = Written(z) \o <<n>> /\ f.win = e.win /\ f.prev = e.prev
        /\ f.cur = e.cur /\ f.next = e.next /\ SameLocals(e, f)
    BY <1>3, <2>2, <2>3, <2>4 DEF DocumentType, SameLocals
  <2>7. InTurn(f) /\ Printed(f) = Printed(e) /\ Buffered(f) = Buffered(e)
    BY <1>3, <2>6, ListsSame DEF SameLists, Buffered
  <2>8. Held(f) = <<>>
    BY <1>3, <2>6, <2>7 DEF Held, ItemsAll
  <2>9. Written(f) = f.out
    BY <2>3, <2>4, <2>6, <2>8, TextConcat DEF Written
  <2>10. SameLocals(p, f)
    BY <1>3, <2>6 DEF SameLocals
  <2>11. Windows(f, b)
    BY <1>3, <2>6 DEF Windows
  <2> QED
    BY <1>3, <2>5, <2>6, <2>7, <2>9, <2>10, <2>11 DEF Flushes
<1> QED
  BY <1>5, <1>6

\* The command and a line of text do not disturb each other.
LEMMA MarkedPlaced ==
  ASSUME NEW r, NEW b, Sound(r, b), Tracked(r), r.cCoh = NoCohort,
         NEW t \in Text, NEW n \in Nat
  PROVE  PlacedText(Marked(r, n), t) = Marked(PlacedText(r, t), n)
<1> DEFINE m == Marked(r, n)
           z == PlacedText(r, t)
<1>1. r \in DocumentType /\ InTurn(r) /\ Printed(r) \in Nat /\ Len(r.win) \in Nat
  BY SoundFacts
<1>2. Places(r, z, b, t)
  BY PlacedHolds
<1>3. Marks(r, m, b, n)
  BY MarkedHolds
<1> HIDE DEF z, m
<1>4. /\ z \in DocumentType /\ InTurn(z) /\ Buffered(z) = Buffered(r)
      /\ Len(z.win) = Len(r.win) /\ z.lCoh = r.lCoh /\ z.lSw = r.lSw
  <2>1. z \in DocumentType /\ InTurn(z) /\ SameLists(r, z) /\ z.lCoh = r.lCoh
        /\ z.lSw = r.lSw
    BY <1>2, SoundFacts DEF Places
  <2> QED
    BY <2>1 DEF SameLists, Buffered
<1>5. /\ m \in DocumentType /\ InTurn(m) /\ Buffered(m) = Buffered(r)
      /\ SameLists(r, m) /\ m.lCoh = r.lCoh /\ m.lSw = r.lSw /\ m.cCoh = NoCohort
      /\ Printed(m) = Printed(r) /\ Len(m.win) = Len(r.win)
      /\ \A w \in 1 .. Len(r.win) : m.win[w].cohorts = r.win[w].cohorts
  BY <1>3 DEF Marks, SameLocals, SameLists
<1>6. CASE Buffered(r) = <<>>
  <2>1. m = r /\ Marked(z, n) = z
    BY <1>1, <1>4, <1>6, MarkedIs DEF m
  <2> QED
    BY <2>1 DEF m, z
<1>7. CASE Buffered(r) # <<>>
  <2> DEFINE id == r.lCoh
             l == Len(r.win)
  <2>1. r.lCoh # 0 /\ Anchored(r, r.lCoh) /\ r.lCoh # r.cCoh.id
    BY <1>7, NoCohortIs DEF Tracked
  <2>2. PICK w : Anchor(r, w, id)
    BY <2>1 DEF Anchored
  <2> DEFINE k == Len(r.win[w].cohorts)
             e == Longer(r.win[w].cohorts[k], t)
  <2>3. /\ w \in Printed(r) + 1 .. l /\ w \in 1 .. l /\ l \in 1 .. l
        /\ Unique(r, w, id) /\ k # 0 /\ k \in 1 .. k
    <3>1. w \in Printed(r) + 1 .. l /\ Unique(r, w, id)
      BY <2>2 DEF Anchor
    <3>2. w \in 1 .. l /\ l \in 1 .. l
      BY <1>1, <3>1
    <3>3. k \in Nat /\ k >= 1
      BY <3>2, SoundFacts
    <3> HIDE DEF k
    <3>4. k # 0 /\ k \in 1 .. k
      BY <3>3
    <3> QED
      BY <3>1, <3>2, <3>4
  <2> HIDE DEF id
  <2>4. r.cCoh.id # id /\ m.cCoh.id # id /\ id # 0 /\ r.lCoh = id /\ m.lCoh = id
    BY <1>5, <2>1, NoCohortIs DEF id
  <2>5. z = WithCohort(r, w, k, e)
    <3>1. z = TextAfter(r, id, t)
      BY <2>4 DEF PlacedText, z
    <3> DEFINE j == Len(r.win[w].cohorts)
    <3>2. j = Len(r.win[w].cohorts) /\ j # 0
      BY <2>3
    <3> HIDE DEF j
    <3>3. TextAfter(r, id, t) = WithCohort(r, w, j, Longer(r.win[w].cohorts[j], t))
      BY <1>1, <2>3, <2>4, <3>2, TextAfterIs
    <3> QED
      BY <3>1, <3>2, <3>3
  <2>6. PlacedText(m, t) = WithCohort(m, w, k, Longer(m.win[w].cohorts[k], t))
    <3>1. PlacedText(m, t) = TextAfter(m, id, t)
      BY <2>4 DEF PlacedText
    <3>2. w \in Printed(m) + 1 .. Len(m.win) /\ k = Len(m.win[w].cohorts)
      BY <1>5, <2>3
    <3>3. Unique(m, w, id)
      <4>1. \A v \in Printed(r) + 1 .. l : v \in 1 .. l
        BY <1>1
      <4> QED
        BY <1>5, <2>3, <4>1 DEF Unique
    <3> HIDE DEF k
    <3>4. TextAfter(m, id, t) = WithCohort(m, w, k, Longer(m.win[w].cohorts[k], t))
      BY <1>5, <2>3, <2>4, <3>2, <3>3, TextAfterIs
    <3> QED
      BY <3>1, <3>4
  <2>7. m.win[w].cohorts[k] = r.win[w].cohorts[k]
    BY <1>5, <2>3
  <2>8. PlacedText(m, t) = WithCohort(m, w, k, e)
    BY <2>6, <2>7
  <2>9. m = Flagged(r, n) /\ Marked(z, n) = Flagged(z, n)
    BY <1>1, <1>4, <1>7, MarkedIs DEF m
  <2> HIDE DEF k, e
  <2>10. WithCohort(Flagged(r, n), w, k, e) = Flagged(WithCohort(r, w, k, e), n)
    <3> DEFINE f == r.win
               Flag(x) == [x EXCEPT !.flush = <<n>>]
               More(x) == [x EXCEPT !.cohorts = [x.cohorts EXCEPT ![k] = e]]
               F == [f EXCEPT ![l] = Flag(f[l])]
               G == [f EXCEPT ![w] = More(f[w])]
               H == [F EXCEPT ![w] = More(F[w])]
               I == [G EXCEPT ![l] = Flag(G[l])]
    <3>1. /\ f \in Seq(WindowType) /\ DOMAIN f = 1 .. l
          /\ \A v \in 1 .. l : f[v] \in WindowType
      BY <1>1, DocumentFields
    <3>2. Flagged(r, n) = [r EXCEPT !.win = F] /\ Flagged(r, n).win = F
      BY <1>1 DEF Flagged, WithWindow, DocumentType
    <3>3. WithCohort(r, w, k, e) = [r EXCEPT !.win = G] /\ WithCohort(r, w, k, e).win = G
      BY <1>1 DEF WithCohort, WithWindow, DocumentType
    <3>4. Len(G) = l
      BY <1>4, <2>5, <3>3
    <3>5. WithCohort(Flagged(r, n), w, k, e) = [r EXCEPT !.win = H]
      <4> HIDE DEF F
      <4>1. WithCohort(Flagged(r, n), w, k, e) = [Flagged(r, n) EXCEPT !.win = H]
        BY <3>2 DEF WithCohort, WithWindow
      <4> HIDE DEF H
      <4> QED
        BY <3>2, <4>1
    <3>6. Flagged(WithCohort(r, w, k, e), n) = [r EXCEPT !.win = I]
      <4> HIDE DEF G
      <4>1. Flagged(WithCohort(r, w, k, e), n) = [WithCohort(r, w, k, e) EXCEPT !.win = I]
        BY <3>3, <3>4 DEF Flagged, WithWindow
      <4> HIDE DEF I
      <4> QED
        BY <3>3, <4>1
    <3>7. H = I
      <4> HIDE DEF f, l
      <4>1. /\ DOMAIN H = 1 .. l /\ DOMAIN I = 1 .. l
            /\ H = [v \in 1 .. l |-> H[v]] /\ I = [v \in 1 .. l |-> I[v]]
        BY <3>1
      <4>2. More(Flag(f[w])) = Flag(More(f[w]))
        <5> DEFINE x == f[w]
        <5>1. x \in WindowType
          BY <2>3, <3>1
        <5> HIDE DEF x
        <5>2. More(Flag(x)) = Flag(More(x))
          BY <5>1 DEF WindowType
        <5> QED
          BY <5>2 DEF x
      <4> HIDE DEF Flag, More
      <4>3. ASSUME NEW v \in 1 .. l
            PROVE  H[v] = I[v]
        BY <2>3, <3>1, <4>2
      <4> HIDE DEF H, I
      <4> QED
        BY <4>1, <4>3
    <3> QED
      BY <3>5, <3>6, <3>7
  <2> QED
    BY <2>5, <2>8, <2>9, <2>10 DEF m, z
<1> QED
  BY <1>6, <1>7

-----------------------------------------------------------------------------
(* The pending cohort.                                                       *)

\* The property, in the terms of the proofs.
LEMMA ToldInOrder ==
  ASSUME NEW r \in DocumentType, InTurn(r)
  PROVE  /\ r.out \o FlattenSeq([i \in DOMAIN Buffered(r) |->
                                   WindowItems(r, Buffered(r)[i])])
              \o r.cCoh.ids \o r.cCoh.text \o r.blank = Told(r) \o r.blank
         /\ Told(r) \in Text /\ Written(r) \in Text /\ r.blank \in Text
         /\ Says(r.cCoh) \in Text
<1> DEFINE h == FlattenSeq([i \in DOMAIN Buffered(r) |-> WindowItems(r, Buffered(r)[i])])
           i == r.cCoh.ids
           t == r.cCoh.text
<1>1. h = Held(r)
  BY HeldHolds
<1>2. Written(r) \in Text /\ i \in Text /\ t \in Text /\ r.blank \in Text
  BY HeldText, DocumentFields DEF CohortType
<1>3. Says(r.cCoh) \in Text
  BY DocumentFields, SaysText
<1> HIDE DEF h, i, t
<1>4. Written(r) \o (i \o t) = (Written(r) \o i) \o t
  <2> DEFINE w == Written(r)
  <2>1. w \in Text /\ i \in Text /\ t \in Text
    BY <1>2
  <2> HIDE DEF w
  <2>2. w \o (i \o t) = (w \o i) \o t
    BY ONLY <2>1, TextThree
  <2> QED
    BY <2>2 DEF w
<1>5. r.out \o h \o i \o t \o r.blank = (Written(r) \o (i \o t)) \o r.blank
  BY <1>1, <1>4 DEF Written
<1>6. Told(r) = Written(r) \o (i \o t)
  BY DEF Told, Says, i, t
<1>7. Told(r) \in Text
  BY <1>2, <1>3, TextConcat DEF Told
<1> QED
  BY <1>2, <1>3, <1>5, <1>6, <1>7 DEF h, i, t

\* Nothing is lost on the way: x says u, and a cohort waits only for a window.
Going(x, top, u) ==
  /\ Core(x, top) /\ Told(x) = u
  /\ x.cSw = NoWin => x.cCoh = NoCohort

LEMMA CoreFacts ==
  ASSUME NEW x, NEW top \in Nat, Core(x, top)
  PROVE  /\ Sound(x, Bound(x, top)) /\ Bound(x, top) \in Nat /\ Bound(x, top) <= top
         /\ Sound(x, top) /\ x \in DocumentType /\ InTurn(x)
         /\ x.cCoh \in CohortType /\ x.cCoh.id \in Nat
         /\ x.cCoh.id = 0 => x.cCoh = NoCohort /\ Told(x) = Written(x)
         /\ x.cCoh.id # 0 => /\ Bound(x, top) = x.cCoh.id - 1 /\ x.cCoh.id \in 1 .. top
                             /\ \A i \in 1 .. Bound(x, top) : i # x.cCoh.id
<1>1. Sound(x, Bound(x, top)) /\ x.cCoh.id \in 0 .. top /\ (x.cCoh.id = 0 => x.cCoh = NoCohort)
  BY DEF Core
<1>2. Bound(x, top) \in Nat /\ Bound(x, top) <= top
  BY <1>1 DEF Bound
<1>3. Sound(x, top)
  BY <1>1, <1>2, SoundMore
<1>4. x \in DocumentType /\ InTurn(x) /\ x.cCoh \in CohortType /\ Written(x) \in Text
  BY <1>1, SoundFacts
<1>5. x.cCoh.id = 0 => Told(x) = Written(x)
  BY <1>1, <1>4, NoCohortIs, TextConcat DEF Told
<1>6. x.cCoh.id # 0 => /\ Bound(x, top) = x.cCoh.id - 1 /\ x.cCoh.id \in 1 .. top
                       /\ \A i \in 1 .. Bound(x, top) : i # x.cCoh.id
  BY <1>1 DEF Bound
<1> QED
  BY <1>1, <1>2, <1>3, <1>4, <1>5, <1>6

\* The pending cohort finds its window.
Joins(x, s, top) ==
  /\ Sound(s, top) /\ Written(s) = Told(x) /\ Anchored(s, x.cCoh.id)
  /\ SameLocals(x, s) /\ SameLists(x, s) /\ Printed(s) = Printed(x)

LEMMA PendingJoins ==
  ASSUME NEW top \in Nat, NEW x, Core(x, top), x.cCoh.id # 0, x.cSw # NoWin,
         NEW s, s = PendingEnds(x) \/ s = Appended(x, x.cSw, x.cCoh)
  PROVE  Joins(x, s, top)
<1> DEFINE b == Bound(x, top)
           c == IF s = PendingEnds(x) THEN [x.cCoh EXCEPT !.ended = TRUE] ELSE x.cCoh
<1>1. /\ Sound(x, b) /\ b \in Nat /\ b <= top /\ x.cCoh \in CohortType
      /\ x.cCoh.id \in 1 .. top /\ \A i \in 1 .. b : i # x.cCoh.id
  BY CoreFacts
<1>2. /\ c \in CohortType /\ c.id = x.cCoh.id /\ c.ids = x.cCoh.ids /\ c.text = x.cCoh.text
  BY <1>1 DEF CohortType
<1>3. s = Appended(x, x.cSw, c)
  BY DEF PendingEnds
<1> HIDE DEF b, c
<1>4. Appends(x, s, c, b, top)
  BY <1>1, <1>2, <1>3, AppendedHolds
<1>5. Says(c) = Says(x.cCoh)
  BY <1>2 DEF Says
<1> QED
  BY <1>1, <1>2, <1>4, <1>5 DEF Appends, Joins, Told

LEMMA LookedBackGoes ==
  ASSUME NEW top \in Nat, NEW x, NEW u, Going(x, top, u), NEW s, s = LookedBack(x)
  PROVE  /\ Going(s, top, u) /\ s.cCoh = x.cCoh /\ s.lCoh = x.lCoh /\ s.blank = x.blank
         /\ s.lSw = x.lSw /\ (s.cSw = NoWin <=> x.cSw = NoWin)
         /\ \A id : Anchored(x, id) => Anchored(s, id)
<1>1. Core(x, top) /\ Told(x) = u /\ (x.cSw = NoWin => x.cCoh = NoCohort)
  BY DEF Going
<1> DEFINE b == Bound(x, top)
<1>2. Sound(x, b) /\ b \in Nat
  BY <1>1, CoreFacts
<1> HIDE DEF b
<1>3. LooksBack(x, s, b)
  BY <1>2, LookedBackHolds
<1>4. /\ Sound(s, b) /\ Written(s) = Written(x)
      /\ s.cCoh = x.cCoh /\ s.lCoh = x.lCoh /\ s.blank = x.blank
      /\ s.lSw = x.lSw /\ (s.cSw = NoWin <=> x.cSw = NoWin)
      /\ \A id : Anchored(x, id) => Anchored(s, id)
  BY <1>3 DEF LooksBack
<1>5. Core(s, top)
  BY <1>1, <1>4 DEF Core, Bound, b
<1>6. Told(s) = u
  BY <1>1, <1>4 DEF Told
<1> QED
  BY <1>1, <1>4, <1>5, <1>6 DEF Going

\* The pending cohort ends its window.
LEMMA ClosedGoes ==
  ASSUME NEW top \in Nat, NEW x, NEW u, Going(x, top, u), x.cCoh.id # 0,
         NEW s \in DocumentType, SameBody(PendingEnds(x), s), s.cSw = NoWin, s.lSw = x.cSw
  PROVE  /\ Sound(s, top) /\ Written(s) = u /\ Anchored(s, x.cCoh.id) /\ x.cSw # NoWin
         /\ s.cCoh = NoCohort => Going(s, top, u)
<1>1. Core(x, top) /\ Told(x) = u /\ x.cSw # NoWin
  BY NoCohortIs DEF Going
<1> DEFINE y == PendingEnds(x)
<1>2. Joins(x, y, top)
  BY <1>1, PendingJoins
<1> HIDE DEF y
<1>3. Sound(y, top) /\ Written(y) = Told(x) /\ Anchored(y, x.cCoh.id) /\ y.cSw = x.cSw
  BY <1>2 DEF Joins, SameLocals
<1>4. x.cSw \in 0 .. Len(y.win)
  BY <1>1, <1>3, FillingLast
<1>5. Sound(s, top) /\ Written(s) = Written(y) /\ Anchored(s, x.cCoh.id)
  BY <1>3, <1>4, SoundLocals DEF y
<1>6. ASSUME s.cCoh = NoCohort
      PROVE  Going(s, top, u)
  <2>1. Bound(s, top) = top /\ s.cCoh.id = 0
    BY <1>6, NoCohortIs DEF Bound
  <2>2. Core(s, top)
    BY <1>5, <1>6, <2>1 DEF Core
  <2> QED
    BY <1>1, <1>3, <1>5, <1>6, <2>2, CoreFacts, <2>1 DEF Going
<1> QED
  BY <1>1, <1>3, <1>5, <1>6

\* The pending cohort goes into the window being filled, a waiting window runs,
\* and the cohort of the new line is pending.
Awaits(x, s, top, u, n) ==
  /\ Core(s, n) /\ Told(s) = u \o <<n>> /\ s.cCoh.id = n /\ s.cCoh.text = <<>>
  /\ s.cSw # NoWin /\ s.blank = x.blank

LEMMA PlacedPending ==
  ASSUME NEW top \in Nat, NEW x, NEW u, Going(x, top, u), x.cSw # NoWin,
         NEW q, q = PendingAppended(x)
  PROVE  /\ Sound(q, top) /\ Written(q) = u /\ SameLocals(x, q) /\ q.cSw # NoWin
         /\ x.cCoh.id # 0 => Anchored(q, x.cCoh.id)
         /\ x.cCoh.id = 0 => q = x
<1>1. Core(x, top) /\ Told(x) = u
  BY DEF Going
<1>2. CASE x.cCoh.id = 0
  <2>1. q = x
    BY <1>2 DEF PendingAppended
  <2> QED
    BY <1>1, <1>2, <2>1, CoreFacts DEF SameLocals
<1>3. CASE x.cCoh.id # 0
  <2>1. q = Appended(x, x.cSw, x.cCoh)
    BY <1>3 DEF PendingAppended
  <2>2. Joins(x, q, top)
    BY <1>1, <1>3, <2>1, PendingJoins
  <2> QED
    BY <1>1, <1>3, <2>2 DEF Joins, SameLocals
<1> QED
  BY <1>2, <1>3

\* A run of a window that waits.
LEMMA DrainedGoes ==
  ASSUME NEW b, NEW r, Sound(r, b), NEW s, s = Drained(r)
  PROVE  /\ Sound(s, b) /\ Written(s) = Written(r) /\ SameLocals(r, s)
         /\ \A id : Anchored(r, id) => Anchored(s, id)
<1>1. r \in DocumentType /\ InTurn(r)
  BY SoundFacts
<1>2. /\ Alike(r, s) /\ (r.next # <<>> => s.next # <<>>)
      /\ Printed(s) = Printed(r) \/ Printed(s) + 2 <= Len(s.win)
  BY <1>1, DrainedHolds
<1>3. r.cSw # NoWin => s.next # <<>>
  BY <1>2, SoundFacts
<1>4. /\ Sound(s, b)
      /\ \A id : Anchored(r, id) => Anchored(s, id)
  BY <1>2, <1>3, AlikeSound
<1> QED
  BY <1>2, <1>4 DEF Alike

LEMMA PendingGoes ==
  ASSUME NEW top \in Nat, NEW x, NEW u, Going(x, top, u), x.cSw # NoWin,
         NEW kinds \in Kinds, NEW n, n = top + 1,
         NEW s \in DocumentType, SameBody(Drained(PendingAppended(x)), s),
         s.cSw = Drained(PendingAppended(x)).cSw,
         s.lSw = Drained(PendingAppended(x)).lSw,
         s.blank = Drained(PendingAppended(x)).blank,
         s.cCoh = CohortOf(n, kinds)
  PROVE  Awaits(x, s, top, u, n)
<1> DEFINE p == PendingAppended(x)
           q == Drained(p)
<1>1. Sound(p, top) /\ Written(p) = u /\ SameLocals(x, p) /\ p.cSw # NoWin
  BY PlacedPending
<1> HIDE DEF p
<1>2. Sound(q, top) /\ Written(q) = Written(p) /\ SameLocals(p, q)
  BY <1>1, DrainedGoes
<1> HIDE DEF q
<1>3. SameBody(q, s) /\ s.cSw = q.cSw /\ s.lSw = q.lSw /\ s.blank = q.blank
  BY DEF q, p
<1>4. s.lSw \in 0 .. Len(q.win)
  BY <1>2, <1>3, SoundFacts
<1>5. Sound(s, top) /\ Written(s) = Written(q)
  BY <1>2, <1>3, <1>4, SoundLocals
<1>6. n \in Nat /\ n # 0 /\ n - 1 = top /\ n \in 0 .. n
  OBVIOUS
<1>7. s.cCoh.id = n /\ Says(s.cCoh) = <<n>> /\ s.cCoh.text = <<>>
  BY <1>6, CohortOfIs
<1>8. Core(s, n)
  BY <1>5, <1>6, <1>7 DEF Core, Bound
<1>9. Told(s) = u \o <<n>>
  BY <1>1, <1>2, <1>5, <1>7 DEF Told
<1> QED
  BY <1>1, <1>2, <1>3, <1>7, <1>8, <1>9 DEF Awaits, SameLocals

\* A new window, nothing being pending.
LEMMA OpenedGoes ==
  ASSUME NEW top \in Nat, NEW x, Sound(x, top), NEW u, Written(x) = u,
         NEW s \in DocumentType, SameBody(Opened(x), s), s.cSw = Opened(x).cSw,
         s.lSw = Opened(x).lSw, s.cCoh = NoCohort
  PROVE  Going(s, top, u) /\ s.cSw # NoWin /\ Anchored(s, -s.cSw)
<1> DEFINE y == Opened(x)
<1>3. /\ Sound(y, top) /\ Written(y) = u /\ y.cSw # NoWin /\ Anchored(y, -y.cSw)
      /\ y.lSw = Len(y.win)
  BY OpenedHolds
<1> HIDE DEF y
<1>4. SameBody(y, s) /\ s.cSw = y.cSw /\ s.lSw = y.lSw
  BY DEF y
<1>5. s.lSw \in 0 .. Len(y.win)
  BY <1>3, <1>4, SoundFacts
<1>6. Sound(s, top) /\ Written(s) = u /\ Anchored(s, -s.cSw)
  BY <1>3, <1>4, <1>5, SoundLocals
<1>7. Core(s, top)
  BY <1>6, NoCohortIs DEF Core, Bound
<1>8. Told(s) = u
  BY <1>6, <1>7, CoreFacts, NoCohortIs
<1> QED
  BY <1>3, <1>4, <1>6, <1>7, <1>8 DEF Going

-----------------------------------------------------------------------------
(* The steps of the readers.                                                 *)

Follows(s, top, u) == Core(s, top) /\ Pending(s) /\ Told(s) \o s.blank = u

\* What a step starts from.
LEMMA Starts ==
  ASSUME NEW top \in Nat, NEW r, NEW u, Follows(r, top, u)
  PROVE  /\ Going(r, top, Told(r)) /\ Core(r, top) /\ Told(r) \in Text /\ r.blank \in Text
         /\ u \in Text
         /\ r.blank = <<>> => u = Told(r)
<1>1. Going(r, top, Told(r)) /\ Core(r, top) /\ Told(r) \o r.blank = u
  BY DEF Follows, Pending, Going
<1>2. Told(r) \in Text /\ r.blank \in Text
  BY <1>1, CoreFacts, ToldInOrder
<1> QED
  BY <1>1, <1>2, TextConcat

LEMMA PendingEndsType ==
  ASSUME NEW top \in Nat, NEW x, NEW u, Going(x, top, u), x.cCoh.id # 0
  PROVE  /\ PendingEnds(x) \in DocumentType /\ PendingEnds(x).blank = x.blank
         /\ PendingEnds(x).cCoh = x.cCoh /\ x.cSw # NoWin /\ x.cSw \in Nat
         /\ PendingEnds(x).lookback = x.lookback
<1>1. Core(x, top) /\ x.cSw # NoWin
  BY NoCohortIs DEF Going
<1> DEFINE y == PendingEnds(x)
<1>2. Joins(x, y, top)
  BY <1>1, PendingJoins
<1>3. y \in DocumentType /\ y.blank = x.blank /\ y.cCoh = x.cCoh
  BY <1>2, SoundFacts DEF Joins, SameLocals
<1>4. x \in DocumentType
  BY <1>1, CoreFacts
<1>5. x.cSw \in Nat /\ y.lookback = x.lookback
  BY <1>4 DEF DocumentType, PendingEnds, Appended
<1> QED
  BY <1>1, <1>3, <1>5

LEMMA NicelineBreaksGoes ==
  ASSUME NEW top \in Nat, NEW x, NEW u, Going(x, top, u), NEW s, s = NicelineBreaks(x)
  PROVE  Going(s, top, u) /\ s.blank = x.blank
<1>1. CASE s = x
  BY <1>1
<1>2. CASE s # x
  <2>1. s = NicelineClosed(x) /\ x.cCoh.id # 0
    BY <1>2 DEF NicelineBreaks
  <2> DEFINE y == PendingEnds(x)
  <2>2. y \in DocumentType /\ y.blank = x.blank /\ x.cSw \in Nat
    BY <2>1, PendingEndsType
  <2>3. s = [y EXCEPT !.lSw = x.cSw, !.cSw = NoWin, !.cCoh = NoCohort, !.lookback = FALSE]
    BY <2>1 DEF NicelineClosed
  <2> HIDE DEF y
  <2>4. /\ s \in DocumentType /\ SameBody(y, s) /\ s.cSw = NoWin /\ s.lSw = x.cSw
        /\ s.cCoh = NoCohort /\ s.blank = y.blank
    <3>1. NoWin \in Nat /\ NoCohort \in CohortType
      BY NoCohortIs DEF NoWin
    <3>2. s \in DocumentType
      BY <2>2, <2>3, <3>1 DEF DocumentType
    <3> QED
      BY <2>2, <2>3, <3>1 DEF DocumentType, SameBody
  <2> QED
    BY <2>1, <2>2, <2>4, ClosedGoes DEF y
<1> QED
  BY <1>1, <1>2

LEMMA NicelineWindowGoes ==
  ASSUME NEW top \in Nat, NEW x, NEW u, Going(x, top, u), NEW s, s = NicelineWindow(x)
  PROVE  Going(s, top, u) /\ s.blank = x.blank /\ s.cSw # NoWin
<1>1. CASE x.cSw # NoWin
  BY <1>1 DEF NicelineWindow
<1>2. CASE x.cSw = NoWin
  <2> DEFINE y == Opened(x)
  <2>1. Sound(x, top) /\ Written(x) = u
    BY <1>2, CoreFacts, NoCohortIs DEF Going
  <2>2. y \in DocumentType /\ y.blank = x.blank
    <3>1. Sound(y, top) /\ y.blank = x.blank
      BY <2>1, OpenedHolds
    <3> QED
      BY <3>1, SoundFacts
  <2>3. s = [y EXCEPT !.cCoh = NoCohort, !.lookback = FALSE]
    BY <1>2 DEF NicelineWindow
  <2> HIDE DEF y
  <2>4. /\ s \in DocumentType /\ SameBody(y, s) /\ s.cSw = y.cSw /\ s.lSw = y.lSw
        /\ s.cCoh = NoCohort /\ s.blank = y.blank
    BY <2>2, <2>3, NoCohortIs DEF DocumentType, SameBody
  <2> QED
    BY <2>1, <2>2, <2>4, OpenedGoes DEF y
<1> QED
  BY <1>1, <1>2

NicelineNext(r, n, kinds) ==
  [Drained(PendingAppended(NicelineWindow(NicelineBreaks(LookedBack(r)))))
     EXCEPT !.cCoh = CohortOf(n, kinds), !.lCoh = n]

LEMMA NicelineStep ==
  ASSUME NEW top \in Nat, NEW r, NEW u, Follows(r, top, u), format = "niceline",
         NEW kinds \in Kinds, NEW n, n = top + 1,
         NEW s, s = NicelineNext(r, n, kinds)
  PROVE  Follows(s, n, u \o <<n>>)
<1>1. /\ Going(r, top, Told(r)) /\ r.blank = <<>> /\ u = Told(r)
  BY Starts DEF Follows, Pending
<1> DEFINE a == LookedBack(r)
           k == NicelineBreaks(a)
           x == NicelineWindow(k)
           q == Drained(PendingAppended(x))
<1>2. Going(a, top, u) /\ a.blank = <<>>
  BY <1>1, LookedBackGoes
<1> HIDE DEF a
<1>3. Going(k, top, u) /\ k.blank = <<>>
  BY <1>2, NicelineBreaksGoes
<1> HIDE DEF k
<1>4. Going(x, top, u) /\ x.blank = <<>> /\ x.cSw # NoWin
  BY <1>3, NicelineWindowGoes
<1> HIDE DEF x
<1>5. q \in DocumentType
  BY <1>4, PlacedPending, DrainedGoes, SoundFacts
<1>6. s = [q EXCEPT !.cCoh = CohortOf(n, kinds), !.lCoh = n]
  BY DEF NicelineNext, a, k, x
<1> HIDE DEF q
<1>7. n \in Nat /\ n \in Int /\ n # 0 /\ CohortOf(n, kinds) \in CohortType
  BY CohortOfIs
<1>8. /\ s \in DocumentType /\ SameBody(q, s) /\ s.cSw = q.cSw /\ s.lSw = q.lSw
      /\ s.blank = q.blank /\ s.cCoh = CohortOf(n, kinds) /\ s.lCoh = n
  BY <1>5, <1>6, <1>7 DEF DocumentType, SameBody
<1>9. Awaits(x, s, top, u, n)
  BY <1>4, <1>8, PendingGoes DEF q
<1>10. /\ Core(s, n) /\ Told(s) = u \o <<n>> /\ s.cCoh.id = n /\ s.cSw # NoWin
       /\ s.blank = <<>>
  BY <1>4, <1>9 DEF Awaits
<1>11. Told(s) \o s.blank = u \o <<n>>
  BY <1>7, <1>10, CoreFacts, ToldInOrder, TextConcat
<1>12. Tracked(s)
  BY <1>7, <1>8, <1>10 DEF Tracked
<1> QED
  BY <1>10, <1>11, <1>12 DEF Follows, Pending

-----------------------------------------------------------------------------
(* A line of text.                                                           *)

LEMMA TextStep ==
  ASSUME NEW top \in Nat, NEW r, NEW u, Follows(r, top, u),
         format \in {"niceline", "plaintext", "jsonl", "fst"},
         format = "fst" => r.cCoh = NoCohort, NEW n, n = top + 1,
         NEW s, s = PlacedText(r, <<n>>)
  PROVE  Follows(s, n, u \o <<n>>)
<1>1. Core(r, top) /\ Tracked(r) /\ r.blank = <<>> /\ u = Told(r) /\ u \in Text
  BY Starts DEF Follows, Pending
<1> DEFINE b == Bound(r, top)
<1>2. /\ Sound(r, b) /\ b \in Nat /\ b <= top /\ n \in Nat /\ r.cCoh.id \in 0 .. top
      /\ (r.cCoh.id = 0 => r.cCoh = NoCohort)
  BY <1>1, CoreFacts DEF Core
<1> HIDE DEF b
<1>3. Places(r, s, b, <<n>>)
  <2>1. <<n>> \in Text
    BY <1>2 DEF Text
  <2> QED
    BY <1>1, <1>2, <2>1, PlacedHolds
<1>4. /\ Sound(s, b) /\ Tracked(s) /\ Told(s) = Told(r) \o <<n>>
      /\ s.cCoh.id = r.cCoh.id /\ (r.cCoh = NoCohort => s.cCoh = NoCohort)
      /\ s.cSw = r.cSw /\ s.blank = r.blank
  BY <1>3 DEF Places
<1>5. Core(s, n)
  <2>1. Bound(s, n) \in Nat /\ b <= Bound(s, n)
    BY <1>2, <1>4 DEF Bound, b
  <2>2. Sound(s, Bound(s, n))
    BY <1>2, <1>4, <2>1, SoundMore
  <2>3. s.cCoh.id \in 0 .. n
    BY <1>2, <1>4
  <2> QED
    BY <1>2, <1>4, <2>2, <2>3 DEF Core
<1>6. Told(s) \o s.blank = u \o <<n>>
  <2>1. Told(s) \in Text
    BY <1>2, <1>5, CoreFacts, ToldInOrder
  <2> QED
    BY <1>1, <1>4, <2>1, TextConcat
<1>7. Pending(s)
  BY <1>1, <1>4, NoCohortIs DEF Follows, Pending
<1> QED
  BY <1>5, <1>6, <1>7 DEF Follows

-----------------------------------------------------------------------------
(* The FST reader.                                                           *)

LEMMA FollowsMore ==
  ASSUME NEW top \in Nat, NEW r, NEW u, Follows(r, top, u), NEW n, n = top + 1
  PROVE  Follows(r, n, u)
<1>1. /\ Sound(r, Bound(r, top)) /\ Bound(r, top) \in Nat /\ r.cCoh.id \in 0 .. top
      /\ (r.cCoh.id = 0 => r.cCoh = NoCohort)
  BY CoreFacts DEF Follows, Core
<1>2. Bound(r, n) \in Nat /\ Bound(r, top) <= Bound(r, n)
  BY <1>1 DEF Bound
<1>3. Sound(r, Bound(r, n))
  BY <1>1, <1>2, SoundMore
<1>4. r.cCoh.id \in 0 .. n
  BY <1>1
<1> QED
  BY <1>1, <1>3, <1>4 DEF Follows, Core

\* A fresh cohort is pending in the window being filled.
Freshens(x, s, u, n) ==
  /\ Core(s, n) /\ Told(s) = u \o <<n>> /\ Tracked(s) /\ s.cCoh.id = n
  /\ s.cCoh.text = <<>> /\ s.blank = x.blank /\ s.cSw = x.cSw

LEMMA FreshGoes ==
  ASSUME NEW top \in Nat, NEW x, Sound(x, top), NEW u, Written(x) = u,
         NEW kinds \in Kinds, NEW n, n = top + 1, NEW s,
         s = [x EXCEPT !.cCoh = CohortOf(n, kinds), !.lCoh = n]
  PROVE  Freshens(x, s, u, n)
<1>1. n \in Nat /\ n # 0 /\ n \in Int /\ n - 1 = top /\ n \in 0 .. n
  OBVIOUS
<1>2. /\ CohortOf(n, kinds) \in CohortType /\ CohortOf(n, kinds).id = n
      /\ Says(CohortOf(n, kinds)) = <<n>> /\ CohortOf(n, kinds).text = <<>>
  BY <1>1, CohortOfIs
<1>3. x \in DocumentType /\ x.lSw \in 0 .. Len(x.win)
  BY SoundFacts
<1> DEFINE c == CohortOf(n, kinds)
<1> HIDE DEF c
<1>4. c \in CohortType /\ c.id = n /\ Says(c) = <<n>> /\ c.text = <<>>
      /\ s = [x EXCEPT !.cCoh = c, !.lCoh = n]
  BY <1>2 DEF c
<1>5. /\ s \in DocumentType /\ SameBody(x, s) /\ s.cSw = x.cSw /\ s.lSw = x.lSw
      /\ s.cCoh = c /\ s.lCoh = n /\ s.blank = x.blank
  BY <1>1, <1>3, <1>4 DEF DocumentType, SameBody
<1>6. Sound(s, top) /\ Written(s) = u
  BY <1>3, <1>5, SoundLocals
<1>7. Core(s, n)
  BY <1>1, <1>4, <1>5, <1>6 DEF Core, Bound
<1> QED
  BY <1>1, <1>4, <1>5, <1>6, <1>7 DEF Told, Tracked, Freshens

FstLineNext(r, n, kinds) ==
  LET open == IF r.cSw = NoWin THEN [Opened(r) EXCEPT !.lookback = FALSE] ELSE r IN
  IF r.cCoh.id # 0
  THEN [r EXCEPT !.cCoh.ids = Append(@, n), !.cCoh.kinds = @ \cup kinds]
  ELSE [open EXCEPT !.cCoh = CohortOf(n, kinds), !.lCoh = n]

LEMMA FstLineStep ==
  ASSUME NEW top \in Nat, NEW r, NEW u, Follows(r, top, u), format = "fst",
         NEW kinds \in Kinds, NEW n, n = top + 1,
         NEW s, s = FstLineNext(r, n, kinds)
  PROVE  Follows(s, n, u \o <<n>>)
<1>1. /\ Going(r, top, Told(r)) /\ Core(r, top) /\ r.blank = <<>> /\ u = Told(r)
      /\ Tracked(r) /\ r.cCoh.text = <<>> /\ u \in Text /\ (r.cSw = NoWin => r.cCoh = NoCohort)
  BY Starts DEF Follows, Pending
<1>2. n \in Nat /\ r \in DocumentType /\ r.cCoh \in CohortType /\ <<n>> \in Text
  <2>1. n \in Nat
    OBVIOUS
  <2> QED
    BY <1>1, <2>1, CoreFacts DEF Text
<1>3. ASSUME Core(s, n), Told(s) = u \o <<n>>, s.blank = <<>>, s.cCoh.text = <<>>,
             Tracked(s), s.cSw # NoWin
      PROVE  Follows(s, n, u \o <<n>>)
  <2>1. Told(s) \in Text
    BY <1>1, <1>2, <1>3, TextConcat
  <2>2. Told(s) \o s.blank = u \o <<n>>
    BY <1>3, <2>1, TextConcat
  <2> QED
    BY <1>3, <2>2 DEF Follows, Pending
<1>4. CASE r.cCoh.id # 0
  <2> DEFINE c == [r.cCoh EXCEPT !.ids = Append(r.cCoh.ids, n),
                                 !.kinds = r.cCoh.kinds \cup kinds]
  <2>1. s = [r EXCEPT !.cCoh = c]
    BY <1>2, <1>4 DEF FstLineNext, DocumentType, CohortType
  <2>2. /\ Append(r.cCoh.ids, n) \in Text /\ Append(r.cCoh.ids, n) = r.cCoh.ids \o <<n>>
        /\ r.cCoh.ids \in Text
    <3> DEFINE i == r.cCoh.ids
    <3>1. i \in Text
      BY <1>2 DEF CohortType
    <3> HIDE DEF i
    <3>2. Append(i, n) \in Text /\ Append(i, n) = i \o <<n>>
      BY <1>2, <3>1 DEF Text
    <3> QED
      BY <3>1, <3>2 DEF i
  <2>3. r.cCoh.kinds \cup kinds \in SUBSET {"soft", "hard"}
    BY <1>2 DEF CohortType, Kinds
  <2>4. /\ c \in CohortType /\ c.id = r.cCoh.id /\ c.ids = r.cCoh.ids \o <<n>>
        /\ c.text = <<>>
    BY <1>1, <1>2, <2>2, <2>3 DEF CohortType
  <2> HIDE DEF c
  <2>5. /\ s \in DocumentType /\ SameBody(r, s) /\ s.cSw = r.cSw /\ s.lSw = r.lSw
        /\ s.cCoh = c /\ s.lCoh = r.lCoh /\ s.blank = r.blank
    BY <1>2, <2>1, <2>4 DEF DocumentType, SameBody
  <2> DEFINE b == Bound(r, top)
  <2>6. /\ Sound(r, b) /\ b = Bound(s, n) /\ r.cCoh.id \in 1 .. top
    BY <1>1, <1>4, <2>4, <2>5, CoreFacts DEF Bound
  <2> HIDE DEF b
  <2>7. r.lSw \in 0 .. Len(r.win)
    BY <2>6, SoundFacts
  <2>8. Sound(s, b) /\ Written(s) = Written(r)
    BY <2>5, <2>6, <2>7, SoundLocals
  <2>9. Core(s, n)
    <3>1. s.cCoh.id \in 0 .. n /\ s.cCoh.id # 0
      BY <1>2, <2>4, <2>5, <2>6
    <3> QED
      BY <2>6, <2>8, <3>1 DEF Core
  <2>10. Told(s) = u \o <<n>>
    <3>1. Says(r.cCoh) = r.cCoh.ids /\ Says(c) = r.cCoh.ids \o <<n>>
      BY <1>1, <1>2, <2>2, <2>4, TextConcat DEF Says
    <3> DEFINE w == Written(r)
               i == r.cCoh.ids
    <3>2. w \in Text /\ i \in Text
      BY <2>2, <2>6, SoundFacts
    <3> HIDE DEF w, i
    <3>3. w \o (i \o <<n>>) = (w \o i) \o <<n>>
      BY ONLY <1>2, <3>2, TextThree
    <3> QED
      BY <1>1, <2>5, <2>8, <3>1, <3>3 DEF Told, w, i
  <2>11. Tracked(s)
    BY <1>1, <1>4, <2>4, <2>5, NoCohortIs DEF Tracked
  <2>12. s.cSw # NoWin
    BY <1>1, <1>4, <2>5, NoCohortIs
  <2> QED
    BY <1>1, <1>3, <2>4, <2>5, <2>9, <2>10, <2>11, <2>12
<1>5. CASE r.cCoh.id = 0
  <2> DEFINE x == IF r.cSw = NoWin THEN [Opened(r) EXCEPT !.lookback = FALSE] ELSE r
  <2>1. Sound(r, top) /\ Written(r) = u
    BY <1>1, <1>5, CoreFacts
  <2>2. Sound(x, top) /\ Written(x) = u /\ x.cSw # NoWin /\ x.blank = <<>>
    <3>1. CASE r.cSw # NoWin
      BY <1>1, <2>1, <3>1
    <3>2. CASE r.cSw = NoWin
      <4> DEFINE y == Opened(r)
      <4>1. /\ Sound(y, top) /\ Written(y) = u /\ y.cSw # NoWin /\ y.blank = <<>>
        BY <1>1, <2>1, OpenedHolds
      <4> HIDE DEF y
      <4>2. y \in DocumentType /\ y.lSw \in 0 .. Len(y.win)
        BY <4>1, SoundFacts
      <4>3. x = [y EXCEPT !.lookback = FALSE]
        BY <3>2 DEF y
      <4> HIDE DEF x
      <4>4. /\ x \in DocumentType /\ SameBody(y, x) /\ x.cSw = y.cSw /\ x.lSw = y.lSw
            /\ x.blank = y.blank
        BY <4>2, <4>3 DEF DocumentType, SameBody
      <4> QED
        BY <4>1, <4>2, <4>4, SoundLocals
    <3> QED
      BY <3>1, <3>2
  <2>3. s = [x EXCEPT !.cCoh = CohortOf(n, kinds), !.lCoh = n]
    BY <1>5 DEF FstLineNext
  <2> HIDE DEF x
  <2>4. Freshens(x, s, u, n)
    BY ONLY <2>2, <2>3, FreshGoes, top \in Nat, n = top + 1, kinds \in Kinds
  <2> QED
    BY <1>3, <2>2, <2>4 DEF Freshens
<1> QED
  BY <1>4, <1>5

\* The cohort being read, if any, ends.
LEMMA FstOpens ==
  ASSUME NEW top \in Nat, NEW r, NEW u, Follows(r, top, u), format = "fst",
         NEW s, s = FstWindow(FstBreaks(LookedBack(r)))
  PROVE  /\ Going(s, top, u) /\ s.cSw # NoWin /\ s.blank = <<>>
         /\ s.cCoh = NoCohort => s.lCoh # 0 /\ Anchored(s, s.lCoh)
<1>1. /\ Going(r, top, u) /\ Core(r, top) /\ r.blank = <<>>
      /\ Tracked(r) /\ (r.cSw = NoWin => r.cCoh = NoCohort)
  BY Starts DEF Follows, Pending
<1> DEFINE a == LookedBack(r)
           k == FstBreaks(a)
           y == Opened(k)
<1>2. /\ Going(a, top, u) /\ a.cCoh = r.cCoh /\ a.lCoh = r.lCoh /\ a.blank = <<>>
      /\ (a.cSw = NoWin <=> r.cSw = NoWin)
      /\ \A id : Anchored(r, id) => Anchored(a, id)
  BY <1>1, LookedBackGoes
<1> HIDE DEF a
<1>3. ASSUME k.cSw = NoWin, k \in DocumentType, Sound(k, top), Written(k) = u, k.blank = <<>>
      PROVE  /\ Going(s, top, u) /\ s.cSw # NoWin /\ s.blank = <<>>
             /\ s.lCoh # 0 /\ Anchored(s, s.lCoh)
  <2> HIDE DEF k
  <2>1. Sound(y, top) /\ y.blank = <<>> /\ y.cSw # NoWin
    BY <1>3, OpenedHolds
  <2>2. y \in DocumentType
    BY <2>1, SoundFacts
  <2>3. s = [y EXCEPT !.lCoh = -y.cSw, !.cCoh = NoCohort, !.lookback = FALSE]
    BY <1>3 DEF FstWindow, k, a
  <2> HIDE DEF y
  <2>4. y.cSw \in Nat /\ -y.cSw \in Int /\ -y.cSw # 0
    <3>1. y.cSw \in Nat
      BY <2>2 DEF DocumentType
    <3> QED
      BY <2>1, <3>1 DEF NoWin
  <2>5. /\ s \in DocumentType /\ SameBody(y, s) /\ s.cSw = y.cSw /\ s.lSw = y.lSw
        /\ s.cCoh = NoCohort /\ s.lCoh = -y.cSw /\ s.blank = y.blank
    BY <2>2, <2>3, <2>4, NoCohortIs DEF DocumentType, SameBody
  <2>6. Going(s, top, u) /\ s.cSw # NoWin /\ Anchored(s, -s.cSw)
    BY <1>3, <2>5, OpenedGoes DEF y
  <2> QED
    BY <2>1, <2>4, <2>5, <2>6
<1>4. CASE k # a
  <2>1. a.cCoh.id # 0 /\ k = [PendingEnds(a) EXCEPT !.lSw = a.cSw, !.lCoh = a.cCoh.id,
                                                    !.cSw = NoWin, !.lookback = FALSE]
    BY <1>4 DEF FstBreaks
  <2> DEFINE e == PendingEnds(a)
  <2>2. e \in DocumentType /\ e.blank = <<>> /\ a.cSw \in Nat
    BY <1>2, <2>1, PendingEndsType
  <2>3. k = [e EXCEPT !.lSw = a.cSw, !.lCoh = a.cCoh.id, !.cSw = NoWin, !.lookback = FALSE]
    BY <2>1
  <2> HIDE DEF k, e
  <2>4. NoWin \in Nat /\ a.cCoh.id \in Int
    <3>1. a.cCoh.id \in Nat
      BY <1>2, CoreFacts DEF Going
    <3> QED
      BY <3>1 DEF NoWin
  <2>5. k \in DocumentType
    BY <2>2, <2>3, <2>4 DEF DocumentType
  <2>6. SameBody(e, k) /\ k.cSw = NoWin /\ k.lSw = a.cSw /\ k.blank = <<>>
    BY <2>2, <2>3, <2>4 DEF DocumentType, SameBody
  <2>7. Sound(k, top) /\ Written(k) = u
    BY <1>2, <2>1, <2>5, <2>6, ClosedGoes DEF e
  <2> QED
    BY <1>3, <2>5, <2>6, <2>7
<1>5. CASE k = a /\ a.cSw = NoWin
  <2>1. Core(a, top) /\ a.cCoh = NoCohort /\ Told(a) = u
    BY <1>2, <1>5 DEF Going
  <2>2. Sound(a, top) /\ Written(a) = u /\ a \in DocumentType
    BY <2>1, CoreFacts, NoCohortIs
  <2> QED
    BY <1>2, <1>3, <1>5, <2>2
<1>6. CASE k = a /\ a.cSw # NoWin
  <2>1. s = a
    BY <1>6 DEF FstWindow, a
  <2>2. ASSUME a.cCoh = NoCohort
        PROVE  a.lCoh # 0 /\ Anchored(a, a.lCoh)
    <3>1. r.next # <<>>
      BY <1>1, <1>2, <1>6, CoreFacts, SoundFacts
    <3>2. Buffered(r) # <<>>
      <4>1. Len(r.next) # 0 /\ Len(r.next) \in Nat
        BY <1>1, <3>1, CoreFacts, DocumentFields, EmptySeq
      <4>2. Len(Buffered(r)) = Queued(r) /\ Len(r.prev) \in Nat
        BY <1>1, CoreFacts, BufferedHolds, DocumentFields
      <4>3. Running(r) \in Nat
        BY DEF Running
      <4> DEFINE p == Len(r.prev)
                 c == Running(r)
                 m == Len(r.next)
      <4>5. p \in Nat /\ c \in Nat /\ m \in Nat /\ m # 0 /\ Queued(r) = p + c + m
        BY <4>1, <4>2, <4>3 DEF Queued
      <4> HIDE DEF p, c, m
      <4>6. Queued(r) # 0
        BY <4>5
      <4>4. Len(Buffered(r)) # 0
        BY <4>2, <4>6
      <4> QED
        BY <4>4
    <3>3. r.lCoh # 0
      BY <1>1, <3>2 DEF Tracked
    <3>4. Anchored(r, r.lCoh)
      BY <1>1, <1>2, <2>2, <3>3, NoCohortIs DEF Tracked
    <3> QED
      BY <1>2, <3>3, <3>4
  <2> QED
    BY <1>2, <1>6, <2>1, <2>2
<1> QED
  BY <1>3, <1>4, <1>5, <1>6

LEMMA FstIsTextStep ==
  ASSUME NEW top \in Nat, NEW r, NEW u, Follows(r, top, u), format = "fst",
         NEW s, s = FstIsText(r)
  PROVE  Follows(s, top, u) /\ s.cCoh = NoCohort
<1> DEFINE open == FstWindow(FstBreaks(LookedBack(r)))
           p == IF open.cCoh.id = 0 THEN open
                ELSE [Appended(open, open.cSw, open.cCoh) EXCEPT !.lCoh = open.cCoh.id]
           q == Drained(p)
<1>1. /\ Going(open, top, u) /\ open.cSw # NoWin /\ open.blank = <<>>
      /\ open.cCoh = NoCohort => open.lCoh # 0 /\ Anchored(open, open.lCoh)
  BY FstOpens
<1>2. s = [q EXCEPT !.cCoh = NoCohort]
  BY DEF FstIsText
<1> HIDE DEF open
<1>3. /\ Sound(p, top) /\ Written(p) = u /\ p.cSw # NoWin /\ p.blank = <<>>
      /\ p.lCoh # 0 /\ Anchored(p, p.lCoh)
  <2> DEFINE y == PendingAppended(open)
  <2>1. /\ Sound(y, top) /\ Written(y) = u /\ SameLocals(open, y) /\ y.cSw # NoWin
        /\ open.cCoh.id # 0 => Anchored(y, open.cCoh.id)
        /\ open.cCoh.id = 0 => y = open
    BY <1>1, PlacedPending
  <2>2. open.cCoh.id = 0 => open.cCoh = NoCohort
    BY <1>1, CoreFacts DEF Going
  <2>3. CASE open.cCoh.id = 0
    BY <1>1, <2>1, <2>2, <2>3
  <2>4. CASE open.cCoh.id # 0
    <3> DEFINE id == open.cCoh.id
    <3>1. y = Appended(open, open.cSw, open.cCoh)
      BY <2>4 DEF PendingAppended
    <3>2. p = [y EXCEPT !.lCoh = id]
      BY <2>4, <3>1
    <3>3. id \in Int
      BY <1>1, CoreFacts DEF Going
    <3> HIDE DEF p, y, id
    <3>4. y \in DocumentType /\ y.lSw \in 0 .. Len(y.win) /\ y.blank = <<>>
      BY <1>1, <2>1, SoundFacts DEF SameLocals
    <3>5. /\ p \in DocumentType /\ SameBody(y, p) /\ p.cSw = y.cSw /\ p.lSw = y.lSw
          /\ p.lCoh = id /\ p.blank = y.blank
      BY <3>2, <3>3, <3>4 DEF DocumentType, SameBody
    <3>6. Sound(p, top) /\ Written(p) = u /\ Anchored(p, id)
      BY <2>1, <2>4, <3>4, <3>5, SoundLocals DEF id
    <3> QED
      BY <2>1, <2>4, <3>4, <3>5, <3>6 DEF id
  <2> QED
    BY <2>3, <2>4
<1> HIDE DEF p
<1>4. /\ Sound(q, top) /\ Written(q) = u /\ SameLocals(p, q)
      /\ \A id : Anchored(p, id) => Anchored(q, id)
  BY <1>3, DrainedGoes
<1> HIDE DEF q
<1>5. /\ q.cSw # NoWin /\ q.blank = <<>> /\ q.lCoh # 0 /\ Anchored(q, q.lCoh)
  BY <1>3, <1>4 DEF SameLocals
<1>6. q \in DocumentType /\ q.lSw \in 0 .. Len(q.win)
  BY <1>4, SoundFacts
<1>7. /\ s \in DocumentType /\ SameBody(q, s) /\ s.cSw = q.cSw /\ s.lSw = q.lSw
      /\ s.lCoh = q.lCoh /\ s.blank = q.blank /\ s.cCoh = NoCohort
  BY <1>2, <1>6, NoCohortIs DEF DocumentType, SameBody
<1>8. Sound(s, top) /\ Written(s) = u /\ Anchored(s, s.lCoh)
  BY <1>4, <1>5, <1>6, <1>7, SoundLocals
<1>9. Core(s, top)
  BY <1>7, <1>8, NoCohortIs DEF Core, Bound
<1>10. Told(s) \o s.blank = u
  BY <1>5, <1>7, <1>8, <1>9, CoreFacts, NoCohortIs, ToldInOrder, TextConcat
<1>11. Tracked(s)
  BY <1>5, <1>7, <1>8 DEF Tracked
<1> QED
  BY <1>5, <1>7, <1>9, <1>10, <1>11, NoCohortIs DEF Follows, Pending

-----------------------------------------------------------------------------
(* Readers that append a cohort as they read it.                             *)

\* Nothing is pending: all that was told is written or held.
LEMMA SettledFollows ==
  ASSUME NEW top \in Nat, NEW s, Sound(s, top), s.cCoh = NoCohort, Pending(s),
         NEW u, Written(s) \o s.blank = u
  PROVE  Follows(s, top, u)
<1>1. Core(s, top)
  BY NoCohortIs DEF Core, Bound
<1>2. Told(s) = Written(s)
  BY <1>1, CoreFacts, NoCohortIs
<1> QED
  BY <1>1, <1>2 DEF Follows

LEMMA TwoItems ==
  ASSUME NEW S, NEW a \in S, NEW b \in S
  PROVE  <<a>> \o <<b>> = <<a, b>>
<1> DEFINE s == <<a>>
           u == <<a, b>>
<1>1. s \in Seq(S) /\ Len(s) = 1 /\ s[1] = a
  OBVIOUS
<1>2. u \in Seq(S) /\ Len(u) = 2 /\ u[1] = a /\ u[2] = b
  OBVIOUS
<1> HIDE DEF s, u
<1>3. Append(s, b) = s \o <<b>>
  BY <1>1, AppendIsConcat
<1>4. Append(s, b) \in Seq(S) /\ Len(Append(s, b)) = Len(s) + 1 /\ Append(s, b)[Len(s) + 1] = b
      /\ \A i \in 1 .. Len(s) : Append(s, b)[i] = s[i]
  <2>1. Append(s, b) \in Seq(S)
    BY <1>1
  <2>2. /\ Len(Append(s, b)) = Len(s) + 1 /\ Append(s, b)[Len(s) + 1] = b
        /\ \A i \in 1 .. Len(s) : Append(s, b)[i] = s[i]
    <3>1. s \in Seq(S)
      BY <1>1
    <3> QED
      BY ONLY <3>1, b \in S, AppendProperties
  <2> QED
    BY <2>1, <2>2
<1>5. Len(Append(s, b)) = 2 /\ Append(s, b)[1] = a /\ Append(s, b)[2] = b
  BY <1>1, <1>4
<1>6. \A i \in 1 .. 2 : Append(s, b)[i] = u[i]
  BY <1>2, <1>5
<1>7. Append(s, b) = u
  BY <1>2, <1>4, <1>5, <1>6, SeqEqual
<1> QED
  BY <1>3, <1>7 DEF s, u

LEMMA ThreeItems ==
  ASSUME NEW a \in Nat, NEW b \in Nat, NEW c \in Nat
  PROVE  <<a, b>> \o <<c>> = <<a, b, c>>
<1> DEFINE s == <<a, b>>
           u == <<a, b, c>>
<1>1. s \in Seq(Nat) /\ Len(s) = 2 /\ s[1] = a /\ s[2] = b
  OBVIOUS
<1>2. u \in Seq(Nat) /\ Len(u) = 3 /\ u[1] = a /\ u[2] = b /\ u[3] = c
  OBVIOUS
<1> HIDE DEF s, u
<1>3. Append(s, c) = s \o <<c>> /\ Append(s, c) \in Seq(Nat)
  BY <1>1, AppendIsConcat
<1>4. /\ Len(Append(s, c)) = Len(s) + 1 /\ Append(s, c)[Len(s) + 1] = c
      /\ \A i \in 1 .. Len(s) : Append(s, c)[i] = s[i]
  <2>1. s \in Seq(Nat)
    BY <1>1
  <2> QED
    BY ONLY <2>1, c \in Nat, AppendProperties
<1>5. /\ Len(Append(s, c)) = 3 /\ Append(s, c)[1] = a /\ Append(s, c)[2] = b
      /\ Append(s, c)[3] = c
  BY <1>1, <1>4
<1>6. \A i \in 1 .. 3 : Append(s, c)[i] = u[i]
  BY <1>2, <1>5
<1>7. Append(s, c) = u
  BY <1>2, <1>3, <1>5, <1>6, SeqEqual
<1> QED
  BY <1>3, <1>7 DEF s, u

LEMMA JoinTwo ==
  ASSUME NEW u \in Text, NEW a \in Nat, NEW b \in Nat
  PROVE  (u \o <<a>>) \o <<b>> = u \o <<a, b>>
<1> DEFINE p == <<a>>
           q == <<b>>
<1>1. p \in Text /\ q \in Text
  BY DEF Text
<1>2. p \o q = <<a, b>>
  BY TwoItems
<1> HIDE DEF p, q
<1>3. u \o (p \o q) = (u \o p) \o q
  BY ONLY u \in Text, <1>1, TextThree
<1> QED
  BY <1>2, <1>3 DEF p, q

LEMMA JoinThree ==
  ASSUME NEW u \in Text, NEW a \in Nat, NEW b \in Nat, NEW c \in Nat
  PROVE  ((u \o <<a>>) \o <<b>>) \o <<c>> = u \o <<a, b, c>>
<1> DEFINE p == <<a, b>>
           q == <<c>>
<1>1. p \in Text /\ q \in Text
  BY DEF Text
<1>2. p \o q = <<a, b, c>>
  BY ThreeItems
<1>3. (u \o <<a>>) \o <<b>> = u \o p
  BY JoinTwo
<1> HIDE DEF p, q
<1>4. u \o (p \o q) = (u \o p) \o q
  BY ONLY u \in Text, <1>1, TextThree
<1> QED
  BY <1>2, <1>3, <1>4 DEF q

\* Cohort n, which says item i, goes to the window being filled.
Words(x, s, n, i) ==
  /\ Sound(s, n) /\ Written(s) = Written(x) \o <<i>> /\ Anchored(s, n) /\ s.lCoh = n
  /\ s.cSw = x.cSw /\ s.lSw = x.lSw /\ s.cCoh = x.cCoh /\ s.blank = x.blank
  /\ s.next = x.next /\ Len(s.win) = Len(x.win)

Joined(x, n, c) == [Appended(x, x.cSw, c) EXCEPT !.lCoh = n]

LEMMA WordGoes ==
  ASSUME NEW top \in Nat, NEW x, Sound(x, top), x.cSw # NoWin, NEW n, n = top + 1,
         NEW i \in Nat, NEW c \in CohortType, c.id = n, Says(c) = <<i>>,
         NEW s, s = Joined(x, n, c)
  PROVE  Words(x, s, n, i)
<1> DEFINE y == Appended(x, x.cSw, c)
<1>1. n \in Nat /\ n \in Int /\ n \in 1 .. n /\ top <= n /\ \A j \in 1 .. top : j # n
  OBVIOUS
<1>3. s = [y EXCEPT !.lCoh = n]
  BY DEF Joined
<1>4. Appends(x, y, c, top, n)
  BY <1>1, AppendedHolds
<1> HIDE DEF y
<1>5. /\ Sound(y, n) /\ Written(y) = Written(x) \o <<i>> /\ Anchored(y, n)
      /\ y.cSw = x.cSw /\ y.lSw = x.lSw /\ y.cCoh = x.cCoh /\ y.blank = x.blank
      /\ y.next = x.next /\ Len(y.win) = Len(x.win)
  BY <1>1, <1>4 DEF Appends, SameLocals, SameLists
<1>6. y \in DocumentType /\ y.lSw \in 0 .. Len(y.win)
  BY <1>5, SoundFacts
<1>7. /\ s \in DocumentType /\ SameBody(y, s) /\ s.cSw = y.cSw /\ s.lSw = y.lSw
      /\ s.cCoh = y.cCoh /\ s.lCoh = n /\ s.blank = y.blank
  BY <1>1, <1>3, <1>6 DEF DocumentType, SameBody
<1>8. Sound(s, n) /\ Written(s) = Written(y) /\ Anchored(s, n)
  BY <1>5, <1>6, <1>7, SoundLocals
<1> QED
  BY <1>5, <1>7, <1>8 DEF Words, SameBody

\* The cohort of a line or a unit of its own.
LEMMA CohortGoes ==
  ASSUME NEW top \in Nat, NEW x, Sound(x, top), x.cSw # NoWin,
         NEW kinds \in Kinds, NEW n, n = top + 1, NEW s, s = Joined(x, n, CohortOf(n, kinds))
  PROVE  Words(x, s, n, n)
<1> DEFINE c == CohortOf(n, kinds)
<1>1. n \in Nat /\ c \in CohortType /\ c.id = n /\ Says(c) = <<n>>
  BY CohortOfIs
<1>2. s = Joined(x, n, c)
  OBVIOUS
<1> HIDE DEF c
<1> QED
  BY <1>1, <1>2, WordGoes

\* A cohort that stands for another item than the one it is numbered after.
Renamed(n, i, kinds) == [CohortOf(n, kinds) EXCEPT !.ids = <<i>>]

LEMMA RenamedIs ==
  ASSUME NEW n \in Nat, NEW i \in Nat, NEW kinds \in Kinds,
         NEW c, c = Renamed(n, i, kinds)
  PROVE  c \in CohortType /\ c.id = n /\ Says(c) = <<i>>
<1> DEFINE o == CohortOf(n, kinds)
           t == <<i>>
<1>1. o \in CohortType /\ o.id = n /\ o.text = <<>>
  BY CohortOfIs
<1>2. t \in Text
  BY DEF Text
<1>3. c = [o EXCEPT !.ids = t]
  BY DEF Renamed
<1> HIDE DEF o, t
<1>4. c \in CohortType /\ c.id = n /\ c.ids = t /\ c.text = <<>>
  BY <1>1, <1>2, <1>3 DEF CohortType
<1>5. Says(c) = t
  BY <1>2, <1>4, TextConcat DEF Says
<1> QED
  BY <1>4, <1>5 DEF t

LEMMA LineWordGoes ==
  ASSUME NEW top \in Nat, NEW x, Sound(x, top), x.cSw # NoWin, NEW kinds \in Kinds,
         NEW n, n = top + 1, NEW i \in Nat, NEW s, s = PlaintextWord(x, n, i, kinds)
  PROVE  Words(x, s, n, i)
<1> DEFINE c == Renamed(n, i, kinds)
<1>1. n \in Nat /\ c \in CohortType /\ c.id = n /\ Says(c) = <<i>>
  BY RenamedIs
<1>2. s = Joined(x, n, c)
  BY DEF PlaintextWord, Joined, Renamed
<1> HIDE DEF c
<1> QED
  BY <1>1, <1>2, WordGoes

\* A window is opened where there is none.
LEMMA PlaintextOpens ==
  ASSUME NEW top \in Nat, NEW x, Sound(x, top), NEW s, s = PlaintextWindow(x)
  PROVE  /\ Sound(s, top) /\ Written(s) = Written(x) /\ s.cSw # NoWin
         /\ s.cCoh = x.cCoh /\ s.blank = x.blank
<1>1. CASE x.cSw # NoWin
  BY <1>1 DEF PlaintextWindow
<1>2. CASE x.cSw = NoWin
  <2> DEFINE y == Opened(x)
  <2>1. /\ Sound(y, top) /\ Written(y) = Written(x) /\ y.cSw # NoWin
        /\ y.cCoh = x.cCoh /\ y.blank = x.blank
    BY OpenedHolds
  <2>2. s = [y EXCEPT !.lCoh = -y.cSw, !.lookback = FALSE]
    BY <1>2 DEF PlaintextWindow
  <2> HIDE DEF y
  <2>3. y \in DocumentType /\ y.lSw \in 0 .. Len(y.win)
    BY <2>1, SoundFacts
  <2>4. -y.cSw \in Int
    BY <2>3 DEF DocumentType
  <2>5. /\ s \in DocumentType /\ SameBody(y, s) /\ s.cSw = y.cSw /\ s.lSw = y.lSw
        /\ s.cCoh = y.cCoh /\ s.blank = y.blank
    BY <2>2, <2>3, <2>4 DEF DocumentType, SameBody
  <2> QED
    BY <2>1, <2>3, <2>5, SoundLocals
<1> QED
  BY <1>1, <1>2

\* The word just placed is the last one read.
LineGoes(e, k, v) ==
  /\ Sound(e, k) /\ Written(e) = v /\ e.cSw # NoWin /\ e.cCoh = NoCohort
  /\ e.blank = <<>> /\ e.lCoh = k /\ Anchored(e, k)

LEMMA LineFollows ==
  ASSUME NEW k \in Nat, k # 0, NEW e, NEW v, LineGoes(e, k, v), format = "plaintext"
  PROVE  Follows(e, k, v)
<1>1. Written(e) \o e.blank = v
  BY SoundFacts, TextConcat DEF LineGoes
<1>2. Tracked(e)
  BY DEF Tracked, LineGoes
<1>3. Pending(e)
  BY <1>2 DEF Pending, LineGoes
<1> QED
  BY <1>1, <1>3, SettledFollows DEF LineGoes

LEMMA NextWordGoes ==
  ASSUME NEW k \in Nat, NEW e, NEW v, LineGoes(e, k, v), NEW kinds \in Kinds,
         NEW i \in Nat, NEW m, m = k + 1, NEW s, s = PlaintextWord(e, m, i, kinds)
  PROVE  LineGoes(s, m, v \o <<i>>)
<1>1. Words(e, s, m, i)
  BY LineWordGoes DEF LineGoes
<1> QED
  BY <1>1 DEF Words, LineGoes

PlaintextNext(r, n, words, kinds) ==
  LET start == Drained(PlaintextWindow(LookedBack(r)))
      first == PlaintextWord(start, n, words[1], kinds[1])
      second == PlaintextWord(first, n + 1, words[2], kinds[2])
      third == PlaintextWord(second, n + 2, words[3], kinds[3])
  IN  CASE Len(words) = 1 -> first
        [] Len(words) = 2 -> second
        [] Len(words) = 3 -> third

LEMMA PlaintextStep ==
  ASSUME NEW top \in Nat, NEW r, NEW u, Follows(r, top, u), format = "plaintext",
         NEW n, n = top + 1, NEW words \in PlaintextCut(n),
         NEW kinds \in [1 .. Len(words) -> Kinds], NEW s, s = PlaintextNext(r, n, words, kinds)
  PROVE  Len(words) \in Nat /\ Follows(s, top + Len(words), u \o words)
<1> DEFINE a == LookedBack(r)
           w == PlaintextWindow(a)
           q == Drained(w)
           f == PlaintextWord(q, n, words[1], kinds[1])
           g == PlaintextWord(f, n + 1, words[2], kinds[2])
           h == PlaintextWord(g, n + 2, words[3], kinds[3])
<1>1. /\ Going(r, top, u) /\ r.cCoh = NoCohort /\ r.blank = <<>> /\ u \in Text
  BY Starts DEF Follows, Pending
<1>2. /\ Len(words) = 1 => s = f
      /\ Len(words) = 2 => s = g
      /\ Len(words) = 3 => s = h
  BY DEF PlaintextNext
<1>3. Going(a, top, u) /\ a.cCoh = NoCohort /\ a.blank = <<>>
  BY <1>1, LookedBackGoes
<1> HIDE DEF a
<1>4. Sound(a, top) /\ Written(a) = u
  BY <1>3, CoreFacts, NoCohortIs DEF Going
<1>5. /\ Sound(w, top) /\ Written(w) = u /\ w.cSw # NoWin
      /\ w.cCoh = NoCohort /\ w.blank = <<>>
  BY <1>3, <1>4, PlaintextOpens
<1> HIDE DEF w
<1>6. /\ Sound(q, top) /\ Written(q) = u /\ q.cSw # NoWin
      /\ q.cCoh = NoCohort /\ q.blank = <<>>
  BY <1>5, DrainedGoes DEF SameLocals
<1> HIDE DEF q
<1>7. /\ Len(words) \in 1 .. 3 /\ 1 \in 1 .. Len(words)
      /\ \A k \in 1 .. Len(words) : words[k] \in Nat
  <2>1. words = <<n>> \/ words = <<n, n + 1>> \/ words = <<n, n + 2, n + 1>>
    BY DEF PlaintextCut
  <2>2. CASE words = <<n>>
    BY <2>2
  <2>3. CASE words = <<n, n + 1>>
    BY <2>3
  <2>4. CASE words = <<n, n + 2, n + 1>>
    BY <2>4
  <2> QED
    BY <2>1, <2>2, <2>3, <2>4
<1>8. \A k \in 1 .. Len(words) : kinds[k] \in Kinds
  OBVIOUS
<1>9. /\ n \in Nat /\ n + 1 \in Nat /\ n + 2 \in Nat /\ n # 0 /\ n + 1 # 0 /\ n + 2 # 0
      /\ n + 2 = (n + 1) + 1 /\ top + 1 = n /\ top + 2 = n + 1 /\ top + 3 = n + 2
  OBVIOUS
<1>10. LineGoes(f, n, u \o <<words[1]>>)
  <2>1. words[1] \in Nat /\ kinds[1] \in Kinds
    BY <1>7, <1>8
  <2>2. Words(q, f, n, words[1])
    BY <1>6, <2>1, LineWordGoes
  <2> QED
    BY <1>6, <2>2 DEF Words, LineGoes
<1> HIDE DEF f
<1>11. ASSUME Len(words) \in 2 .. 3
       PROVE  LineGoes(g, n + 1, (u \o <<words[1]>>) \o <<words[2]>>)
  <2>1. 2 \in 1 .. Len(words)
    BY <1>11
  <2>2. words[2] \in Nat /\ kinds[2] \in Kinds
    BY <1>7, <1>8, <2>1
  <2> QED
    BY <1>9, <1>10, <2>2, NextWordGoes
<1> HIDE DEF g
<1>12. ASSUME Len(words) = 3
       PROVE  LineGoes(h, n + 2, ((u \o <<words[1]>>) \o <<words[2]>>) \o <<words[3]>>)
  <2>1. 3 \in 1 .. Len(words) /\ Len(words) \in 2 .. 3
    BY <1>12
  <2>2. words[3] \in Nat /\ kinds[3] \in Kinds
    BY <1>7, <1>8, <2>1
  <2> QED
    BY <1>9, <1>11, <2>1, <2>2, NextWordGoes
<1> HIDE DEF h
<1>15. CASE Len(words) = 1
  <2>1. words = <<words[1]>>
    BY <1>15 DEF PlaintextCut
  <2>2. Follows(f, n, u \o <<words[1]>>)
    BY <1>9, <1>10, LineFollows
  <2> QED
    BY <1>2, <1>9, <1>15, <2>1, <2>2
<1>16. CASE Len(words) = 2
  <2>1. words = <<words[1], words[2]>> /\ words[1] \in Nat /\ words[2] \in Nat
    BY <1>16 DEF PlaintextCut
  <2>2. LineGoes(g, n + 1, u \o <<words[1], words[2]>>)
    <3>1. (u \o <<words[1]>>) \o <<words[2]>> = u \o <<words[1], words[2]>>
      BY ONLY <1>1, <2>1, JoinTwo
    <3>2. Len(words) \in 2 .. 3
      BY <1>16
    <3>3. LineGoes(g, n + 1, (u \o <<words[1]>>) \o <<words[2]>>)
      BY <1>11, <3>2
    <3> QED
      BY <3>1, <3>3
  <2>3. Follows(g, n + 1, u \o <<words[1], words[2]>>)
    BY <1>9, <2>2, LineFollows
  <2> QED
    BY <1>2, <1>9, <1>16, <2>1, <2>3
<1>17. CASE Len(words) = 3
  <2>1. /\ words = <<words[1], words[2], words[3]>>
        /\ words[1] \in Nat /\ words[2] \in Nat /\ words[3] \in Nat
    BY <1>17 DEF PlaintextCut
  <2>2. LineGoes(h, n + 2, u \o <<words[1], words[2], words[3]>>)
    <3>1. ((u \o <<words[1]>>) \o <<words[2]>>) \o <<words[3]>>
            = u \o <<words[1], words[2], words[3]>>
      BY ONLY <1>1, <2>1, JoinThree
    <3> QED
      BY <1>12, <1>17, <3>1
  <2>3. Follows(h, n + 2, u \o <<words[1], words[2], words[3]>>)
    BY <1>9, <2>2, LineFollows
  <2> QED
    BY <1>2, <1>9, <1>17, <2>1, <2>3
<1> QED
  BY <1>7, <1>15, <1>16, <1>17

-----------------------------------------------------------------------------
(* The Matxin reader.                                                        *)

LEMMA MatxinBreaksGoes ==
  ASSUME NEW top \in Nat, NEW x, NEW u, Going(x, top, u), NEW s, s = MatxinBreaks(x)
  PROVE  /\ Going(s, top, u) /\ s.blank = x.blank
         /\ s = x \/ x.cCoh.id # 0
<1>1. CASE s = x
  BY <1>1
<1>2. CASE s # x
  <2>1. s = MatxinClosed(x) /\ x.cCoh.id # 0
    BY <1>2 DEF MatxinBreaks
  <2> DEFINE y == PendingEnds(x)
  <2>2. y \in DocumentType /\ y.blank = x.blank /\ x.cSw \in Nat
    BY <2>1, PendingEndsType
  <2>3. s = [y EXCEPT !.lSw = x.cSw, !.cSw = NoWin, !.cCoh = NoCohort]
    BY <2>1 DEF MatxinClosed
  <2> HIDE DEF y
  <2>4. /\ s \in DocumentType /\ SameBody(y, s) /\ s.cSw = NoWin /\ s.lSw = x.cSw
        /\ s.cCoh = NoCohort /\ s.blank = y.blank
    <3>1. NoWin \in Nat /\ NoCohort \in CohortType
      BY NoCohortIs DEF NoWin
    <3>2. s \in DocumentType
      BY <2>2, <2>3, <3>1 DEF DocumentType
    <3> QED
      BY <2>2, <2>3, <3>1 DEF DocumentType, SameBody
  <2> QED
    BY <2>1, <2>2, <2>4, ClosedGoes DEF y
<1> QED
  BY <1>1, <1>2

\* A new window begins with the blanks before its first cohort.
LEMMA TextHolds ==
  ASSUME NEW r, NEW b, Sound(r, b), NEW w, w = Len(r.win),
         w \in Printed(r) + 1 .. Len(r.win), Items(r.win[w]) = <<>>, NEW t \in Text,
         NEW s, s = WithWindow(r, w, [r.win[w] EXCEPT !.text = t])
  PROVE  /\ Sound(s, b) /\ Written(s) = Written(r) \o t /\ SameLocals(r, s)
         /\ SameLists(r, s)
<1> DEFINE y == r.win[w]
           x == [y EXCEPT !.text = t]
<1>1. /\ r \in DocumentType /\ InTurn(r) /\ Printed(r) \in Nat /\ Len(r.win) \in Nat
      /\ Unflushed(r) /\ Filling(r)
  BY SoundFacts DEF Sound
<1>2. w \in 1 .. Len(r.win) /\ w \in Nat
  BY <1>1
<1>3. y \in WindowType /\ y.flush = <<>> /\ Headed(y, w, b)
  BY <1>1, <1>2, SoundFacts DEF Unflushed
<1>4. s = WithWindow(r, w, x)
  OBVIOUS
<1>5. Items(y) = <<>>
  OBVIOUS
<1> HIDE DEF y
<1>6. x \in WindowType /\ x.text = t /\ x.cohorts = y.cohorts /\ x.flush = <<>>
  BY <1>3 DEF WindowType
<1> HIDE DEF x
<1>7. Items(x) = t
  <2>1. /\ y.text \in Text /\ Said(y.cohorts) \in Text
    BY <1>3, ItemsText
  <2>2. y.text \o Said(y.cohorts) \in Text
    BY <2>1, TextConcat
  <2>3. y.text \o Said(y.cohorts) = <<>>
    BY <1>3, <1>5, <2>2, TextConcat DEF Items
  <2> DEFINE g == y.text
             h == Said(y.cohorts)
  <2>4. g \in Seq(Nat) /\ h \in Seq(Nat) /\ g \o h = <<>>
    BY <2>1, <2>3 DEF Text
  <2> HIDE DEF g, h
  <2>5. h = <<>>
    BY <2>4
  <2>6. t \o h = t /\ t \o <<>> = t
    BY <2>5, TextConcat
  <2> QED
    BY <1>6, <2>5, <2>6 DEF Items, h
<1>8. /\ s \in DocumentType /\ SameLists(r, s) /\ s.out = r.out
      /\ s.win[w] = x /\ \A v \in 1 .. Len(r.win) : v # w => s.win[v] = r.win[v]
      /\ s.cSw = r.cSw /\ s.lSw = r.lSw /\ s.cCoh = r.cCoh /\ s.lCoh = r.lCoh
      /\ s.blank = r.blank
  BY ONLY <1>1, <1>2, <1>4, <1>6, WindowReplaced
<1>9. InTurn(s) /\ Printed(s) = Printed(r) /\ Documents(r, s) /\ Len(s.win) = Len(r.win)
  BY <1>1, <1>8, ListsSame DEF Documents, SameLists
<1>10. Written(s) = Written(r) \o t
  <2>1. Items(s.win[w]) = Items(r.win[w]) \o t
    BY <1>5, <1>7, <1>8, TextConcat DEF y
  <2>2. \A v \in Printed(r) + 1 .. w - 1 : v \in 1 .. Len(r.win) /\ v # w
    BY <1>1, <1>2
  <2>3. \A v \in Printed(r) + 1 .. w - 1 : Items(s.win[v]) = Items(r.win[v])
    BY <1>8, <2>2
  <2>4. \A v \in w + 1 .. Len(r.win) : Items(r.win[v]) = <<>> /\ Items(s.win[v]) = <<>>
    BY <1>1
  <2> QED
    BY <1>8, <1>9, <2>1, <2>3, <2>4, WrittenMore
<1>11. Sound(s, b)
  <2>1. ASSUME NEW v \in 1 .. Len(r.win)
        PROVE  Headed(s.win[v], v, b)
    <3>1. CASE v # w
      BY <1>8, <3>1, SoundFacts
    <3>2. CASE v = w
      <4>1. Headed(x, w, b)
        BY ONLY <1>3, <1>6 DEF Headed
      <4> QED
        BY <1>8, <3>2, <4>1
    <3> QED
      BY <3>1, <3>2
  <2>2. Windows(s, b)
    BY <1>9, <2>1 DEF Windows
  <2>3. Unflushed(s)
    <3>1. \A v \in Printed(r) + 1 .. Len(r.win) : v \in 1 .. Len(r.win)
      BY <1>1
    <3> QED
      BY <1>1, <1>6, <1>8, <1>9, <3>1 DEF Unflushed
  <2>4. Filling(s)
    BY <1>1, <1>8, <1>9 DEF Filling, SameLists
  <2> QED
    BY <1>8, <1>9, <2>2, <2>3, <2>4 DEF Sound
<1> QED
  BY <1>8, <1>10, <1>11 DEF SameLocals

\* The window being filled, still silent, takes the pending blanks t.
TakesText(y, s, b, t) ==
  /\ Sound(s, b) /\ Written(s) = Written(y) \o t
  /\ s.cSw = y.cSw /\ s.lSw = y.lSw /\ s.cCoh = y.cCoh /\ s.lCoh = y.lCoh
  /\ s.blank = <<>>

LEMMA WindowTextHolds ==
  ASSUME NEW y, NEW b, Sound(y, b), y.cSw # NoWin, Items(y.win[y.cSw]) = <<>>,
         NEW t \in Text,
         NEW s, s = [y EXCEPT !.win[y.cSw].text = t, !.blank = <<>>]
  PROVE  TakesText(y, s, b, t)
<1> DEFINE w == y.cSw
           z == WithWindow(y, w, [y.win[w] EXCEPT !.text = t])
<1>1. /\ w = Len(y.win) /\ w \in Printed(y) + 1 .. Len(y.win) /\ w \in 1 .. Len(y.win)
  BY FillingLast
<1>2. y \in DocumentType
  BY SoundFacts
<1>3. s = [z EXCEPT !.blank = <<>>]
  BY <1>1, <1>2 DEF WithWindow, DocumentType
<1>4. /\ Sound(z, b) /\ Written(z) = Written(y) \o t /\ SameLocals(y, z)
  <2> HIDE DEF z
  <2>1. z = WithWindow(y, w, [y.win[w] EXCEPT !.text = t]) /\ Items(y.win[w]) = <<>>
    BY DEF z
  <2> HIDE DEF w
  <2> QED
    BY ONLY Sound(y, b), <1>1, <2>1, t \in Text, TextHolds
<1> HIDE DEF z, w
<1>5. z \in DocumentType /\ z.lSw \in 0 .. Len(z.win)
  BY <1>4, SoundFacts
<1>6. /\ s \in DocumentType /\ SameBody(z, s) /\ s.cSw = z.cSw /\ s.lSw = z.lSw
      /\ s.cCoh = z.cCoh /\ s.lCoh = z.lCoh /\ s.blank = <<>>
  BY <1>3, <1>5, EmptyText DEF DocumentType, SameBody
<1>7. Sound(s, b) /\ Written(s) = Written(z)
  BY <1>4, <1>5, <1>6, SoundLocals
<1> QED
  BY <1>4, <1>6, <1>7 DEF TakesText, SameLocals

\* Where the blanks before a window go with it.
LEMMA MatxinWindowGoes ==
  ASSUME NEW top \in Nat, NEW x, NEW u, Going(x, top, u), NEW v, v = u \o x.blank,
         x.cSw # NoWin => x.blank = <<>>, NEW s, s = MatxinWindow(x)
  PROVE  Going(s, top, v) /\ s.cSw # NoWin /\ s.blank = <<>>
<1>0. /\ x.blank \in Text /\ u \in Text /\ x \in DocumentType /\ InTurn(x)
  BY CoreFacts, ToldInOrder DEF Going
<1>1. CASE x.cSw # NoWin
  <2>1. s = x /\ x.blank = <<>>
    BY <1>1 DEF MatxinWindow
  <2>2. v = u
    BY <1>0, <2>1, TextConcat
  <2> QED
    BY <1>1, <2>1, <2>2
<1>2. CASE x.cSw = NoWin
  <2> DEFINE y == Opened(x)
             z == [y EXCEPT !.win[y.cSw].text = x.blank, !.blank = <<>>]
  <2>1. x.cCoh = NoCohort /\ Sound(x, top) /\ Written(x) = u
    BY <1>2, CoreFacts, NoCohortIs DEF Going
  <2>2. /\ Sound(y, top) /\ Written(y) = u /\ y.cSw # NoWin /\ y.blank = x.blank
        /\ Items(y.win[y.cSw]) = <<>> /\ y.cCoh = NoCohort
    BY <2>1, OpenedHolds
  <2>3. s = [z EXCEPT !.cCoh = NoCohort]
    BY <1>2 DEF MatxinWindow
  <2> HIDE DEF y
  <2>4. TakesText(y, z, top, x.blank)
    BY <1>0, <2>2, WindowTextHolds
  <2> HIDE DEF z
  <2>5. /\ Sound(z, top) /\ Written(z) = v /\ z.cSw # NoWin /\ z.blank = <<>>
        /\ z.cCoh = NoCohort
    BY <2>2, <2>4 DEF TakesText
  <2>6. z \in DocumentType /\ z.lSw \in 0 .. Len(z.win)
    BY <2>5, SoundFacts
  <2>7. s = z
    BY <2>3, <2>5, <2>6 DEF DocumentType
  <2>8. Core(z, top)
    BY <2>5, NoCohortIs DEF Core, Bound
  <2>9. Told(z) = v
    BY <2>5, <2>8, CoreFacts, NoCohortIs
  <2> QED
    BY <2>5, <2>7, <2>8, <2>9 DEF Going
<1> QED
  BY <1>1, <1>2

MatxinNext(r, n, kinds) ==
  [Drained(PendingAppended(MatxinWindow(MatxinBreaks(r))))
     EXCEPT !.cCoh = CohortOf(n, kinds)]

LEMMA MatxinStep ==
  ASSUME NEW top \in Nat, NEW r, NEW u, Follows(r, top, u), format = "matxin",
         NEW kinds \in Kinds, NEW n, n = top + 1,
         NEW s, s = MatxinNext(r, n, kinds)
  PROVE  Follows(s, n, u \o <<n>>)
<1> DEFINE t == Told(r)
           a == MatxinBreaks(r)
           w == MatxinWindow(a)
           q == Drained(PendingAppended(w))
<1>6. s = [q EXCEPT !.cCoh = CohortOf(n, kinds)]
  BY DEF MatxinNext
<1>1. Going(r, top, t) /\ t \in Text /\ r.blank \in Text /\ u = t \o r.blank
  BY Starts DEF Follows
<1> HIDE DEF t
<1>2. Going(a, top, t) /\ a.blank = r.blank /\ (a = r \/ r.cCoh.id # 0)
  BY <1>1, MatxinBreaksGoes
<1> HIDE DEF a
<1>3. a.cSw # NoWin => a.blank = <<>>
  <2>1. CASE r.cCoh.id # 0
    BY <1>2, <2>1 DEF Follows, Pending
  <2>2. CASE r.cCoh.id = 0
    <3>1. r.win = <<>> /\ a = r
      BY <1>2, <2>2 DEF Follows, Pending
    <3>2. Sound(r, Bound(r, top))
      BY DEF Follows, Core
    <3>3. r.cSw # NoWin => r.cSw = 0
      BY <3>1, <3>2, SoundFacts
    <3> QED
      BY <3>1, <3>3 DEF NoWin
  <2> QED
    BY <2>1, <2>2
<1>4. u = t \o a.blank
  BY <1>1, <1>2
<1>5. Going(w, top, u) /\ w.cSw # NoWin /\ w.blank = <<>>
  BY <1>2, <1>3, <1>4, MatxinWindowGoes
<1> HIDE DEF w
<1>7. Sound(q, top)
  BY <1>5, PlacedPending, DrainedGoes
<1>8. n \in Nat /\ CohortOf(n, kinds) \in CohortType
  BY CohortOfIs
<1> HIDE DEF q
<1>9. /\ s \in DocumentType /\ SameBody(q, s) /\ s.cSw = q.cSw /\ s.lSw = q.lSw
      /\ s.blank = q.blank /\ s.cCoh = CohortOf(n, kinds)
  <2>1. q \in DocumentType
    BY <1>7, SoundFacts
  <2> QED
    BY <1>6, <1>8, <2>1 DEF DocumentType, SameBody
<1>10. Awaits(w, s, top, u, n)
  BY <1>5, <1>9, PendingGoes DEF q
<1>11. /\ Core(s, n) /\ Told(s) = u \o <<n>> /\ s.cCoh.id = n /\ s.cSw # NoWin
       /\ s.blank = <<>>
  BY <1>5, <1>10 DEF Awaits
<1>12. Pending(s)
  BY <1>11 DEF Pending
<1>13. Told(s) \o s.blank = u \o <<n>>
  <2>1. Told(s) \in Text
    BY <1>8, <1>11, CoreFacts, ToldInOrder
  <2> QED
    BY <1>11, <2>1, TextConcat
<1> QED
  BY <1>11, <1>12, <1>13 DEF Follows

\* Locals that say nothing of the windows, and further blanks t where the
\* reader keeps blanks.
BlankText(r, s, t) ==
  /\ s \in DocumentType /\ SameBody(r, s)
  /\ s.cSw = r.cSw /\ s.lSw = r.lSw /\ s.cCoh = r.cCoh /\ s.lCoh = r.lCoh
  /\ s.blank = r.blank \o t

LEMMA BlankStep ==
  ASSUME NEW top \in Nat, NEW r, NEW u, Follows(r, top, u), NEW t \in Text,
         t = <<>> \/ format = "apertium" \/ (format = "matxin" /\ r.cCoh.id = 0),
         NEW s, BlankText(r, s, t)
  PROVE  Follows(s, top, u \o t)
<1>1. /\ Core(r, top) /\ Pending(r) /\ Told(r) \in Text /\ r.blank \in Text
      /\ u = Told(r) \o r.blank
  BY Starts DEF Follows
<1>2. Sound(r, Bound(r, top)) /\ r.lSw \in 0 .. Len(r.win)
  BY <1>1, SoundFacts DEF Core
<1>3. /\ Sound(s, Bound(r, top)) /\ Written(s) = Written(r)
      /\ \A id : Anchored(r, id) => Anchored(s, id)
  <2> DEFINE b == Bound(r, top)
  <2>1. Sound(r, b) /\ s \in DocumentType /\ SameBody(r, s)
        /\ s.cSw \in {NoWin, r.cSw} /\ s.lSw \in 0 .. Len(r.win)
    BY <1>2 DEF BlankText
  <2> HIDE DEF b
  <2>2. /\ Sound(s, b) /\ Written(s) = Written(r)
        /\ \A id : Anchored(r, id) => Anchored(s, id)
    BY ONLY <2>1, SoundLocals
  <2> QED
    BY <2>2 DEF b
<1>4. Core(s, top) /\ Told(s) = Told(r)
  BY <1>1, <1>3 DEF Core, Bound, Told, BlankText
<1>5. Tracked(r) => Tracked(s)
  <2>1. Buffered(s) = Buffered(r)
    BY DEF Buffered, BlankText, SameBody
  <2> QED
    BY <1>3, <2>1 DEF Tracked, BlankText
<1>6. Pending(s)
  <2>1. t = <<>> => s.blank = r.blank
    BY <1>1, TextConcat DEF BlankText
  <2>2. s.win = r.win
    BY DEF BlankText, SameBody
  <2> QED
    BY <1>1, <1>5, <2>1, <2>2 DEF Pending, BlankText
<1>7. Told(s) \o s.blank = u \o t
  <2> DEFINE v == Told(r)
             e == r.blank
  <2>1. v \in Text /\ e \in Text
    BY <1>1
  <2> HIDE DEF v, e
  <2>2. v \o (e \o t) = (v \o e) \o t
    BY <2>1, TextThree
  <2> QED
    BY <1>1, <1>4, <2>2 DEF BlankText, v, e
<1> QED
  BY <1>4, <1>6, <1>7 DEF Follows

\* A blank of the Matxin stream: after the pending cohort, or before any.
MatxinBlankNext(r, n) ==
  CASE r.cCoh.id # 0 -> [r EXCEPT !.cCoh.text = Append(@, n)]
    [] r.cCoh.id = 0 /\ r.lSw # NoWin -> TextBefore(r, r.lSw, <<n>>)
    [] OTHER -> [r EXCEPT !.blank = Append(@, n)]

LEMMA MatxinBlankStep ==
  ASSUME NEW top \in Nat, NEW r, NEW u, Follows(r, top, u), format = "matxin",
         NEW n, n = top + 1, NEW s, s = MatxinBlankNext(r, n)
  PROVE  Follows(s, n, u \o <<n>>)
<1>1. /\ Core(r, top) /\ Pending(r) /\ Told(r) \in Text /\ r.blank \in Text
      /\ u = Told(r) \o r.blank /\ u \in Text
  BY Starts DEF Follows
<1>2. /\ r \in DocumentType /\ Sound(r, Bound(r, top)) /\ r.cCoh \in CohortType
      /\ n \in Nat
  BY <1>1, SoundFacts DEF Core
<1>3. <<n>> \in Text
  BY <1>2 DEF Text
<1>4. CASE r.cCoh.id # 0
  <2>1. s = [r EXCEPT !.cCoh.text = r.cCoh.text \o <<n>>]
    <3>1. r.cCoh.text \in Seq(Nat)
      BY <1>2 DEF CohortType, Text
    <3>2. Append(r.cCoh.text, n) = r.cCoh.text \o <<n>>
      BY <1>2, <3>1, AppendIsConcat
    <3> QED
      BY <1>4, <3>2 DEF MatxinBlankNext
  <2> DEFINE b == Bound(r, top)
  <2>2. Sound(r, b)
    BY <1>2
  <2> HIDE DEF b
  <2>3. LengthensPending(r, s, b, <<n>>)
    BY ONLY <1>3, <2>1, <2>2, PendingTextHolds
  <2>4. /\ Sound(s, b) /\ Told(s) = Told(r) \o <<n>> /\ s.cCoh.id = r.cCoh.id
        /\ s.blank = r.blank /\ s.cSw = r.cSw
    BY <2>3 DEF LengthensPending
  <2>5. r.blank = <<>> /\ u = Told(r)
    BY <1>1, <1>4, TextConcat DEF Pending
  <2>6. Core(s, n)
    <3>1. r.cCoh.id \in 0 .. n
      BY <1>1 DEF Core
    <3>2. b = r.cCoh.id - 1
      BY <1>4 DEF b, Bound
    <3> QED
      BY <1>4, <2>4, <3>1, <3>2 DEF Core, Bound
  <2>7. Pending(s)
    <3>1. r.cSw # NoWin
      BY <1>1, <1>4, NoCohortIs DEF Pending
    <3> QED
      BY <1>1, <1>4, <2>4, <2>5, <3>1 DEF Pending
  <2>8. Told(s) \o s.blank = u \o <<n>>
    <3>1. u \o <<n>> \in Text
      BY <1>1, <1>3, TextConcat
    <3>2. Told(s) = u \o <<n>> /\ s.blank = <<>>
      BY <2>4, <2>5
    <3>3. (u \o <<n>>) \o <<>> = u \o <<n>>
      BY <3>1, TextConcat
    <3> QED
      BY <3>2, <3>3
  <2> QED
    BY <2>6, <2>7, <2>8 DEF Follows
<1>5. CASE r.cCoh.id = 0
  <2>1. s = [r EXCEPT !.blank = Append(r.blank, n)]
    BY <1>1, <1>5 DEF MatxinBlankNext, Pending
  <2>2. Append(r.blank, n) = r.blank \o <<n>> /\ r.blank \o <<n>> \in Text
    <3>1. r.blank \in Seq(Nat)
      BY <1>1 DEF Text
    <3>2. Append(r.blank, n) = r.blank \o <<n>>
      BY <1>2, <3>1, AppendIsConcat
    <3> QED
      BY <1>1, <1>3, <3>2, TextConcat
  <2>3. BlankText(r, s, <<n>>)
    BY <1>2, <2>1, <2>2 DEF BlankText, DocumentType, SameBody
  <2>4. Follows(s, top, u \o <<n>>)
    BY <1>3, <1>5, <2>3, BlankStep
  <2> QED
    BY <2>4, FollowsMore
<1> QED
  BY <1>4, <1>5

-----------------------------------------------------------------------------
(* Readers that append a cohort at once: where the last cohort is.           *)

LEMMA AnchoredFollows ==
  ASSUME NEW k \in Nat, k # 0, NEW e, Sound(e, k), e.cCoh = NoCohort, e.lCoh = k,
         Anchored(e, k), format \in {"plaintext", "jsonl", "apertium"},
         e.blank = <<>>
  PROVE  Follows(e, k, Written(e))
<1>1. Written(e) \o e.blank = Written(e)
  BY SoundFacts, TextConcat
<1>2. Tracked(e)
  BY DEF Tracked
<1>3. Pending(e)
  BY <1>2 DEF Pending
<1> QED
  BY <1>1, <1>3, SettledFollows

\* Window w of x has the changes a and b.
Changing(x, w, a, b) == [x EXCEPT !.win[w].set = a, !.win[w].rem = b]
Changed(y, a, b) == [y EXCEPT !.set = a, !.rem = b]

LEMMA VariablesSet ==
  ASSUME NEW x \in DocumentType, NEW w \in 1 .. Len(x.win), NEW a \in Nat, NEW b \in BOOLEAN
  PROVE  Changing(x, w, a, b) = WithWindow(x, w, Changed(x.win[w], a, b))
<1> DEFINE f == x.win
           y == [f[w] EXCEPT !.set = a]
           z == [y EXCEPT !.rem = b]
           g == [f EXCEPT ![w] = y]
           h == [g EXCEPT ![w] = [g[w] EXCEPT !.rem = b]]
<1>1. f \in Seq(WindowType) /\ w \in 1 .. Len(f)
  BY DEF DocumentType
<1>2. w \in DOMAIN f
  BY <1>1
<1>3. g[w] = y
  BY <1>2
<1>4. h = [g EXCEPT ![w] = z]
  BY <1>3
<1>5. h = [f EXCEPT ![w] = z]
  <2> HIDE DEF f, y, z
  <2> QED
    BY <1>2, <1>4
<1>6. [x EXCEPT !.win[w].set = a] = [x EXCEPT !.win = g]
  OBVIOUS
<1>7. [x EXCEPT !.win[w].set = a].win = g
  BY <1>6 DEF DocumentType
<1>8. [x EXCEPT !.win[w].set = a, !.win[w].rem = b] = [x EXCEPT !.win = h]
  <2>1. [x EXCEPT !.win[w].set = a, !.win[w].rem = b]
          = [[x EXCEPT !.win = g] EXCEPT !.win = h]
    BY <1>6, <1>7
  <2> HIDE DEF g, h
  <2> QED
    BY <2>1 DEF DocumentType
<1> QED
  BY <1>5, <1>8 DEF WithWindow, Changing, Changed

\* Window w, with changes of the variables, holds what it held.
Changes(x, z, w, b) ==
  /\ z \in DocumentType /\ Sound(z, b) /\ Written(z) = Written(x)
  /\ SameLists(x, z) /\ SameLocals(x, z) /\ Items(z.win[w]) = Items(x.win[w])

LEMMA ChangingHolds ==
  ASSUME NEW x, NEW b, Sound(x, b), NEW w \in 1 .. Len(x.win),
         NEW a \in Nat, NEW c \in BOOLEAN
  PROVE  Changes(x, Changing(x, w, a, c), w, b)
<1> DEFINE y == Changed(x.win[w], a, c)
           z == Changing(x, w, a, c)
<1>1. x \in DocumentType /\ InTurn(x) /\ x.win[w] \in WindowType
  BY SoundFacts
<1>2. z = WithWindow(x, w, y)
  BY <1>1, VariablesSet
<1>3. /\ y \in WindowType /\ y.cohorts = x.win[w].cohorts /\ y.text = x.win[w].text
      /\ y.flush = x.win[w].flush
  BY <1>1 DEF WindowType, Changed
<1> HIDE DEF y, z
<1>4. /\ z \in DocumentType /\ SameLists(x, z) /\ z.out = x.out
      /\ z.win[w] = y /\ \A v \in 1 .. Len(x.win) : v # w => z.win[v] = x.win[v]
      /\ z.cSw = x.cSw /\ z.lSw = x.lSw /\ z.cCoh = x.cCoh /\ z.lCoh = x.lCoh
      /\ z.blank = x.blank
  BY ONLY w \in 1 .. Len(x.win), <1>1, <1>2, <1>3, WindowReplaced
<1>5. Documents(x, z) /\ SameLocals(x, z)
  BY <1>1, <1>4, ListsSame DEF Documents, SameLocals
<1>6. \A v \in 1 .. Len(x.win) : SameWindow(x.win[v], z.win[v])
  <2>1. SameWindow(x.win[w], z.win[w])
    BY <1>3, <1>4 DEF SameWindow
  <2> QED
    BY <1>4, <2>1, SameWindowItself
<1>7. Alike(x, z)
  BY <1>4, <1>5, <1>6, AlikeWindows
<1>8. Sound(z, b) /\ Written(z) = Written(x)
  <2>1. x.cSw # NoWin => z.next # <<>>
    BY <1>4, SoundFacts DEF SameLists
  <2> QED
    BY <1>7, <2>1, AlikeSound DEF Alike
<1>9. Items(z.win[w]) = Items(x.win[w])
  BY <1>3, <1>4 DEF Items
<1> QED
  BY <1>4, <1>5, <1>8, <1>9 DEF Changes, z

\* A window takes the changes of the variables.
TakesVariables(x, s, b) ==
  /\ Sound(s, b) /\ Written(s) = Written(x) /\ SameLocals(x, s) /\ SameLists(x, s)
  /\ s.cSw # NoWin /\ Items(s.win[s.cSw]) = Items(x.win[x.cSw])

LEMMA WithVariablesHolds ==
  ASSUME NEW x, NEW b, Sound(x, b), x.cSw # NoWin, NEW s, s = WithVariables(x)
  PROVE  TakesVariables(x, s, b)
<1> DEFINE w == x.cSw
           z == Changing(x, w, x.set, x.rem)
<1>1. w \in 1 .. Len(x.win)
  BY FillingLast
<1>2. x.set \in Nat /\ x.rem \in BOOLEAN
  BY SoundFacts DEF DocumentType
<1>3. s = [z EXCEPT !.set = NoVar, !.rem = FALSE]
  BY DEF WithVariables, Changing
<1>4. Changes(x, z, w, b)
  <2> DEFINE a == x.set
             c == x.rem
  <2>1. a \in Nat /\ c \in BOOLEAN
    BY <1>2
  <2> HIDE DEF a, c, w, z
  <2>2. Changes(x, Changing(x, w, a, c), w, b)
    BY ONLY Sound(x, b), <1>1, <2>1, ChangingHolds
  <2> QED
    BY <2>2 DEF a, c, z
<1> HIDE DEF z
<1>5. /\ z \in DocumentType /\ Sound(z, b) /\ Written(z) = Written(x)
      /\ SameLists(x, z) /\ SameLocals(x, z) /\ Items(z.win[w]) = Items(x.win[w])
  BY <1>4 DEF Changes
<1>6. z.lSw \in 0 .. Len(z.win)
  BY <1>5, SoundFacts
<1>7. /\ s \in DocumentType /\ SameBody(z, s) /\ s.cSw = z.cSw /\ s.lSw = z.lSw
      /\ s.cCoh = z.cCoh /\ s.lCoh = z.lCoh /\ s.blank = z.blank
  <2>1. NoVar \in Nat
    BY DEF NoVar
  <2> QED
    BY <1>3, <1>5, <2>1 DEF DocumentType, SameBody
<1>8. Sound(s, b) /\ Written(s) = Written(z)
  BY <1>5, <1>6, <1>7, SoundLocals
<1>9. SameLists(x, s) /\ SameLocals(x, s)
  BY <1>5, <1>7 DEF SameLists, SameLocals, SameBody
<1>10. s.cSw = w /\ s.cSw # NoWin /\ s.win = z.win
  BY <1>5, <1>7 DEF SameLocals, SameBody
<1> QED
  BY <1>5, <1>8, <1>9, <1>10 DEF TakesVariables

-----------------------------------------------------------------------------
(* The reader of JSON lines.                                                 *)

LEMMA JsonlOpens ==
  ASSUME NEW b, NEW x, Sound(x, b), NEW s, s = JsonlWindow(x)
  PROVE  /\ Sound(s, b) /\ Written(s) = Written(x) /\ s.cSw # NoWin
         /\ s.cCoh = x.cCoh /\ s.blank = x.blank
<1>1. CASE x.cSw # NoWin
  BY <1>1 DEF JsonlWindow
<1>2. CASE x.cSw = NoWin
  <2> DEFINE y == Opened(x)
  <2>1. /\ Sound(y, b) /\ Written(y) = Written(x) /\ y.cSw # NoWin
        /\ y.cCoh = x.cCoh /\ y.blank = x.blank
    BY OpenedHolds
  <2>2. s = WithVariables(y)
    BY <1>2 DEF JsonlWindow
  <2> HIDE DEF y
  <2>3. TakesVariables(y, s, b)
    BY <2>1, <2>2, WithVariablesHolds
  <2> QED
    BY <2>1, <2>3 DEF TakesVariables, SameLocals
<1> QED
  BY <1>1, <1>2

\* A cohort that breaks its window gets <<<.
Closes(x, s, b, id, t) ==
  /\ s.cSw = NoWin /\ s.lSw = t
  /\ Sound(s, b) /\ Written(s) = Written(x) /\ Anchored(s, id)
  /\ s.cCoh = x.cCoh /\ s.lCoh = x.lCoh /\ s.blank = x.blank /\ s.next # <<>>

LEMMA ClosesHolds ==
  ASSUME NEW b, NEW id, NEW x, Sound(x, b), Anchored(x, id), x.cSw # NoWin,
         NEW t \in {x.lSw, x.cSw},
         NEW s, s = [EndedLast(x, x.cSw) EXCEPT !.lSw = t, !.cSw = NoWin]
  PROVE  Closes(x, s, b, id, t)
<1> DEFINE y == EndedLast(x, x.cSw)
<1>1. x.cSw = Len(x.win) /\ x.cSw \in 1 .. Len(x.win) /\ x.next # <<>>
  BY FillingLast
<1>2. /\ x \in DocumentType /\ x.lSw \in 0 .. Len(x.win) /\ Len(x.win) \in Nat
  BY SoundFacts
<1>3. /\ Sound(y, b) /\ Written(y) = Written(x) /\ SameLists(x, y) /\ SameLocals(x, y)
      /\ Anchored(y, id)
  <2>1. /\ Alike(x, y) /\ Sound(y, b) /\ SameLists(x, y)
        /\ \A j : Anchored(x, j) => Anchored(y, j)
    BY <1>1, EndedLastHolds
  <2> QED
    BY <2>1 DEF Alike
<1>y. s = [y EXCEPT !.lSw = t, !.cSw = NoWin]
  OBVIOUS
<1> HIDE DEF y
<1>4. t \in 0 .. Len(y.win) /\ t \in Nat /\ NoWin \in Nat /\ y \in DocumentType
  <2>1. Len(y.win) = Len(x.win) /\ y \in DocumentType
    BY <1>3, SoundFacts DEF SameLists
  <2> QED
    BY <1>1, <1>2, <2>1 DEF NoWin
<1>5. /\ s \in DocumentType /\ SameBody(y, s) /\ s.cSw = NoWin /\ s.lSw = t
      /\ s.cCoh = y.cCoh /\ s.lCoh = y.lCoh /\ s.blank = y.blank
  <2>1. s \in DocumentType
    BY <1>4, <1>y DEF DocumentType
  <2> QED
    BY <1>4, <1>y, <2>1 DEF DocumentType, SameBody
<1>6. Sound(s, b) /\ Written(s) = Written(y) /\ Anchored(s, id)
  <2>1. s.lSw \in 0 .. Len(y.win) /\ s.cSw \in {NoWin, y.cSw}
    BY <1>4, <1>5
  <2> QED
    BY ONLY <1>3, <1>5, <2>1, SoundLocals
<1>7. s.next # <<>>
  BY <1>1, <1>3, <1>5 DEF SameLists, SameBody
<1> QED
  BY <1>3, <1>5, <1>6, <1>7 DEF Closes, SameLocals

\* The next window that waits is run; one more waits if a window is being filled.
LEMMA RunNextGoes ==
  ASSUME NEW b, NEW id, NEW r, Sound(r, b), Anchored(r, id), r.next # <<>>,
         r.cSw = NoWin \/ Len(r.next) > NumWindows,
         NEW s, s = RunCurrent(ShuffledDown(r))
  PROVE  /\ Sound(s, b) /\ Written(s) = Written(r) /\ SameLocals(r, s)
         /\ Anchored(s, id)
<1>1. r \in DocumentType /\ InTurn(r) /\ Len(r.next) \in Nat
  BY SoundFacts
<1>2. RunsNext(r, s)
  BY <1>1, RunNextHolds
<1>3. r.cSw # NoWin => s.next # <<>>
  <2>1. ASSUME r.cSw # NoWin PROVE s.next # <<>>
    <3>1. Len(r.next) > 1
      BY <1>1, <2>1, LimitsAssumption
    <3>2. Len(s.next) = Len(r.next) - 1
      BY <1>2 DEF RunsNext
    <3>3. Len(s.next) # 0
      <4> DEFINE m == Len(r.next)
                 k == Len(s.next)
      <4>1. m \in Nat /\ m > 1 /\ k = m - 1
        BY <1>1, <3>1, <3>2
      <4> HIDE DEF m, k
      <4>2. k # 0
        BY ONLY <4>1
      <4> QED
        BY <4>2 DEF k
    <3> QED
      BY <3>3, EmptySeq
  <2> QED
    BY <2>1
<1> QED
  BY <1>2, <1>3, AlikeSound DEF RunsNext, Alike

JsonlCohortNext(r, n, kinds) ==
  LET open == JsonlWindow(r)
      has == [Appended(open, open.cSw, CohortOf(n, kinds)) EXCEPT !.lCoh = n]
      closed == IF LastBreaks(has)
                THEN [EndedLast(has, has.cSw) EXCEPT !.cSw = NoWin] ELSE has
  IN  IF closed.cSw = NoWin \/ Len(closed.next) > NumWindows
      THEN RunCurrent(ShuffledDown(closed)) ELSE closed

LEMMA JsonlCohortStep ==
  ASSUME NEW top \in Nat, NEW r, NEW u, Follows(r, top, u), format = "jsonl",
         NEW kinds \in Kinds, NEW n, n = top + 1,
         NEW s, s = JsonlCohortNext(r, n, kinds)
  PROVE  Follows(s, n, u \o <<n>>)
<1> DEFINE o == JsonlWindow(r)
           h == Joined(o, n, CohortOf(n, kinds))
           e == EndedLast(h, h.cSw)
           c == IF LastBreaks(h) THEN [e EXCEPT !.cSw = NoWin] ELSE h
<1>1. s = IF c.cSw = NoWin \/ Len(c.next) > NumWindows
          THEN RunCurrent(ShuffledDown(c)) ELSE c
  BY DEF JsonlCohortNext, Joined
<1>2. /\ Going(r, top, u) /\ r.cCoh = NoCohort /\ r.blank = <<>> /\ u \in Text
  BY Starts DEF Follows, Pending
<1>3. Sound(r, top) /\ Written(r) = u
  BY <1>2, CoreFacts, NoCohortIs DEF Going
<1>4. /\ Sound(o, top) /\ Written(o) = u /\ o.cSw # NoWin
      /\ o.cCoh = NoCohort /\ o.blank = <<>>
  BY <1>2, <1>3, JsonlOpens
<1> HIDE DEF o
<1>5. Words(o, h, n, n)
  BY <1>4, CohortGoes
<1> HIDE DEF h
<1>6. /\ Sound(h, n) /\ Written(h) = u \o <<n>> /\ h.cSw # NoWin /\ h.next # <<>>
      /\ h.cCoh = NoCohort /\ h.blank = <<>> /\ h.lCoh = n /\ Anchored(h, n)
  <2>1. /\ Sound(h, n) /\ Written(h) = u \o <<n>> /\ h.cSw # NoWin
        /\ h.cCoh = NoCohort /\ h.blank = <<>> /\ h.lCoh = n /\ Anchored(h, n)
    BY <1>4, <1>5 DEF Words
  <2> QED
    BY <2>1, FillingLast
<1>7. /\ Sound(c, n) /\ Written(c) = u \o <<n>> /\ c.next # <<>>
      /\ c.cCoh = NoCohort /\ c.blank = <<>> /\ c.lCoh = n /\ Anchored(c, n)
  <2>1. CASE ~ LastBreaks(h)
    BY <1>6, <2>1
  <2>2. CASE LastBreaks(h)
    <3> DEFINE t == h.lSw
               z == [e EXCEPT !.lSw = t, !.cSw = NoWin]
    <3>1. t \in {h.lSw, h.cSw}
      OBVIOUS
    <3>2. Closes(h, z, n, n, t)
      <4>1. z = [EndedLast(h, h.cSw) EXCEPT !.lSw = t, !.cSw = NoWin]
        OBVIOUS
      <4> HIDE DEF z, t
      <4> QED
        BY ONLY <1>6, <3>1, <4>1, ClosesHolds
    <3>3. e \in DocumentType /\ e.lSw = h.lSw
      <4>1. h.cSw \in 1 .. Len(h.win)
        BY <1>6, FillingLast
      <4>2. Alike(h, e)
        BY <1>6, <4>1, EndedLastHolds
      <4> QED
        BY <4>2 DEF Alike, Documents, SameLocals
    <3>4. c = z
      <4> HIDE DEF e
      <4> QED
        BY <2>2, <3>3 DEF DocumentType
    <3> QED
      BY <1>6, <3>2, <3>4 DEF Closes
  <2> QED
    BY <2>1, <2>2
<1> HIDE DEF c
<1>8. n \in Nat /\ n # 0
  OBVIOUS
<1>9. /\ Sound(s, n) /\ Written(s) = u \o <<n>> /\ s.cCoh = NoCohort /\ s.blank = <<>>
      /\ s.lCoh = n /\ Anchored(s, n)
  <2>1. CASE ~ (c.cSw = NoWin \/ Len(c.next) > NumWindows)
    BY <1>1, <1>7, <2>1
  <2>2. CASE c.cSw = NoWin \/ Len(c.next) > NumWindows
    <3>1. s = RunCurrent(ShuffledDown(c))
      BY <1>1, <2>2
    <3>2. /\ Sound(s, n) /\ Written(s) = Written(c) /\ SameLocals(c, s) /\ Anchored(s, n)
      BY <1>7, <2>2, <3>1, RunNextGoes
    <3> QED
      BY <1>7, <3>2 DEF SameLocals
  <2> QED
    BY <2>1, <2>2
<1> QED
  BY <1>8, <1>9, AnchoredFollows

-----------------------------------------------------------------------------
(* After a flush nothing is held.                                            *)

LEMMA ClearedFollows ==
  ASSUME NEW n \in Nat, NEW f \in DocumentType, InTurn(f), Windows(f, n),
         Buffered(f) = <<>>, Printed(f) = Len(f.win),
         NEW s \in DocumentType, SameBody(f, s), s.cSw = NoWin, s.lSw = NoWin,
         s.lCoh = 0 \/ format = "binary", s.cCoh = NoCohort, s.blank = <<>>,
         format \in {"jsonl", "apertium", "binary"}
  PROVE  Follows(s, n, Written(f))
<1>1. Documents(f, s) /\ Printed(s) = Printed(f) /\ Written(s) = Written(f)
  BY AlikeBody
<1>2. InTurn(s) /\ s.win = f.win /\ Len(s.win) \in Nat
  BY <1>1, DocumentFields DEF Documents, SameBody
<1>3. Sound(s, n)
  <2>1. Windows(s, n)
    BY <1>2 DEF Windows
  <2>2. Unflushed(s)
    BY <1>1, <1>2 DEF Unflushed
  <2>3. Filling(s)
    BY <1>2 DEF Filling, NoWin
  <2> QED
    BY <1>2, <2>1, <2>2, <2>3 DEF Sound
<1>4. Buffered(s) = <<>>
  BY DEF Buffered, SameBody
<1>5. Pending(s)
  BY <1>4 DEF Pending, Tracked
<1>6. Written(s) \o s.blank = Written(f)
  BY <1>1, <1>3, SoundFacts, TextConcat
<1> QED
  BY <1>3, <1>5, <1>6, SettledFollows

JsonlFlushNext(r, n) ==
  LET ends == IF r.cSw # NoWin /\ Last(r.win[r.cSw].cohorts).id = r.lCoh
              THEN EndedLast(Marked(r, n), r.cSw) ELSE Marked(r, n)
      left == [ends EXCEPT !.lCoh = 0, !.cSw = NoWin, !.lSw = NoWin]
  IN  [CommandItself(PrintedAll(RanAll(left)), r, n) EXCEPT !.globals = NoVar]

LEMMA JsonlFlushStep ==
  ASSUME NEW top \in Nat, NEW r, NEW u, Follows(r, top, u), format = "jsonl",
         NEW n, n = top + 1, NEW s, s = JsonlFlushNext(r, n)
  PROVE  Follows(s, n, u \o <<n>>)
<1> DEFINE m == Marked(r, n)
           e == IF r.cSw # NoWin /\ Last(r.win[r.cSw].cohorts).id = r.lCoh
                THEN EndedLast(m, r.cSw) ELSE m
           p == [e EXCEPT !.lCoh = 0, !.cSw = NoWin, !.lSw = NoWin]
           f == CommandItself(PrintedAll(RanAll(p)), r, n)
<1>1. s = [f EXCEPT !.globals = NoVar]
  BY DEF JsonlFlushNext
<1>2. /\ Going(r, top, u) /\ r.cCoh = NoCohort /\ r.blank = <<>> /\ u \in Text
  BY Starts DEF Follows, Pending
<1>3. /\ Sound(r, top) /\ Written(r) = u /\ r \in DocumentType /\ InTurn(r)
  BY <1>2, CoreFacts, NoCohortIs DEF Going
<1>4. n \in Nat /\ top <= n
  OBVIOUS
<1>5. Sound(r, n)
  BY <1>3, <1>4, SoundMore
<1>6. Marks(r, m, n, n)
  BY <1>4, <1>5, MarkedHolds
<1> HIDE DEF m
<1>7. /\ e \in DocumentType /\ InTurn(e) /\ Windows(e, n) /\ Written(e) = Written(m)
      /\ e.cCoh = NoCohort /\ e.blank = <<>>
  <2>1. CASE e = m
    BY <1>2, <1>6, <2>1 DEF Marks, SameLocals
  <2>2. CASE e # m
    <3>1. r.cSw # NoWin /\ e = EndedLast(m, r.cSw)
      BY <2>2
    <3>2. r.cSw \in 1 .. Len(r.win)
      BY <1>5, <3>1, FillingLast
    <3>3. r.cSw \in 1 .. Len(m.win) /\ m.win[r.cSw].cohorts # <<>>
      <4>1. r.win[r.cSw].cohorts # <<>>
        BY <1>5, <3>2, SoundFacts DEF Headed
      <4> QED
        BY <1>6, <3>2, <4>1 DEF Marks, SameLists
    <3>4. m \in DocumentType /\ InTurn(m) /\ Windows(m, n) /\ SameLocals(r, m)
      BY <1>6 DEF Marks
    <3>5. Alike(m, e)
      BY <3>1, <3>3, <3>4, EndedLastAlike
    <3>6. Windows(e, n)
      BY <3>4, <3>5, AlikeShaped
    <3> QED
      BY <1>2, <3>4, <3>5, <3>6 DEF Alike, Documents, SameLocals
  <2> QED
    BY <2>1, <2>2
<1> HIDE DEF e
<1>8. /\ p \in DocumentType /\ SameBody(e, p) /\ p.lCoh = 0 /\ p.cSw = NoWin
      /\ p.lSw = NoWin /\ p.cCoh = NoCohort /\ p.blank = <<>>
  <2>1. NoWin \in Nat /\ 0 \in Int
    BY DEF NoWin
  <2>2. p \in DocumentType
    BY <1>7, <2>1 DEF DocumentType
  <2>3. /\ p.lCoh = 0 /\ p.cSw = NoWin /\ p.lSw = NoWin /\ p.cCoh = e.cCoh
        /\ p.blank = e.blank
    BY <1>7 DEF DocumentType
  <2>4. SameBody(e, p)
    BY <1>7 DEF DocumentType, SameBody
  <2> QED
    BY <1>7, <2>2, <2>3, <2>4
<1>9. InTurn(p) /\ Written(p) = Written(m) /\ Windows(p, n)
  <2>1. Documents(e, p) /\ Written(p) = Written(e)
    BY <1>7, <1>8, AlikeBody
  <2> QED
    BY <1>7, <1>8, <2>1 DEF Documents, Windows, SameBody
<1> HIDE DEF p
<1>10. Flushes(r, p, f, n, n)
  <2>1. Written(p) = Written(Marked(r, n)) /\ Buffered(r) = Buffered(r)
    BY <1>9 DEF m
  <2>2. p \in DocumentType /\ InTurn(p) /\ Windows(p, n)
    BY <1>8, <1>9
  <2> HIDE DEF f
  <2>3. f = CommandItself(PrintedAll(RanAll(p)), r, n)
    BY DEF f
  <2> QED
    BY ONLY <1>3, <1>4, <1>5, <2>1, <2>2, <2>3, FlushedHolds
<1> HIDE DEF f
<1>11. /\ f \in DocumentType /\ InTurn(f) /\ Windows(f, n) /\ Buffered(f) = <<>>
       /\ Printed(f) = Len(f.win) /\ Written(f) = u \o <<n>>
       /\ f.lCoh = 0 /\ f.cSw = NoWin /\ f.lSw = NoWin /\ f.cCoh = NoCohort /\ f.blank = <<>>
  BY <1>3, <1>8, <1>10 DEF Flushes, SameLocals
<1>12. /\ s \in DocumentType /\ SameBody(f, s) /\ s.lCoh = 0 /\ s.cSw = NoWin
       /\ s.lSw = NoWin /\ s.cCoh = NoCohort /\ s.blank = <<>>
  <2>1. NoVar \in Nat
    BY DEF NoVar
  <2>2. s \in DocumentType
    BY <1>1, <1>11, <2>1 DEF DocumentType
  <2>3. /\ s.lCoh = f.lCoh /\ s.cSw = f.cSw /\ s.lSw = f.lSw /\ s.cCoh = f.cCoh
        /\ s.blank = f.blank
    BY <1>1, <1>11 DEF DocumentType
  <2>4. SameBody(f, s)
    BY <1>1, <1>11 DEF DocumentType, SameBody
  <2> QED
    BY <1>11, <2>2, <2>3, <2>4
<1>13. Follows(s, n, Written(f))
  BY <1>4, <1>11, <1>12, ClearedFollows
<1> QED
  BY <1>11, <1>13

-----------------------------------------------------------------------------
(* The Apertium reader.                                                      *)

\* Nothing is pending but blanks, and a window being filled leaves none.
Settled(x, top, u) ==
  /\ Sound(x, top) /\ x.cCoh = NoCohort /\ Written(x) \o x.blank = u
  /\ x.cSw # NoWin => x.blank = <<>>

LEMMA ApertiumStarts ==
  ASSUME NEW top \in Nat, NEW r, NEW u, Follows(r, top, u), format = "apertium"
  PROVE  /\ Sound(r, top) /\ Tracked(r) /\ r.cCoh = NoCohort /\ u \in Text
         /\ r.blank \in Text /\ Told(r) = Written(r) /\ Written(r) \o r.blank = u
<1>1. Going(r, top, Told(r)) /\ r.blank \in Text /\ u \in Text /\ r.cCoh = NoCohort
      /\ Tracked(r) /\ Told(r) \o r.blank = u
  BY Starts DEF Follows, Pending
<1>2. Sound(r, top) /\ Told(r) = Written(r)
  BY <1>1, CoreFacts, NoCohortIs DEF Going
<1> QED
  BY <1>1, <1>2

LEMMA NoBlankHolds ==
  ASSUME NEW r, NEW b, Sound(r, b), NEW s, s = [r EXCEPT !.blank = <<>>]
  PROVE  /\ Sound(s, b) /\ Written(s) = Written(r) /\ s.blank = <<>> /\ SameBody(r, s)
         /\ s.cSw = r.cSw /\ s.lSw = r.lSw /\ s.cCoh = r.cCoh /\ s.lCoh = r.lCoh
<1>1. r \in DocumentType /\ r.lSw \in 0 .. Len(r.win)
  BY SoundFacts
<1>2. /\ s \in DocumentType /\ s.cSw = r.cSw /\ s.lSw = r.lSw /\ s.cCoh = r.cCoh
      /\ s.lCoh = r.lCoh /\ s.blank = <<>> /\ SameBody(r, s)
  BY <1>1, EmptyText DEF DocumentType, SameBody
<1> QED
  BY <1>1, <1>2, SoundLocals

LEMMA SettledPlaced ==
  ASSUME NEW r, NEW b, Sound(r, b), Tracked(r), r.cCoh = NoCohort, NEW t \in Text,
         NEW z, z = PlacedText(r, t)
  PROVE  /\ Sound(z, b) /\ z.cCoh = NoCohort /\ Written(z) = Written(r) \o t
         /\ SameLists(r, z) /\ z.blank = r.blank /\ z.cSw = r.cSw
<1>1. Places(r, z, b, t)
  BY PlacedHolds
<1>2. z.cCoh = NoCohort
  BY <1>1 DEF Places
<1>3. Told(z) = Written(z) /\ Told(r) = Written(r)
  <2>1. Written(z) \in Text /\ Written(r) \in Text
    BY <1>1, SoundFacts DEF Places
  <2> QED
    BY <1>2, <2>1, NoCohortIs, TextConcat DEF Told
<1> QED
  BY <1>1, <1>2, <1>3 DEF Places

LEMMA ApertiumPlaces ==
  ASSUME NEW top \in Nat, NEW r, NEW u, Follows(r, top, u), format = "apertium",
         NEW s, s = ApertiumBlankPlaced(r)
  PROVE  Settled(s, top, u)
<1>1. /\ Sound(r, top) /\ Tracked(r) /\ r.cCoh = NoCohort /\ u \in Text
      /\ r.blank \in Text /\ Written(r) \o r.blank = u
  BY ApertiumStarts
<1>2. CASE r.lCoh = 0 /\ r.lSw = NoWin
  <2>1. s = r
    BY <1>2 DEF ApertiumBlankPlaced
  <2>2. r.cSw = NoWin
    <3>1. Buffered(r) = <<>>
      BY <1>1, <1>2 DEF Tracked
    <3>2. /\ r \in DocumentType /\ InTurn(r)
      BY <1>1, SoundFacts
    <3>3. Printed(r) = Len(r.win) /\ Len(r.win) \in Nat
      BY <3>1, <3>2, BackIs
    <3>4. r.cSw # NoWin => r.cSw \in Printed(r) + 1 .. Len(r.win)
      BY <1>1, FillingLast
    <3> QED
      BY <3>3, <3>4
  <2> QED
    BY <1>1, <2>1, <2>2 DEF Settled
<1>3. CASE ~ (r.lCoh = 0 /\ r.lSw = NoWin)
  <2> DEFINE z == PlacedText(r, r.blank)
  <2>1. s = [z EXCEPT !.blank = <<>>]
    BY <1>3 DEF ApertiumBlankPlaced
  <2>p. z = PlacedText(r, r.blank)
    OBVIOUS
  <2> HIDE DEF z
  <2>q. Sound(z, top) /\ z.cCoh = NoCohort /\ Written(z) = Written(r) \o r.blank
    <3>1. Sound(r, top) /\ Tracked(r) /\ r.cCoh = NoCohort /\ r.blank \in Text
      BY <1>1
    <3> QED
      BY <3>1, <2>p, SettledPlaced, Zenon
  <2>2. /\ Sound(z, top) /\ z.cCoh = NoCohort /\ Written(z) = u
    BY <1>1, <2>q
  <2>3. Sound(s, top) /\ Written(s) = u /\ s.blank = <<>> /\ s.cCoh = NoCohort
    BY <2>1, <2>2, NoBlankHolds
  <2> QED
    BY <1>1, <2>3, TextConcat DEF Settled
<1> QED
  BY <1>2, <1>3

LEMMA EndEnsuredHolds ==
  ASSUME NEW r, NEW b, Sound(r, b), NEW s, s = EndEnsured(r)
  PROVE  /\ Sound(s, b) /\ Written(s) = Written(r) /\ SameLists(r, s) /\ SameLocals(r, s)
         /\ Tracked(r) => Tracked(s)
<1>1. CASE r.lSw = NoWin
  <2>1. s = r
    BY <1>1 DEF EndEnsured
  <2> QED
    BY <2>1 DEF SameLists, SameLocals
<1>2. CASE r.lSw # NoWin
  <2> DEFINE w == r.lSw
  <2>1. s = EndedLast(r, w)
    BY <1>2 DEF EndEnsured
  <2>2. w \in 1 .. Len(r.win)
    BY <1>2, SoundFacts DEF NoWin
  <2> HIDE DEF w
  <2>3. /\ Alike(r, s) /\ Sound(s, b) /\ SameLists(r, s)
        /\ \A id : Anchored(r, id) => Anchored(s, id)
    BY <2>1, <2>2, EndedLastHolds
  <2>4. Tracked(r) => Tracked(s)
    <3>1. Buffered(s) = Buffered(r)
      BY <2>3 DEF Buffered, SameLists
    <3> QED
      BY <2>3, <3>1 DEF Tracked, Alike, SameLocals
  <2> QED
    BY <2>3, <2>4 DEF Alike
<1> QED
  BY <1>1, <1>2

LEMMA ApertiumOpens ==
  ASSUME NEW top \in Nat, NEW x, NEW u, Settled(x, top, u), NEW s, s = ApertiumWindow(x)
  PROVE  /\ Sound(s, top) /\ Written(s) = u /\ s.cSw # NoWin
         /\ s.cCoh = NoCohort /\ s.blank = <<>>
<1>0. /\ Sound(x, top) /\ x.cCoh = NoCohort /\ Written(x) \o x.blank = u
      /\ x.blank \in Text /\ Written(x) \in Text
  BY SoundFacts DEF Settled
<1>1. CASE x.cSw # NoWin
  <2>1. s = x /\ x.blank = <<>>
    BY <1>1 DEF ApertiumWindow, Settled
  <2>2. Written(x) = u
    BY <1>0, <2>1, TextConcat
  <2> QED
    BY <1>0, <1>1, <2>1, <2>2
<1>2. CASE x.cSw = NoWin
  <2> DEFINE e == EndEnsured(x)
             o == Opened(e)
             y == WithVariables(o)
  <2>1. s = [y EXCEPT !.win[y.cSw].text = x.blank, !.blank = <<>>]
    BY <1>2 DEF ApertiumWindow
  <2>2. Sound(e, top) /\ Written(e) = Written(x) /\ e.cCoh = NoCohort
    BY <1>0, EndEnsuredHolds DEF SameLocals
  <2> HIDE DEF e
  <2>3. /\ Sound(o, top) /\ Written(o) = Written(x) /\ o.cSw # NoWin
        /\ o.cCoh = NoCohort /\ Items(o.win[o.cSw]) = <<>>
    BY <2>2, OpenedHolds
  <2> HIDE DEF o
  <2>4. TakesVariables(o, y, top)
    BY <2>3, WithVariablesHolds
  <2> HIDE DEF y
  <2>5. /\ Sound(y, top) /\ Written(y) = Written(x) /\ y.cSw # NoWin
        /\ y.cCoh = NoCohort /\ Items(y.win[y.cSw]) = <<>>
    BY <2>3, <2>4 DEF TakesVariables, SameLocals
  <2> DEFINE t == x.blank
  <2>6. t \in Text /\ s = [y EXCEPT !.win[y.cSw].text = t, !.blank = <<>>]
    BY <1>0, <2>1
  <2> HIDE DEF t
  <2>7. TakesText(y, s, top, t)
    BY ONLY <2>5, <2>6, WindowTextHolds
  <2> QED
    BY <1>0, <2>5, <2>7 DEF TakesText, t
<1> QED
  BY <1>1, <1>2

ApertiumNext(r, n, kinds) ==
  LET open == ApertiumWindow(ApertiumBlankPlaced(r))
      has == [Appended(open, open.cSw, CohortOf(n, kinds)) EXCEPT !.lCoh = n]
      closed == IF LastBreaks(has)
                THEN [EndedLast(has, has.cSw) EXCEPT !.lSw = has.cSw, !.cSw = NoWin]
                ELSE has
  IN  IF closed.cSw = NoWin THEN Drained(closed) ELSE closed

LEMMA ApertiumUnitStep ==
  ASSUME NEW top \in Nat, NEW r, NEW u, Follows(r, top, u), format = "apertium",
         NEW kinds \in Kinds, NEW n, n = top + 1,
         NEW s, s = ApertiumNext(r, n, kinds)
  PROVE  Follows(s, n, u \o <<n>>)
<1> DEFINE a == ApertiumBlankPlaced(r)
           o == ApertiumWindow(a)
           h == Joined(o, n, CohortOf(n, kinds))
           c == IF LastBreaks(h)
                THEN [EndedLast(h, h.cSw) EXCEPT !.lSw = h.cSw, !.cSw = NoWin] ELSE h
<1>1. s = IF c.cSw = NoWin THEN Drained(c) ELSE c
  BY DEF ApertiumNext, Joined
<1>2. Settled(a, top, u)
  BY ApertiumPlaces
<1> HIDE DEF a
<1>3. /\ Sound(o, top) /\ Written(o) = u /\ o.cSw # NoWin
      /\ o.cCoh = NoCohort /\ o.blank = <<>>
  BY <1>2, ApertiumOpens
<1> HIDE DEF o
<1>4. Words(o, h, n, n)
  BY <1>3, CohortGoes
<1> HIDE DEF h
<1>5. /\ Sound(h, n) /\ Written(h) = u \o <<n>> /\ h.cSw # NoWin
      /\ h.cCoh = NoCohort /\ h.blank = <<>> /\ h.lCoh = n /\ Anchored(h, n)
  BY <1>3, <1>4 DEF Words
<1>6. /\ Sound(c, n) /\ Written(c) = u \o <<n>>
      /\ c.cCoh = NoCohort /\ c.blank = <<>> /\ c.lCoh = n /\ Anchored(c, n)
  <2>1. CASE ~ LastBreaks(h)
    BY <1>5, <2>1
  <2>2. CASE LastBreaks(h)
    <3> DEFINE t == h.cSw
    <3>1. t \in {h.lSw, h.cSw}
      OBVIOUS
    <3>2. c = [EndedLast(h, h.cSw) EXCEPT !.lSw = t, !.cSw = NoWin]
      BY <2>2
    <3> HIDE DEF c, t
    <3>3. Closes(h, c, n, n, t)
      BY ONLY <1>5, <3>1, <3>2, ClosesHolds
    <3> QED
      BY <1>5, <3>3 DEF Closes
  <2> QED
    BY <2>1, <2>2
<1> HIDE DEF c
<1>7. n \in Nat /\ n # 0
  OBVIOUS
<1>8. /\ Sound(s, n) /\ Written(s) = u \o <<n>> /\ s.cCoh = NoCohort /\ s.blank = <<>>
      /\ s.lCoh = n /\ Anchored(s, n)
  <2>1. CASE c.cSw # NoWin
    BY <1>1, <1>6, <2>1
  <2>2. CASE c.cSw = NoWin
    <3>1. s = Drained(c)
      BY <1>1, <2>2
    <3>2. /\ Sound(s, n) /\ Written(s) = Written(c) /\ SameLocals(c, s) /\ Anchored(s, n)
      BY <1>6, <3>1, DrainedGoes
    <3> QED
      BY <1>6, <3>2 DEF SameLocals
  <2> QED
    BY <2>1, <2>2
<1> QED
  BY <1>7, <1>8, AnchoredFollows

\* The windows after flush(n) has placed the blanks; n tells of a command.
Drops(r, z, top, u) ==
  /\ Sound(z, top) /\ z.cCoh = NoCohort /\ Written(z) = u /\ SameLists(r, z)

LEMMA ApertiumDrops ==
  ASSUME NEW top \in Nat, NEW r, NEW u, Follows(r, top, u), format = "apertium",
         NEW e, e = EndEnsured(r), NEW z, z = PlacedText(e, r.blank)
  PROVE  Drops(r, z, top, u) /\ Sound(e, top) /\ Tracked(e) /\ e.cCoh = NoCohort
<1>1. /\ Sound(r, top) /\ Tracked(r) /\ r.cCoh = NoCohort /\ u \in Text
      /\ r.blank \in Text /\ Written(r) \o r.blank = u
  BY ApertiumStarts
<1>2. /\ Sound(e, top) /\ Written(e) = Written(r) /\ SameLists(r, e) /\ Tracked(e)
      /\ e.cCoh = NoCohort
  BY <1>1, EndEnsuredHolds DEF SameLocals
<1>3. /\ Sound(z, top) /\ z.cCoh = NoCohort /\ Written(z) = Written(e) \o r.blank
      /\ SameLists(e, z)
  BY <1>1, <1>2, SettledPlaced
<1>4. SameLists(r, z)
  BY <1>2, <1>3 DEF SameLists
<1> QED
  BY <1>1, <1>2, <1>3, <1>4 DEF Drops

LEMMA PlacesTyped ==
  ASSUME NEW f \in DocumentType, NEW a \in Nat, NEW k \in Int, NEW b \in Nat
  PROVE  [f EXCEPT !.lSw = a, !.lCoh = k, !.cSw = b] \in DocumentType
  BY DEF DocumentType

LEMMA VariablesTyped ==
  ASSUME NEW f \in DocumentType, NEW a \in Nat, NEW k \in BOOLEAN, NEW b \in Nat
  PROVE  [f EXCEPT !.set = a, !.rem = k, !.globals = b] \in DocumentType
  BY DEF DocumentType

LEMMA ApertiumFlushStep ==
  ASSUME NEW top \in Nat, NEW r, NEW u, Follows(r, top, u), format = "apertium",
         NEW n, n = top + 1, NEW s, s = ApertiumFlush(r, <<n>>)
  PROVE  Follows(s, n, u \o <<n>>)
<1> DEFINE e == EndEnsured(r)
           t == r.blank
           z == PlacedText(e, t)
           m == Marked(z, n)
           p == [m EXCEPT !.blank = <<>>]
           f == CommandItself(PrintedAll(RanAll(p)), r, n)
<1>1. Drops(r, z, top, u) /\ Sound(e, top) /\ Tracked(e) /\ e.cCoh = NoCohort
  BY ApertiumDrops
<1>2. t \in Text /\ Sound(r, top)
  BY ApertiumStarts
<1>3. n \in Nat /\ top <= n /\ n # 0
  OBVIOUS
<1>4. PlacedText(Marked(e, n), t) = m
  <2> HIDE DEF e, t
  <2> QED
    BY <1>1, <1>2, <1>3, MarkedPlaced
<1>5. s = [f EXCEPT !.lSw = NoWin, !.lCoh = 0, !.cSw = NoWin, !.set = NoVar,
                    !.rem = FALSE, !.globals = NoVar]
  <2>1. <<n>> # <<>> /\ <<n>>[1] = n
    OBVIOUS
  <2> HIDE DEF f, p, m, e
  <2>2. p = [PlacedText(Marked(e, n), t) EXCEPT !.blank = <<>>]
    BY <1>4 DEF p
  <2>3. f = CommandItself(PrintedAll(RanAll(p)), r, n)
    BY DEF f
  <2> QED
    BY <2>1, <2>2, <2>3 DEF ApertiumFlush, e
<1> HIDE DEF e, t, z
<1>6. /\ Sound(z, top) /\ z.cCoh = NoCohort /\ Written(z) = u /\ SameLists(r, z)
  BY <1>1 DEF Drops
<1>7. Sound(z, n)
  BY <1>3, <1>6, SoundMore
<1>8. Marks(z, m, n, n)
  BY <1>3, <1>7, MarkedHolds
<1>9. m \in DocumentType /\ InTurn(m) /\ Windows(m, n) /\ m.cCoh = NoCohort
  BY <1>6, <1>8 DEF Marks, SameLocals
<1> HIDE DEF m
<1>10. p \in DocumentType /\ SameBody(m, p) /\ p.blank = <<>> /\ p.cCoh = NoCohort
  BY <1>9, EmptyText DEF DocumentType, SameBody
<1>11. InTurn(p) /\ Written(p) = Written(m) /\ Windows(p, n)
  <2>1. Documents(m, p) /\ Written(p) = Written(m)
    BY <1>9, <1>10, AlikeBody
  <2> QED
    BY <1>9, <1>10, <2>1 DEF Documents, Windows, SameBody
<1> HIDE DEF p
<1>12. Flushes(z, p, f, n, n)
  <2>1. Written(p) = Written(Marked(z, n)) /\ Buffered(r) = Buffered(z)
    BY <1>6, <1>11 DEF m, Buffered, SameLists
  <2>2. r \in DocumentType /\ InTurn(r)
    BY <1>2, SoundFacts
  <2> HIDE DEF f
  <2>3. f = CommandItself(PrintedAll(RanAll(p)), r, n)
    BY DEF f
  <2> QED
    BY ONLY <1>3, <1>7, <1>10, <1>11, <2>1, <2>2, <2>3, FlushedHolds
<1> HIDE DEF f
<1>13. /\ f \in DocumentType /\ InTurn(f) /\ Windows(f, n) /\ Buffered(f) = <<>>
       /\ Printed(f) = Len(f.win) /\ Written(f) = u \o <<n>>
       /\ f.cCoh = NoCohort /\ f.blank = <<>>
  BY <1>6, <1>10, <1>12 DEF Flushes, SameLocals
<1>14. /\ s \in DocumentType /\ SameBody(f, s) /\ s.lCoh = 0 /\ s.cSw = NoWin
       /\ s.lSw = NoWin /\ s.cCoh = NoCohort /\ s.blank = <<>>
  <2>1. NoVar \in Nat /\ NoWin \in Nat /\ 0 \in Int
    BY DEF NoVar, NoWin
  <2>2. s \in DocumentType
    <3> DEFINE g == [f EXCEPT !.lSw = NoWin, !.lCoh = 0, !.cSw = NoWin]
    <3>1. f \in DocumentType /\ s = [g EXCEPT !.set = NoVar, !.rem = FALSE, !.globals = NoVar]
      BY ONLY <1>5, <1>13 DEF DocumentType
    <3>2. g \in DocumentType
      BY ONLY <2>1, <3>1, PlacesTyped
    <3> HIDE DEF g
    <3> QED
      BY ONLY <2>1, <3>1, <3>2, VariablesTyped, FALSE \in BOOLEAN
  <2>3. /\ s.lCoh = 0 /\ s.cSw = NoWin /\ s.lSw = NoWin /\ s.cCoh = f.cCoh
        /\ s.blank = f.blank
    BY <1>5, <1>13 DEF DocumentType
  <2>4. SameBody(f, s)
    BY <1>5, <1>13 DEF DocumentType, SameBody
  <2> QED
    BY <1>13, <2>2, <2>3, <2>4
<1>15. Follows(s, n, Written(f))
  BY <1>3, <1>13, <1>14, ClearedFollows
<1> QED
  BY <1>13, <1>15

-----------------------------------------------------------------------------
(* The reader of the binary stream.                                          *)

BinaryNext(r, n, kinds, changes) ==
  LET new == Opened(r)
      w == new.cSw
      one == Appended(new, w, CohortOf(n, kinds[1]))
      two == Appended(one, w, CohortOf(n + 1, kinds[2]))
      has == CASE Len(kinds) = 0 -> new
               [] Len(kinds) = 1 -> EndedLast(one, w)
               [] Len(kinds) = 2 -> EndedLast(two, w)
      told == [has EXCEPT !.win[w].set = IF changes = "set" THEN n ELSE NoVar,
                          !.win[w].rem = changes = "rem",
                          !.cSw = NoWin, !.lSw = NoWin]
  IN  Drained(told)

LEMMA FedMore ==
  ASSUME NEW u \in Text, NEW n \in Nat
  PROVE  Append(u, n) = u \o <<n>> /\ <<n>> \in Text
<1>1. u \in Seq(Nat)
  BY DEF Text
<1>2. Append(u, n) = u \o <<n>>
  BY <1>1, AppendIsConcat
<1> QED
  BY <1>2 DEF Text

LEMMA TextInserted ==
  ASSUME NEW o \in Text, NEW l \in Text, NEW n \in Nat
  PROVE  InsertAt(o \o l, Len(o) + 1, n) = (o \o <<n>>) \o l
<1> DEFINE u == o \o l
           m == Len(o)
<1>1. o \in Seq(Nat) /\ l \in Seq(Nat) /\ u \in Seq(Nat)
  BY DEF Text
<1>2. /\ m \in Nat /\ Len(l) \in Nat /\ Len(u) = m + Len(l)
      /\ \A i \in 1 .. m : u[i] = o[i]
      /\ \A i \in 1 .. Len(l) : u[m + i] = l[i]
  BY <1>1, ConcatProperties
<1> HIDE DEF u, m
<1>3. SubSeq(u, 1, m) = o
  <2>1. /\ SubSeq(u, 1, m) \in Seq(Nat) /\ Len(SubSeq(u, 1, m)) = m
        /\ \A i \in 1 .. m : SubSeq(u, 1, m)[i] = u[i]
    BY <1>1, <1>2
  <2> QED
    BY <1>1, <1>2, <2>1, SeqEqual DEF m
<1>4. SubSeq(u, m + 1, Len(u)) = l
  <2> DEFINE z == SubSeq(u, m + 1, Len(u))
  <2>1. /\ z \in Seq(Nat) /\ Len(z) = Len(l)
        /\ \A i \in 1 .. Len(l) : z[i] = u[m + i]
    BY <1>1, <1>2
  <2> HIDE DEF z
  <2>2. \A i \in 1 .. Len(l) : z[i] = l[i]
    BY <1>2, <2>1
  <2>3. z = l
    BY <1>1, <2>1, <2>2, SeqEqual
  <2> QED
    BY <2>3 DEF z
<1>5. InsertAt(u, m + 1, n) = SubSeq(u, 1, m) \o <<n>> \o SubSeq(u, m + 1, Len(u))
  <2>1. (m + 1) - 1 = m
    BY <1>2
  <2> QED
    BY <2>1 DEF InsertAt
<1> QED
  BY <1>3, <1>4, <1>5 DEF u, m

LEMMA BinaryStarts ==
  ASSUME NEW top \in Nat, NEW r, NEW u, Follows(r, top, u), format = "binary"
  PROVE  /\ Sound(r, top) /\ r.cCoh = NoCohort /\ u \in Text /\ r.blank = <<>>
         /\ r.cSw = NoWin /\ Written(r) = u
<1>1. Going(r, top, u) /\ u \in Text /\ r.cCoh = NoCohort /\ r.blank = <<>> /\ r.cSw = NoWin
  BY Starts DEF Follows, Pending
<1> QED
  BY <1>1, CoreFacts, NoCohortIs DEF Going

LEMMA BinaryFollows ==
  ASSUME NEW n \in Nat, NEW s, Sound(s, n), s.cCoh = NoCohort, s.blank = <<>>,
         s.cSw = NoWin, format = "binary"
  PROVE  Follows(s, n, Written(s))
<1>1. Written(s) \o s.blank = Written(s)
  BY SoundFacts, TextConcat
<1>2. Pending(s)
  BY DEF Pending
<1> QED
  BY <1>1, <1>2, SettledFollows

\* Window w of a packet is the last one, and the document says v.
Packed(x, w, n, v) ==
  /\ Sound(x, n) /\ Written(x) = v /\ x.cSw = w /\ w # NoWin
  /\ x.cCoh = NoCohort /\ x.blank = <<>>

LEMMA PacketGrows ==
  ASSUME NEW top \in Nat, NEW x, NEW w, NEW v, Packed(x, w, top, v), NEW kinds \in Kinds,
         NEW n, n = top + 1, NEW s, s = Appended(x, w, CohortOf(n, kinds))
  PROVE  Packed(s, w, n, v \o <<n>>)
<1> DEFINE c == CohortOf(n, kinds)
<1>1. n \in Nat /\ n \in 1 .. n /\ top <= n /\ s = Appended(x, x.cSw, c)
  BY DEF Packed
<1>2. c \in CohortType /\ c.id = n /\ Says(c) = <<n>>
  BY <1>1, CohortOfIs
<1> HIDE DEF c
<1>3. Appends(x, s, c, top, n)
  BY <1>1, <1>2, AppendedHolds DEF Packed
<1> QED
  BY <1>2, <1>3 DEF Appends, SameLocals, Packed

LEMMA PacketEnds ==
  ASSUME NEW n \in Nat, NEW x, NEW w, NEW v, Packed(x, w, n, v), NEW s, s = EndedLast(x, w)
  PROVE  Packed(s, w, n, v)
<1>1. w \in 1 .. Len(x.win)
  BY FillingLast DEF Packed
<1>2. Alike(x, s) /\ Sound(s, n) /\ SameLists(x, s)
  BY <1>1, EndedLastHolds DEF Packed
<1> QED
  BY <1>2 DEF Alike, SameLocals, Packed

\* The window takes its changes of the variables, and a waiting one may run.
LEMMA PacketDrained ==
  ASSUME NEW n \in Nat, NEW h, NEW w, NEW u, Packed(h, w, n, u), format = "binary",
         NEW v \in Nat, NEW x \in BOOLEAN, NEW s,
         s = Drained([Changing(h, w, v, x) EXCEPT !.cSw = NoWin, !.lSw = NoWin])
  PROVE  Follows(s, n, u)
<1> DEFINE z == Changing(h, w, v, x)
           t == [z EXCEPT !.cSw = NoWin, !.lSw = NoWin]
<1>1. w \in 1 .. Len(h.win)
  BY FillingLast DEF Packed
<1>2. Changes(h, z, w, n)
  BY <1>1, ChangingHolds DEF Packed
<1> HIDE DEF z
<1>3. /\ Sound(z, n) /\ Written(z) = u /\ z.cCoh = NoCohort /\ z.blank = <<>>
      /\ z \in DocumentType
  BY <1>2 DEF Changes, SameLocals, Packed
<1>4. /\ t \in DocumentType /\ SameBody(z, t) /\ t.cSw = NoWin /\ t.lSw = NoWin
      /\ t.cCoh = NoCohort /\ t.blank = <<>>
  <2>1. NoWin \in Nat
    BY DEF NoWin
  <2> QED
    BY <1>3, <2>1 DEF DocumentType, SameBody
<1>5. s = Drained(t)
  BY DEF z
<1> HIDE DEF t
<1>6. Sound(t, n) /\ Written(t) = u
  <2>1. t.lSw \in 0 .. Len(z.win) /\ t.cSw \in {NoWin, z.cSw}
    BY <1>3, <1>4, SoundFacts DEF NoWin
  <2>2. Sound(t, n) /\ Written(t) = Written(z)
    BY ONLY <1>3, <1>4, <2>1, SoundLocals
  <2> QED
    BY <1>3, <2>2
<1>7. /\ Sound(s, n) /\ Written(s) = u /\ s.cCoh = NoCohort /\ s.blank = <<>>
      /\ s.cSw = NoWin
  BY <1>4, <1>5, <1>6, DrainedGoes DEF SameLocals
<1> QED
  BY <1>7, BinaryFollows

LEMMA BinaryWindowStep ==
  ASSUME NEW top \in Nat, NEW r, NEW u, Follows(r, top, u), format = "binary",
         NEW size \in 0 .. 2, NEW kinds \in [1 .. size -> Kinds], NEW changes,
         NEW n, n = top + 1, NEW s, s = BinaryNext(r, n, kinds, changes)
  PROVE  Follows(s, IF size = 2 THEN n + 1 ELSE n, u \o [k \in 1 .. size |-> top + k])
<1> DEFINE o == Opened(r)
           w == o.cSw
           a == Appended(o, w, CohortOf(n, kinds[1]))
           b == Appended(a, w, CohortOf(n + 1, kinds[2]))
           h == CASE Len(kinds) = 0 -> o
                  [] Len(kinds) = 1 -> EndedLast(a, w)
                  [] Len(kinds) = 2 -> EndedLast(b, w)
           v == IF changes = "set" THEN n ELSE NoVar
           x == changes = "rem"
<1>1. s = Drained([Changing(h, w, v, x) EXCEPT !.cSw = NoWin, !.lSw = NoWin])
  BY DEF BinaryNext, Changing
<1>2. Sound(r, top) /\ r.cCoh = NoCohort /\ r.blank = <<>> /\ Written(r) = u /\ u \in Text
  BY BinaryStarts
<1>3. /\ n \in Nat /\ n + 1 \in Nat /\ top <= n /\ v \in Nat /\ x \in BOOLEAN
      /\ Len(kinds) = size
  BY DEF NoVar
<1>4. Packed(o, w, top, u)
  BY <1>2, OpenedHolds DEF Packed
<1> HIDE DEF o, w, v, x
<1>5. ASSUME size \in 1 .. 2
      PROVE  Packed(a, w, n, u \o <<n>>)
  <2>1. kinds[1] \in Kinds
    BY <1>5
  <2> QED
    BY <1>4, <2>1, PacketGrows
<1> HIDE DEF a
<1>6. ASSUME size = 2
      PROVE  Packed(b, w, n + 1, (u \o <<n>>) \o <<n + 1>>)
  <2>1. kinds[2] \in Kinds /\ size \in 1 .. 2
    BY <1>6
  <2> QED
    BY <1>3, <1>5, <2>1, PacketGrows
<1> HIDE DEF b
<1>7. /\ size = 0 => h = o
      /\ size = 1 => h = EndedLast(a, w)
      /\ size = 2 => h = EndedLast(b, w)
  BY <1>3
<1> HIDE DEF h
<1>8. CASE size = 0
  <2>1. Packed(o, w, n, u)
    BY <1>3, <1>4, SoundMore DEF Packed
  <2>2. Follows(s, n, u)
    BY <1>1, <1>3, <1>7, <1>8, <2>1, PacketDrained
  <2>3. u \o [k \in 1 .. size |-> top + k] = u
    <3>1. [k \in 1 .. size |-> top + k] = <<>>
      BY <1>8
    <3> QED
      BY <1>2, <3>1, TextConcat
  <2> QED
    BY <1>8, <2>2, <2>3
<1>9. CASE size = 1
  <2>1. Packed(h, w, n, u \o <<n>>)
    BY <1>3, <1>5, <1>7, <1>9, PacketEnds
  <2>2. Follows(s, n, u \o <<n>>)
    BY <1>1, <1>3, <2>1, PacketDrained
  <2>3. [k \in 1 .. size |-> top + k] = <<n>>
    BY <1>9
  <2> QED
    BY <1>9, <2>2, <2>3
<1>10. CASE size = 2
  <2>1. Packed(h, w, n + 1, (u \o <<n>>) \o <<n + 1>>)
    BY <1>3, <1>6, <1>7, <1>10, PacketEnds
  <2>2. Follows(s, n + 1, (u \o <<n>>) \o <<n + 1>>)
    BY <1>1, <1>3, <2>1, PacketDrained
  <2>3. [k \in 1 .. size |-> top + k] = <<n, n + 1>>
    BY <1>10
  <2>4. (u \o <<n>>) \o <<n + 1>> = u \o <<n, n + 1>>
    BY ONLY <1>2, <1>3, JoinTwo
  <2> QED
    BY <1>10, <2>2, <2>3, <2>4
<1> QED
  BY <1>8, <1>9, <1>10

\* A text packet goes straight to the output, before what is held.
LEMMA BinaryTextStep ==
  ASSUME NEW top \in Nat, NEW r, NEW u, Follows(r, top, u), format = "binary",
         NEW n, n = top + 1, NEW s, s = [r EXCEPT !.out = Append(@, n)]
  PROVE  Follows(s, n, InsertAt(u, Len(r.out) + 1, n))
<1> DEFINE o == r.out \o <<n>>
           l == Held(r)
<1>1. /\ Sound(r, top) /\ r.cCoh = NoCohort /\ r.blank = <<>> /\ r.cSw = NoWin
      /\ Written(r) = u /\ r \in DocumentType /\ InTurn(r) /\ r.out \in Text
  BY BinaryStarts, SoundFacts
<1>2. n \in Nat /\ top <= n /\ <<n>> \in Text /\ l \in Text
  BY <1>1, HeldText DEF Text
<1>3. o \in Text /\ s = [r EXCEPT !.out = o]
  BY <1>1, <1>2, FedMore, TextConcat
<1> HIDE DEF o
<1>4. /\ s \in DocumentType /\ s.win = r.win /\ s.prev = r.prev /\ s.cur = r.cur
      /\ s.next = r.next /\ s.cSw = r.cSw /\ s.lSw = r.lSw /\ s.cCoh = r.cCoh
      /\ s.blank = r.blank /\ s.out = o
  BY <1>1, <1>3 DEF DocumentType
<1>5. InTurn(s) /\ Printed(s) = Printed(r) /\ Held(s) = l
  <2>1. Printed(s) = Printed(r) /\ Running(s) = Running(r)
    BY <1>4 DEF Printed, Queued, Running
  <2>2. InTurn(s)
    BY <1>1, <1>4, <2>1 DEF InTurn
  <2>3. ItemsAll(s) = ItemsAll(r)
    BY <1>4 DEF ItemsAll
  <2> QED
    BY <1>4, <2>1, <2>2, <2>3 DEF Held
<1>6. Sound(s, n)
  <2>1. Sound(r, n)
    BY <1>1, <1>2, SoundMore
  <2> QED
    BY <1>4, <1>5, <2>1 DEF Sound, Windows, Unflushed, Filling
<1>7. Written(s) = (r.out \o <<n>>) \o l
  BY <1>4, <1>5 DEF Written, o
<1>8. u = r.out \o l
  BY <1>1 DEF Written
<1>9. InsertAt(u, Len(r.out) + 1, n) = (r.out \o <<n>>) \o l
  <2> DEFINE p == r.out
  <2>1. p \in Text /\ u = p \o l
    BY <1>1, <1>8
  <2> HIDE DEF p, l
  <2>2. InsertAt(p \o l, Len(p) + 1, n) = (p \o <<n>>) \o l
    BY ONLY <1>2, <2>1, TextInserted
  <2> QED
    BY <2>1, <2>2 DEF p
<1> QED
  BY <1>1, <1>2, <1>4, <1>6, <1>7, <1>9, BinaryFollows

LEMMA BinaryFlushStep ==
  ASSUME NEW top \in Nat, NEW r, NEW u, Follows(r, top, u), format = "binary",
         NEW n, n = top + 1, NEW s, s = BinaryFlush(r, <<n>>)
  PROVE  Follows(s, n, u \o <<n>>)
<1> DEFINE m == Marked(r, n)
<1>1. s = CommandItself(PrintedAll(RanAll(m)), r, n)
  BY DEF BinaryFlush
<1>2. /\ Sound(r, top) /\ r.cCoh = NoCohort /\ r.blank = <<>> /\ r.cSw = NoWin
      /\ Written(r) = u /\ r \in DocumentType /\ InTurn(r)
  BY BinaryStarts, SoundFacts
<1>3. n \in Nat /\ top <= n
  OBVIOUS
<1>4. Sound(r, n)
  BY <1>2, <1>3, SoundMore
<1>5. Marks(r, m, n, n)
  BY <1>3, <1>4, MarkedHolds
<1>6. m \in DocumentType /\ InTurn(m) /\ Windows(m, n) /\ SameLocals(r, m)
  BY <1>5 DEF Marks
<1>7. Flushes(r, m, s, n, n)
  <2>1. Written(m) = Written(Marked(r, n)) /\ Buffered(r) = Buffered(r)
    OBVIOUS
  <2> HIDE DEF m
  <2> QED
    BY ONLY <1>1, <1>2, <1>3, <1>4, <1>6, <2>1, FlushedHolds
<1> HIDE DEF m
<1>8. /\ s \in DocumentType /\ InTurn(s) /\ Windows(s, n) /\ Buffered(s) = <<>>
      /\ Printed(s) = Len(s.win) /\ Written(s) = u \o <<n>>
      /\ s.cSw = NoWin /\ s.cCoh = NoCohort /\ s.blank = <<>> /\ s.lSw = r.lSw
      /\ Len(s.win) = Len(r.win)
  <2>1. Len(m.win) = Len(r.win)
    BY <1>5 DEF Marks, SameLists
  <2> QED
    BY <1>2, <1>6, <1>7, <2>1 DEF Flushes, SameLocals
<1>9. Sound(s, n)
  <2>1. r.lSw \in 0 .. Len(r.win) /\ Len(r.win) \in Nat
    BY <1>2, SoundFacts
  <2>2. Unflushed(s)
    BY <1>8, <2>1 DEF Unflushed
  <2>3. Filling(s)
    BY <1>8, <2>1 DEF Filling
  <2> QED
    BY <1>8, <2>2, <2>3 DEF Sound
<1> QED
  BY <1>3, <1>8, <1>9, BinaryFollows

-----------------------------------------------------------------------------
(* The end of the input.                                                     *)

Finishes(s, u) == s \in DocumentType /\ InTurn(s) /\ Told(s) \o s.blank = u

LEMMA AlikeFinishes ==
  ASSUME NEW p, NEW u, Finishes(p, u), NEW s, Alike(p, s)
  PROVE  Finishes(s, u)
<1>1. /\ s \in DocumentType /\ InTurn(s) /\ Written(s) = Written(p) /\ s.cCoh = p.cCoh
      /\ s.blank = p.blank
  BY DEF Alike, Documents, SameLocals
<1> QED
  BY <1>1 DEF Finishes, Told

LEMMA AllFinishes ==
  ASSUME NEW p, NEW u, Finishes(p, u), NEW s, s = PrintedAll(RanAll(p))
  PROVE  Finishes(s, u)
<1> DEFINE q == RanAll(p)
<1>1. Alike(p, q)
  BY RanAllHolds DEF Finishes
<1> HIDE DEF q
<1>2. q \in DocumentType /\ InTurn(q)
  BY <1>1 DEF Alike, Documents
<1>3. Alike(q, s)
  BY <1>2, PrintedAllHolds DEF q
<1> QED
  BY <1>1, <1>3, AlikeFinishes

LEMMA FollowsFinishes ==
  ASSUME NEW top \in Nat, NEW r, NEW u, Follows(r, top, u)
  PROVE  Finishes(r, u) /\ r.cCoh.id \in Nat /\ (r.cCoh.id # 0 => r.cSw # NoWin)
<1>1. Core(r, top) /\ Pending(r) /\ Told(r) \o r.blank = u
  BY DEF Follows
<1>2. r \in DocumentType /\ InTurn(r) /\ r.cCoh.id \in Nat
  BY <1>1, CoreFacts
<1> QED
  BY <1>1, <1>2, NoCohortIs DEF Finishes, Pending

\* The pending cohort ends the last window.
LEMMA PendingFinishes ==
  ASSUME NEW top \in Nat, NEW r, NEW u, Follows(r, top, u), r.cCoh.id # 0,
         NEW s, s = [PendingEnds(r) EXCEPT !.cCoh = NoCohort]
  PROVE  Finishes(s, u)
<1> DEFINE y == PendingEnds(r)
<1>1. Going(r, top, Told(r)) /\ Core(r, top) /\ Told(r) \o r.blank = u /\ r.cSw # NoWin
  BY Starts, FollowsFinishes DEF Follows
<1>2. y = PendingEnds(r) /\ s = [y EXCEPT !.cCoh = NoCohort]
  OBVIOUS
<1> HIDE DEF y
<1>3. Joins(r, y, top)
  BY <1>1, <1>2, PendingJoins
<1>4. Sound(y, top) /\ Written(y) = Told(r) /\ y.blank = r.blank
  BY <1>3 DEF Joins, SameLocals
<1>5. y \in DocumentType /\ InTurn(y)
  BY <1>4, SoundFacts
<1>6. s \in DocumentType /\ SameBody(y, s) /\ s.cCoh = NoCohort /\ s.blank = r.blank
  BY <1>2, <1>4, <1>5, NoCohortIs DEF DocumentType, SameBody
<1>7. InTurn(s) /\ Written(s) = Written(y)
  BY <1>5, <1>6, AlikeBody DEF Documents
<1>8. Told(s) = Written(s)
  <2>1. Written(s) \in Text
    BY <1>6, <1>7, HeldText
  <2> QED
    BY <1>6, <2>1, NoCohortIs, TextConcat DEF Told
<1> QED
  BY <1>1, <1>4, <1>6, <1>7, <1>8 DEF Finishes

LEMMA NicelineFinishes ==
  ASSUME NEW top \in Nat, NEW r, NEW u, Follows(r, top, u), NEW s, s = NicelineEnd(r)
  PROVE  Finishes(s, u)
<1>1. CASE r.cCoh.id # 0
  <2>1. s = [PendingEnds(r) EXCEPT !.cCoh = NoCohort]
    BY <1>1, FollowsFinishes DEF NicelineEnd
  <2> QED
    BY <1>1, <2>1, PendingFinishes
<1>2. CASE r.cCoh.id = 0
  BY <1>2, FollowsFinishes DEF NicelineEnd
<1> QED
  BY <1>1, <1>2

LEMMA MatxinFinishes ==
  ASSUME NEW top \in Nat, NEW r, NEW u, Follows(r, top, u), format = "matxin",
         NEW s, s = MatxinEnd(r)
  PROVE  Finishes(s, u)
<1> DEFINE k == [r EXCEPT !.out = r.out \o r.blank, !.blank = <<>>]
<1>1. Core(r, top) /\ Told(r) \o r.blank = u
  BY DEF Follows
<1>2. /\ r \in DocumentType /\ InTurn(r) /\ r.out \in Text /\ r.blank \in Text
  <2>1. Sound(r, top)
    BY <1>1, CoreFacts
  <2> QED
    BY <2>1, SoundFacts
<1>3. s = IF r.cCoh.id # 0 /\ r.cSw # NoWin
          THEN [PendingEnds(k) EXCEPT !.cCoh = NoCohort] ELSE k
  BY DEF MatxinEnd
<1>4. CASE r.cCoh.id # 0
  <2>1. r.blank = <<>>
    BY <1>4 DEF Follows, Pending
  <2>2. r.out \o r.blank = r.out
    BY <1>2, <2>1, TextConcat
  <2>3. k = r
    BY <1>2, <2>1, <2>2 DEF DocumentType
  <2>4. s = [PendingEnds(r) EXCEPT !.cCoh = NoCohort]
    <3> HIDE DEF k
    <3> QED
      BY <1>3, <1>4, <2>3, FollowsFinishes
  <2> QED
    BY <1>4, <2>4, PendingFinishes
<1>5. CASE r.cCoh.id = 0
  <2>1. r.cCoh = NoCohort /\ r.win = <<>> /\ Told(r) = Written(r)
    BY <1>1, <1>5, CoreFacts DEF Follows, Pending
  <2>2. s = k
    BY <1>3, <1>5
  <2> DEFINE o == r.out \o r.blank
  <2>3. o \in Text /\ k = [r EXCEPT !.out = o, !.blank = <<>>]
    BY <1>2, TextConcat
  <2> HIDE DEF o
  <2>4. /\ k \in DocumentType /\ k.win = <<>> /\ k.prev = r.prev /\ k.cur = r.cur
        /\ k.next = r.next /\ k.out = o /\ k.cCoh = NoCohort /\ k.blank = <<>>
    <3>1. k \in DocumentType
      BY <1>2, <2>3, EmptyText DEF DocumentType
    <3> QED
      BY <1>2, <2>1, <2>3, <3>1 DEF DocumentType
  <2> HIDE DEF k
  <2>5. InTurn(k) /\ Printed(k) = Printed(r)
    BY <1>2, <2>1, <2>4, ListsSame DEF SameLists
  <2>6. Held(r) = <<>> /\ Held(k) = <<>>
    <3>1. Len(r.win) = 0 /\ Len(k.win) = 0
      BY <2>1, <2>4
    <3>2. Printed(r) = 0 /\ Printed(k) = 0
      <4>1. Printed(r) \in Nat /\ Printed(r) <= Len(r.win)
        BY <1>2, HeldText
      <4> QED
        BY <2>5, <3>1, <4>1
    <3> QED
      BY <3>1, <3>2, FlatEmpty DEF Held
  <2>7. Written(r) = r.out /\ Written(k) = o
    BY <1>2, <2>3, <2>4, <2>6, TextConcat DEF Written
  <2>8. Told(k) \o k.blank = o
    <3>1. Told(k) = o
      BY <2>3, <2>4, <2>7, NoCohortIs, TextConcat DEF Told
    <3> QED
      BY <2>3, <2>4, <3>1, TextConcat
  <2>9. o = u
    BY <1>1, <2>1, <2>7 DEF o
  <2> QED
    BY <2>2, <2>4, <2>5, <2>8, <2>9 DEF Finishes
<1> QED
  BY <1>4, <1>5

LEMMA JsonlFinishes ==
  ASSUME NEW top \in Nat, NEW r, NEW u, Follows(r, top, u), NEW s,
         s = PrintedAll(JsonlEnd(r))
  PROVE  Finishes(s, u)
<1> DEFINE e == IF r.cSw # NoWin THEN EndedLast(r, r.cSw) ELSE r
           a == RanAll(e)
           j == IF a.cur # NoWin THEN RunCurrent(a) ELSE a
<1>1. s = PrintedAll(j)
  BY DEF JsonlEnd
<1>2. Finishes(r, u) /\ Sound(r, Bound(r, top))
  BY FollowsFinishes DEF Follows, Core
<1>3. Finishes(e, u)
  <2>1. CASE r.cSw = NoWin
    BY <1>2, <2>1
  <2>2. CASE r.cSw # NoWin
    <3>1. e = EndedLast(r, r.cSw)
      BY <2>2
    <3>2. r.cSw \in 1 .. Len(r.win)
      BY <1>2, <2>2, FillingLast
    <3>3. Alike(r, e)
      BY <1>2, <3>1, <3>2, EndedLastHolds
    <3> QED
      BY <1>2, <3>3, AlikeFinishes
  <2> QED
    BY <2>1, <2>2
<1> HIDE DEF e
<1>4. Finishes(a, u)
  <2>1. Alike(e, a)
    BY <1>3, RanAllHolds DEF Finishes
  <2> QED
    BY <1>3, <2>1, AlikeFinishes
<1> HIDE DEF a
<1>5. Finishes(j, u)
  <2>1. CASE a.cur = NoWin
    BY <1>4, <2>1
  <2>2. CASE a.cur # NoWin
    <3>1. j = RunCurrent(a)
      BY <2>2
    <3>2. Alike(a, j)
      BY <1>4, <2>2, <3>1, RunCurrentHolds DEF Finishes
    <3> QED
      BY <1>4, <3>2, AlikeFinishes
  <2> QED
    BY <2>1, <2>2
<1> HIDE DEF j
<1>6. Alike(j, s)
  BY <1>1, <1>5, PrintedAllHolds DEF Finishes
<1> QED
  BY <1>5, <1>6, AlikeFinishes

LEMMA ApertiumFinishes ==
  ASSUME NEW top \in Nat, NEW r, NEW u, Follows(r, top, u), format = "apertium",
         NEW s, s = ApertiumFlush(r, <<>>)
  PROVE  Finishes(s, u)
<1> DEFINE e == EndEnsured(r)
           z == PlacedText(e, r.blank)
           p == [z EXCEPT !.blank = <<>>]
           f == PrintedAll(RanAll(p))
<1>1. Drops(r, z, top, u)
  BY ApertiumDrops
<1>2. s = [f EXCEPT !.lSw = NoWin, !.lCoh = 0, !.cSw = NoWin, !.set = NoVar,
                    !.rem = FALSE, !.globals = NoVar]
  BY DEF ApertiumFlush
<1> HIDE DEF e, z
<1>3. Sound(z, top) /\ z.cCoh = NoCohort /\ Written(z) = u
  BY <1>1 DEF Drops
<1>4. Sound(p, top) /\ Written(p) = u /\ p.cCoh = NoCohort /\ p.blank = <<>>
  BY <1>3, NoBlankHolds
<1> HIDE DEF p
<1>5. Finishes(p, u)
  <2>1. p \in DocumentType /\ InTurn(p) /\ Written(p) \in Text
    BY <1>4, SoundFacts
  <2> QED
    BY <1>4, <2>1, NoCohortIs, TextConcat DEF Finishes, Told
<1>6. Finishes(f, u)
  BY <1>5, AllFinishes
<1> HIDE DEF f
<1>7. f \in DocumentType /\ InTurn(f) /\ Told(f) \o f.blank = u
  BY <1>6 DEF Finishes
<1>8. /\ s \in DocumentType /\ SameBody(f, s) /\ s.cCoh = f.cCoh /\ s.blank = f.blank
  <2>1. NoVar \in Nat /\ NoWin \in Nat /\ 0 \in Int
    BY DEF NoVar, NoWin
  <2>2. f \in DocumentType
    BY <1>7
  <2>3. s \in DocumentType
    BY ONLY <1>2, <2>1, <2>2 DEF DocumentType
  <2> QED
    BY ONLY <1>2, <2>2, <2>3 DEF DocumentType, SameBody
<1>9. InTurn(s) /\ Written(s) = Written(f)
  BY <1>7, <1>8, AlikeBody DEF Documents
<1> QED
  BY <1>7, <1>8, <1>9 DEF Finishes, Told

-----------------------------------------------------------------------------
(* The invariant.                                                            *)

\* The step reads item n: what follows from it is what it was fed.
Reads(n) ==
  /\ phase = "reading" /\ phase' = phase /\ format' = format
  /\ read' = n /\ n \in Nat /\ Follows(d', n, fed')

LEMMA StepKeeps ==
  ASSUME Inv, NEW n, Reads(n)
  PROVE  Inv'
<1>1. /\ Core(d', n) /\ Told(d') \o d'.blank = fed' /\ n \in Nat
  BY DEF Reads, Follows
<1>2. Pending(d)'
  <2>1. Pending(d')
    BY DEF Reads, Follows
  <2>2. format' = format
    BY DEF Reads
  <2> QED
    BY <2>1, <2>2 DEF Pending
<1>3. d' \in DocumentType /\ InTurn(d')
  BY <1>1, CoreFacts
<1>4. /\ fed' \in Text
      /\ InputInOrder'
  <2>1. Told(d') \in Text /\ d'.blank \in Text
    BY <1>3, ToldInOrder
  <2>2. fed' \in Text
    BY <1>1, <2>1, TextConcat
  <2>3. InputInOrder'
    BY <1>1, <1>3, ToldInOrder DEF InputInOrder
  <2> QED
    BY <2>2, <2>3
<1>5. (Core(d, read) /\ Told(d) \o d.blank = fed)'
  BY <1>1 DEF Reads
<1> QED
  BY <1>2, <1>4, <1>5 DEF Inv, Reads

LEMMA Reading ==
  ASSUME Inv, phase = "reading"
  PROVE  /\ read \in Nat /\ Follows(d, read, fed) /\ fed \in Text
         /\ d \in DocumentType /\ d.blank \in Text
<1>1. /\ read \in Nat /\ Follows(d, read, fed) /\ fed \in Text
  BY DEF Inv, Follows
<1>2. Core(d, read)
  BY <1>1 DEF Follows
<1> QED
  BY <1>1, <1>2, CoreFacts, SoundFacts

\* A step of a reader that takes in one further item.
LEMMA OneRead ==
  ASSUME Inv, NEW formats, Item(formats), Keep(New), Follows(d', New, fed \o <<New>>)
  PROVE  Reads(New)
<1>1. read \in Nat /\ fed \in Text
  BY Reading DEF Item
<1>2. New \in Nat
  BY <1>1 DEF New
<1>3. fed' = fed \o <<New>>
  BY <1>1, <1>2, FedMore DEF Keep
<1> QED
  BY <1>2, <1>3 DEF Reads, Item, New

LEMMA NoneRead ==
  ASSUME Inv, NEW formats, Item(formats), fed' = fed, Follows(d', read, fed)
  PROVE  Reads(New)
<1>1. read \in Nat /\ New = read + 1
  BY Reading DEF Item, New
<1>2. Follows(d', New, fed)
  <2> DEFINE n == New
             s == d'
  <2>1. n = read + 1 /\ Follows(s, read, fed)
    BY <1>1
  <2> HIDE DEF n, s
  <2>2. Follows(s, n, fed)
    BY <1>1, <2>1, FollowsMore
  <2> QED
    BY <2>2 DEF n, s
<1> QED
  BY <1>1, <1>2 DEF Reads, Item

LEMMA ReadCohortKeeps ==
  ASSUME Inv, ReadCohort
  PROVE  Inv'
<1>1. Item(FormatNames \ {"binary", "plaintext"}) /\ Keep(New) /\ phase = "reading"
  BY DEF ReadCohort, Item
<1>2. read \in Nat /\ Follows(d, read, fed) /\ New = read + 1
  BY <1>1, Reading DEF New
<1>3. PICK kinds \in Kinds :
        \/ format = "niceline" /\ NicelineToken(New, kinds)
        \/ format = "fst" /\ FstLine(New, kinds)
        \/ format = "matxin" /\ MatxinUnit(New, kinds)
        \/ format = "jsonl" /\ JsonlCohort(New, kinds)
        \/ format = "apertium" /\ ApertiumUnit(New, kinds)
  BY DEF ReadCohort
<1>4. Follows(d', New, fed \o <<New>>)
  <2>1. CASE format = "niceline" /\ NicelineToken(New, kinds)
    <3>1. d' = NicelineNext(d, New, kinds)
      BY <2>1 DEF NicelineToken, NicelineNext
    <3> QED
      BY <1>2, <2>1, <3>1, NicelineStep
  <2>2. CASE format = "fst" /\ FstLine(New, kinds)
    <3>1. d' = FstLineNext(d, New, kinds)
      BY <2>2 DEF FstLine, FstLineNext
    <3> QED
      BY <1>2, <2>2, <3>1, FstLineStep
  <2>3. CASE format = "matxin" /\ MatxinUnit(New, kinds)
    <3>1. d' = MatxinNext(d, New, kinds)
      BY <2>3 DEF MatxinUnit, MatxinNext
    <3> QED
      BY <1>2, <2>3, <3>1, MatxinStep
  <2>4. CASE format = "jsonl" /\ JsonlCohort(New, kinds)
    <3>1. d' = JsonlCohortNext(d, New, kinds)
      BY <2>4 DEF JsonlCohort, JsonlCohortNext
    <3> QED
      BY <1>2, <2>4, <3>1, JsonlCohortStep
  <2>5. CASE format = "apertium" /\ ApertiumUnit(New, kinds)
    <3>1. d' = ApertiumNext(d, New, kinds)
      BY <2>5 DEF ApertiumUnit, ApertiumNext
    <3> QED
      BY <1>2, <2>5, <3>1, ApertiumUnitStep
  <2> QED
    BY <1>3, <2>1, <2>2, <2>3, <2>4, <2>5
<1> QED
  BY <1>1, <1>4, OneRead, StepKeeps

LEMMA ReadWordsKeeps ==
  ASSUME Inv, ReadWords
  PROVE  Inv'
<1>1. phase = "reading" /\ format = "plaintext" /\ phase' = phase /\ format' = format
  BY DEF ReadWords
<1>2. read \in Nat /\ Follows(d, read, fed) /\ New = read + 1
  BY <1>1, Reading DEF New
<1>a. PICK words \in PlaintextCut(New) : \E kinds \in [1 .. Len(words) -> Kinds] :
        /\ PlaintextLine(New, words, kinds)
        /\ read' = read + Len(words)
        /\ fed' = fed \o words
  BY DEF ReadWords
<1>3. PICK kinds \in [1 .. Len(words) -> Kinds] :
        /\ PlaintextLine(New, words, kinds)
        /\ read' = read + Len(words)
        /\ fed' = fed \o words
  BY <1>a
<1>4. d' = PlaintextNext(d, New, words, kinds)
  BY <1>3 DEF PlaintextLine, PlaintextNext
<1>5. Len(words) \in Nat /\ Follows(d', read + Len(words), fed \o words)
  BY <1>1, <1>2, <1>4, PlaintextStep
<1>6. Reads(read + Len(words))
  BY <1>1, <1>2, <1>3, <1>5 DEF Reads
<1> QED
  BY <1>6, StepKeeps

\* A further blank of the Apertium stream.
LEMMA ApertiumBlankStep ==
  ASSUME NEW top \in Nat, NEW r, NEW u, Follows(r, top, u), format = "apertium",
         NEW n, n = top + 1, NEW s, BlankText(r, s, <<n>>)
  PROVE  Follows(s, n, u \o <<n>>)
<1>1. <<n>> \in Text
  BY DEF Text
<1>2. Follows(s, top, u \o <<n>>)
  BY <1>1, BlankStep
<1> QED
  BY <1>2, FollowsMore

LEMMA ReadTextKeeps ==
  ASSUME Inv, ReadText
  PROVE  Inv'
<1>1. Item(FormatNames) /\ phase = "reading"
  BY DEF ReadText, Item
<1>2. /\ read \in Nat /\ Follows(d, read, fed) /\ New = read + 1
      /\ d \in DocumentType /\ d.blank \in Text
  BY <1>1, Reading DEF New
<1>3. ASSUME format # "binary"
      PROVE  Follows(d', New, fed \o <<New>>)
  <2>1. CASE format \in {"niceline", "plaintext", "jsonl"} /\ d' = PlacedText(d, <<New>>)
    BY <1>2, <2>1, TextStep
  <2>2. CASE format = "fst" /\ d' = PlacedText(FstIsText(d), <<New>>)
    <3> DEFINE x == FstIsText(d)
    <3>1. Follows(x, read, fed) /\ x.cCoh = NoCohort
      BY <1>2, <2>2, FstIsTextStep
    <3>2. d' = PlacedText(x, <<New>>)
      BY <2>2
    <3> HIDE DEF x
    <3> QED
      BY <1>2, <2>2, <3>1, <3>2, TextStep
  <2>3. CASE format = "matxin" /\ MatxinBlank(New)
    <3>1. d' = MatxinBlankNext(d, New)
      BY <2>3 DEF MatxinBlank, MatxinBlankNext
    <3> QED
      BY <1>2, <2>3, <3>1, MatxinBlankStep
  <2>4. CASE format = "apertium" /\ d' = [d EXCEPT !.blank = Append(@, New)]
    <3> DEFINE o == d.blank \o <<New>>
    <3>1. Append(d.blank, New) = o /\ o \in Text
      BY <1>2, FedMore, TextConcat
    <3>2. d' = [d EXCEPT !.blank = o]
      BY <2>4, <3>1
    <3> HIDE DEF o
    <3>3. BlankText(d, d', <<New>>)
      BY <1>2, <3>1, <3>2 DEF BlankText, DocumentType, SameBody, o
    <3> QED
      BY <1>2, <2>4, <3>3, ApertiumBlankStep
  <2> QED
    BY <1>3, <2>1, <2>2, <2>3, <2>4 DEF ReadText
<1>4. CASE format # "binary"
  <2>1. Keep(New)
    BY <1>4 DEF ReadText
  <2> QED
    BY <1>1, <1>3, <1>4, <2>1, OneRead, StepKeeps
<1>5. CASE format = "binary"
  <2>1. d' = [d EXCEPT !.out = Append(@, New)] /\ fed' = InsertAt(fed, Len(d.out) + 1, New)
    BY <1>5 DEF ReadText
  <2>2. Follows(d', New, InsertAt(fed, Len(d.out) + 1, New))
    BY <1>2, <1>5, <2>1, BinaryTextStep
  <2>3. Reads(New)
    BY <1>1, <1>2, <2>1, <2>2 DEF Reads, Item, New
  <2> QED
    BY <2>3, StepKeeps
<1> QED
  BY <1>4, <1>5

LEMMA ReadBlankLineKeeps ==
  ASSUME Inv, ReadBlankLine
  PROVE  Inv'
<1>1. Item({"fst"}) /\ fed' = fed /\ phase = "reading" /\ format = "fst"
      /\ d' = FstIsText(d)
  BY DEF ReadBlankLine, Item
<1>2. read \in Nat /\ Follows(d, read, fed)
  BY <1>1, Reading
<1>3. Follows(d', read, fed)
  BY <1>1, <1>2, FstIsTextStep
<1> QED
  BY <1>1, <1>3, NoneRead, StepKeeps

LEMMA ReadPacketKeeps ==
  ASSUME Inv, ReadPacket
  PROVE  Inv'
<1>1. phase = "reading" /\ format = "binary" /\ phase' = phase /\ format' = format
  BY DEF ReadPacket
<1>2. read \in Nat /\ Follows(d, read, fed) /\ New = read + 1
  BY <1>1, Reading DEF New
<1>a. PICK size \in 0 .. 2, changes \in {"none", "set", "rem"} :
        \E kinds \in [1 .. size -> Kinds] :
          /\ read' = read + (IF size = 2 THEN 2 ELSE 1)
          /\ BinaryWindow(New, kinds, changes)
          /\ fed' = fed \o [k \in 1 .. size |-> read + k]
  BY DEF ReadPacket
<1>3. PICK kinds \in [1 .. size -> Kinds] :
        /\ read' = read + (IF size = 2 THEN 2 ELSE 1)
        /\ BinaryWindow(New, kinds, changes)
        /\ fed' = fed \o [k \in 1 .. size |-> read + k]
  BY <1>a
<1>4. d' = BinaryNext(d, New, kinds, changes)
  BY <1>3 DEF BinaryWindow, BinaryNext
<1>5. Follows(d', IF size = 2 THEN New + 1 ELSE New, fed \o [k \in 1 .. size |-> read + k])
  BY <1>1, <1>2, <1>4, BinaryWindowStep
<1>6. read' = (IF size = 2 THEN New + 1 ELSE New) /\ read' \in Nat
  BY <1>2, <1>3
<1>7. Reads(read')
  BY <1>1, <1>3, <1>5, <1>6 DEF Reads
<1> QED
  BY <1>7, StepKeeps

\* A command that changes only locals that say nothing of the windows.
LEMMA LocalsStep ==
  ASSUME NEW top \in Nat, NEW r, NEW u, Follows(r, top, u), NEW s \in DocumentType,
         SameBody(r, s), SameLocals(r, s)
  PROVE  Follows(s, top, u)
<1>1. u \in Text /\ r.blank \in Text
  BY Starts
<1>2. BlankText(r, s, <<>>)
  BY <1>1, TextConcat DEF BlankText, SameLocals
<1>3. Follows(s, top, u \o <<>>)
  BY <1>2, EmptyText, BlankStep
<1> QED
  BY <1>1, <1>3, TextConcat

LEMMA ReadSetvarKeeps ==
  ASSUME Inv, ReadSetvar
  PROVE  Inv'
<1>1. Item({"jsonl", "apertium"}) /\ phase = "reading"
  BY DEF ReadSetvar, Item
<1>2. /\ read \in Nat /\ Follows(d, read, fed) /\ New = read + 1 /\ New \in Nat
      /\ d \in DocumentType /\ d.blank \in Text
  BY <1>1, Reading DEF New
<1>3. CASE format = "jsonl" /\ JsonlSetvar(New) /\ fed' = fed
  <2>1. d' = [d EXCEPT !.set = New, !.rem = FALSE]
    BY <1>3 DEF JsonlSetvar
  <2>2. d' \in DocumentType /\ SameBody(d, d') /\ SameLocals(d, d')
    BY <1>2, <2>1 DEF DocumentType, SameBody, SameLocals
  <2>3. Follows(d', read, fed)
    BY <1>2, <2>2, LocalsStep
  <2> QED
    BY <1>1, <1>3, <2>3, NoneRead, StepKeeps
<1>4. CASE format = "apertium" /\ Keep(New) /\ \E bare \in BOOLEAN : ApertiumSetvar(New, bare)
  <2>a. PICK bare \in BOOLEAN : ApertiumSetvar(New, bare)
    BY <1>4
  <2> DEFINE o == d.blank \o <<New>>
             v == IF d.set = NoVar THEN New ELSE d.set
             g == IF bare /\ d.cSw = NoWin /\ d.globals = NoVar
                  THEN New ELSE d.globals
  <2>1. Append(d.blank, New) = o /\ o \in Text /\ g \in Nat /\ v \in Nat
    BY <1>2, FedMore, TextConcat DEF DocumentType
  <2>2. d' = [d EXCEPT !.set = v, !.rem = FALSE, !.blank = o, !.globals = g]
    BY <2>a, <2>1 DEF ApertiumSetvar
  <2> HIDE DEF o, g, v
  <2>3. BlankText(d, d', <<New>>)
    <3>1. d' \in DocumentType
      BY <1>2, <2>1, <2>2 DEF DocumentType
    <3> QED
      BY <1>2, <2>2, <3>1 DEF BlankText, DocumentType, SameBody, o
  <2>4. Follows(d', New, fed \o <<New>>)
    BY <1>2, <1>4, <2>3, ApertiumBlankStep
  <2> QED
    BY <1>1, <1>4, <2>4, OneRead, StepKeeps
<1> QED
  BY <1>3, <1>4 DEF ReadSetvar

LEMMA ReadRemvarKeeps ==
  ASSUME Inv, ReadRemvar
  PROVE  Inv'
<1>1. Item({"jsonl", "apertium"}) /\ phase = "reading"
  BY DEF ReadRemvar, Item
<1>2. /\ read \in Nat /\ Follows(d, read, fed) /\ New = read + 1 /\ New \in Nat
      /\ d \in DocumentType /\ d.blank \in Text /\ NoVar \in Nat
  BY <1>1, Reading DEF New, NoVar
<1>3. CASE format = "jsonl" /\ JsonlRemvar /\ fed' = fed
  <2>1. d' = [d EXCEPT !.set = NoVar, !.rem = TRUE]
    BY <1>3 DEF JsonlRemvar
  <2>2. d' \in DocumentType /\ SameBody(d, d') /\ SameLocals(d, d')
    BY <1>2, <2>1 DEF DocumentType, SameBody, SameLocals
  <2>3. Follows(d', read, fed)
    BY <1>2, <2>2, LocalsStep
  <2> QED
    BY <1>1, <1>3, <2>3, NoneRead, StepKeeps
<1>4. CASE format = "apertium" /\ ApertiumRemvar(New) /\ Keep(New)
  <2> DEFINE o == d.blank \o <<New>>
  <2>1. Append(d.blank, New) = o /\ o \in Text
    BY <1>2, FedMore, TextConcat
  <2>2. d' = [d EXCEPT !.set = NoVar, !.rem = TRUE, !.blank = o]
    BY <1>4, <2>1 DEF ApertiumRemvar
  <2> HIDE DEF o
  <2>3. BlankText(d, d', <<New>>)
    <3>1. d' \in DocumentType
      BY <1>2, <2>1, <2>2 DEF DocumentType
    <3> QED
      BY <1>2, <2>2, <3>1 DEF BlankText, DocumentType, SameBody, o
  <2>4. Follows(d', New, fed \o <<New>>)
    BY <1>2, <1>4, <2>3, ApertiumBlankStep
  <2> QED
    BY <1>1, <1>4, <2>4, OneRead, StepKeeps
<1> QED
  BY <1>3, <1>4 DEF ReadRemvar

LEMMA ReadFlushKeeps ==
  ASSUME Inv, ReadFlush
  PROVE  Inv'
<1>1. Item({"jsonl", "apertium", "binary"}) /\ Keep(New) /\ phase = "reading"
  BY DEF ReadFlush, Item
<1>2. read \in Nat /\ Follows(d, read, fed) /\ New = read + 1
  BY <1>1, Reading DEF New
<1>3. Follows(d', New, fed \o <<New>>)
  <2>1. CASE format = "jsonl" /\ JsonlFlush(New)
    <3>1. d' = JsonlFlushNext(d, New)
      BY <2>1 DEF JsonlFlush, JsonlFlushNext
    <3> QED
      BY <1>2, <2>1, <3>1, JsonlFlushStep
  <2>2. CASE format = "apertium" /\ d' = ApertiumFlush(d, <<New>>)
    BY <1>2, <2>2, ApertiumFlushStep
  <2>3. CASE format = "binary" /\ d' = BinaryFlush(d, <<New>>)
    BY <1>2, <2>3, BinaryFlushStep
  <2> QED
    BY <2>1, <2>2, <2>3 DEF ReadFlush
<1> QED
  BY <1>1, <1>3, OneRead, StepKeeps

LEMMA ReadIgnoreKeeps ==
  ASSUME Inv, ReadIgnore
  PROVE  Inv'
<1>1. /\ Item({"jsonl"}) /\ phase = "reading" /\ fed' = fed
      /\ d' = [d EXCEPT !.ignoring = ~ d.ignoring]
  BY DEF ReadIgnore, Item
<1>2. read \in Nat /\ Follows(d, read, fed) /\ d \in DocumentType
  BY <1>1, Reading
<1>3. d' \in DocumentType /\ SameBody(d, d') /\ SameLocals(d, d')
  <2> DEFINE i == ~ d.ignoring
  <2>1. i \in BOOLEAN /\ d' = [d EXCEPT !.ignoring = i]
    BY <1>1
  <2> HIDE DEF i
  <2> QED
    BY <1>2, <2>1 DEF DocumentType, SameBody, SameLocals
<1>4. Follows(d', read, fed)
  BY <1>2, <1>3, LocalsStep
<1> QED
  BY <1>1, <1>4, NoneRead, StepKeeps

LEMMA ReadExitKeeps ==
  ASSUME Inv, ReadExit
  PROVE  Inv'
<1>1. phase' = "left" /\ format' = format /\ d' = d /\ fed' = fed /\ read' = read
  BY DEF ReadExit
<1> QED
  BY <1>1 DEF Inv, InputInOrder

LEMMA EndFinishes ==
  ASSUME Inv, End
  PROVE  Finishes(d', fed)
<1>1. phase = "reading" /\ format \in FormatNames
  BY DEF End, Inv
<1>2. read \in Nat /\ Follows(d, read, fed)
  BY <1>1, Reading
<1>3. Finishes(d, fed)
  BY <1>2, FollowsFinishes
<1>4. CASE format = "niceline"
  <2> DEFINE p == NicelineEnd(d)
  <2>1. d' = PrintedAll(RanAll(p))
    BY <1>4 DEF End
  <2>2. Finishes(p, fed)
    BY <1>2, NicelineFinishes
  <2> HIDE DEF p
  <2> QED
    BY <2>1, <2>2, AllFinishes
<1>5. CASE format = "plaintext"
  <2>1. d' = PrintedAll(RanAll(d))
    BY <1>5 DEF End
  <2> QED
    BY <1>3, <2>1, AllFinishes
<1>6. CASE format = "fst"
  <2> DEFINE p == FstIsText(d)
  <2>1. d' = PrintedAll(RanAll(p))
    BY <1>6 DEF End
  <2>2. Follows(p, read, fed)
    BY <1>2, <1>6, FstIsTextStep
  <2> HIDE DEF p
  <2>3. Finishes(p, fed)
    BY <1>2, <2>2, FollowsFinishes
  <2> QED
    BY <2>1, <2>3, AllFinishes
<1>7. CASE format = "matxin"
  <2> DEFINE p == MatxinEnd(d)
  <2>1. d' = PrintedAll(RanAll(p))
    BY <1>7 DEF End
  <2>2. Finishes(p, fed)
    BY <1>2, <1>7, MatxinFinishes
  <2> HIDE DEF p
  <2> QED
    BY <2>1, <2>2, AllFinishes
<1>8. CASE format = "jsonl"
  <2>1. d' = PrintedAll(JsonlEnd(d))
    BY <1>8 DEF End
  <2> QED
    BY <1>2, <2>1, JsonlFinishes
<1>9. CASE format = "apertium"
  <2>1. d' = ApertiumFlush(d, <<>>)
    BY <1>9 DEF End
  <2> QED
    BY <1>2, <1>9, <2>1, ApertiumFinishes
<1>10. CASE format = "binary"
  <2>1. d' = PrintedAll(RanAll(d))
    BY <1>10 DEF End, BinaryFlush
  <2> QED
    BY <1>3, <2>1, AllFinishes
<1> QED
  BY <1>1, <1>4, <1>5, <1>6, <1>7, <1>8, <1>9, <1>10 DEF FormatNames

LEMMA EndKeeps ==
  ASSUME Inv, End
  PROVE  Inv'
<1>1. phase' = "ended" /\ format' = format /\ fed' = fed /\ read' = read
  BY DEF End
<1>2. Finishes(d', fed)
  BY EndFinishes
<1>3. InputInOrder'
  BY <1>1, <1>2, ToldInOrder DEF InputInOrder, Finishes
<1> QED
  BY <1>1, <1>3 DEF Inv

LEMMA SameKeeps ==
  ASSUME Inv, UNCHANGED vars
  PROVE  Inv'
<1>1. phase' = phase /\ format' = format /\ d' = d /\ fed' = fed /\ read' = read
  BY DEF vars
<1> QED
  BY <1>1 DEF Inv, InputInOrder, Pending

LEMMA InitInv ==
  ASSUME Init
  PROVE  Inv
<1>1. /\ format \in FormatNames /\ fed = <<>> /\ read = 0 /\ phase = "reading"
      /\ d = Fresh(format # "matxin")
  BY FormatsAssumption DEF Init
<1>2. /\ d.prev = <<>> /\ d.cur = NoWin /\ d.next = <<>> /\ d.win = <<>> /\ d.out = <<>>
      /\ d.cSw = NoWin /\ d.lSw = NoWin /\ d.cCoh = NoCohort /\ d.lCoh = 0
      /\ d.blank = <<>>
  BY <1>1 DEF Fresh
<1>3. d \in DocumentType
  <2>1. (format # "matxin") \in BOOLEAN /\ <<>> \in Seq(Nat) /\ <<>> \in Seq(WindowType)
        /\ <<>> \in Text /\ NoWin \in Nat /\ NoVar \in Nat /\ NoCohort \in CohortType
        /\ 0 \in Int /\ {} \in SUBSET Nat
    BY NoCohortIs, EmptyText DEF NoWin, NoVar
  <2> QED
    BY <1>1, <2>1 DEF Fresh, DocumentType
<1>4. /\ Len(d.prev) = 0 /\ Len(d.next) = 0 /\ Len(d.win) = 0 /\ Running(d) = 0
      /\ Queued(d) = 0 /\ Printed(d) = 0
  <2>1. Len(d.prev) = 0 /\ Len(d.next) = 0 /\ Len(d.win) = 0 /\ Running(d) = 0
    BY <1>2, EmptySeq DEF Running
  <2>2. Queued(d) = 0
    BY <2>1 DEF Queued
  <2> QED
    BY <2>1, <2>2 DEF Printed
<1>5. InTurn(d)
  BY <1>2, <1>4 DEF InTurn
<1>6. Held(d) = <<>> /\ Written(d) = <<>>
  <2>1. Held(d) = <<>>
    BY <1>4, FlatEmpty DEF Held
  <2> QED
    BY <1>2, <2>1, EmptyText, TextConcat DEF Written
<1>7. Sound(d, 0)
  BY <1>2, <1>3, <1>4, <1>5 DEF Sound, Windows, Unflushed, Filling, NoWin
<1>8. Buffered(d) = <<>>
  BY <1>2, EmptyText, TextConcat DEF Buffered
<1>9. Core(d, 0)
  BY <1>2, <1>7, NoCohortIs DEF Core, Bound
<1>10. Pending(d)
  BY <1>2, <1>8, NoCohortIs DEF Pending, Tracked
<1>11. Told(d) \o d.blank = fed
  BY <1>1, <1>2, <1>6, EmptyText, TextConcat, NoCohortIs DEF Told
<1>12. InputInOrder
  BY <1>3, <1>5, <1>11, ToldInOrder DEF InputInOrder
<1> QED
  BY <1>1, <1>9, <1>10, <1>11, <1>12, EmptyText DEF Inv

LEMMA NextInv ==
  ASSUME Inv, [Next]_vars
  PROVE  Inv'
<1>1. CASE ReadCohort
  BY <1>1, ReadCohortKeeps
<1>2. CASE ReadWords
  BY <1>2, ReadWordsKeeps
<1>3. CASE ReadText
  BY <1>3, ReadTextKeeps
<1>4. CASE ReadBlankLine
  BY <1>4, ReadBlankLineKeeps
<1>5. CASE ReadPacket
  BY <1>5, ReadPacketKeeps
<1>6. CASE ReadSetvar
  BY <1>6, ReadSetvarKeeps
<1>7. CASE ReadRemvar
  BY <1>7, ReadRemvarKeeps
<1>8. CASE ReadFlush
  BY <1>8, ReadFlushKeeps
<1>9. CASE ReadIgnore
  BY <1>9, ReadIgnoreKeeps
<1>10. CASE ReadExit
  BY <1>10, ReadExitKeeps
<1>11. CASE End
  BY <1>11, EndKeeps
<1>12. CASE Finished
  BY <1>12, SameKeeps DEF Finished
<1>13. CASE UNCHANGED vars
  BY <1>13, SameKeeps
<1> QED
  BY <1>1, <1>2, <1>3, <1>4, <1>5, <1>6, <1>7, <1>8, <1>9, <1>10, <1>11, <1>12, <1>13
     DEF Next

\* At any moment, for each of the seven readers, for any --num-windows, --soft-limit
\* and --hard-limit and any number of lines, units or packets (a line of plain text
\* has at most three words, a packet two cohorts): what was written, followed by
\* what the live windows, the pending cohort and the pending blanks hold, is the
\* input in the order it has to come out.  No reader loses, doubles or reorders a
\* cohort, a text or a flush, nor writes into a window that was already printed,
\* except that the marks that end a word of plain text come out from the last to
\* the first, and a text packet of the binary stream before the windows that wait.
THEOREM InputInOrderHolds == Spec => []InputInOrder
<1>1. Init => Inv
  BY InitInv
<1>2. Inv /\ [Next]_vars => Inv'
  BY NextInv
<1>3. Inv => InputInOrder
  BY DEF Inv
<1> QED
  BY <1>1, <1>2, <1>3, PTL DEF Spec
=============================================================================
