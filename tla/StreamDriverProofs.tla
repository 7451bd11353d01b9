------------------------- MODULE StreamDriverProofs -------------------------
(* Proofs about StreamDriver, for every value of its constants. First the   *)
(* stream of windows it extends (WindowStream): facts on sequences without  *)
(* repetition, the invariant of the stream (StreamInv) and what each stream *)
(* operation does to it; then the steps of the driver.                      *)
EXTENDS StreamDriver, SequenceTheorems, TLAPS

\* Appending: what the new sequence holds, and that nothing is repeated.
LEMMA AppendHolds ==
  ASSUME NEW S, NEW s \in Seq(S), NEW x \in S
  PROVE  /\ Append(s, x) \in Seq(S)
         /\ ToSet(Append(s, x)) = ToSet(s) \cup {x}
         /\ IsInjective(s) /\ x \notin ToSet(s) => IsInjective(Append(s, x))
  BY AppendProperties DEF ToSet, IsInjective

\* Appending by concatenation, as Document and shuffle_windows_down write it.
LEMMA ConcatOne ==
  ASSUME NEW S, NEW s \in Seq(S), NEW x \in S
  PROVE  s \o <<x>> = Append(s, x)
  BY AppendIsConcat

\* Taking the first element off.
LEMMA TailHolds ==
  ASSUME NEW S, NEW s \in Seq(S), s # <<>>, IsInjective(s)
  PROVE  /\ Head(s) \in S
         /\ Tail(s) \in Seq(S)
         /\ ToSet(Tail(s)) = ToSet(s) \ {Head(s)}
         /\ Head(s) \in ToSet(s)
         /\ IsInjective(Tail(s))
<1>1. /\ Head(s) = s[1] /\ Head(s) \in S
      /\ Len(s) \in Nat \ {0}
      /\ Tail(s) \in Seq(S) /\ Len(Tail(s)) = Len(s) - 1
      /\ \A i \in 1 .. Len(s) - 1 : Tail(s)[i] = s[i + 1]
  BY HeadTailProperties
<1>2. DOMAIN s = 1 .. Len(s) /\ DOMAIN Tail(s) = 1 .. Len(s) - 1
  BY <1>1
<1>3. IsInjective(Tail(s))
  BY <1>1, <1>2 DEF IsInjective
<1>4. ASSUME NEW y \in ToSet(s) \ {Head(s)}
      PROVE  y \in ToSet(Tail(s))
  <2>1. PICK j \in 2 .. Len(s) : s[j] = y
    BY <1>1, <1>2 DEF ToSet
  <2>2. j - 1 \in DOMAIN Tail(s) /\ Tail(s)[j - 1] = y
    BY <1>1, <1>2, <2>1
  <2> QED
    BY <2>2 DEF ToSet
<1>5. ASSUME NEW y \in ToSet(Tail(s))
      PROVE  y \in ToSet(s) \ {Head(s)}
  <2>1. PICK i \in 1 .. Len(s) - 1 : Tail(s)[i] = y
    BY <1>2 DEF ToSet
  <2>2. i + 1 \in DOMAIN s /\ s[i + 1] = y /\ i + 1 # 1 /\ 1 \in DOMAIN s
    BY <1>1, <1>2, <2>1
  <2> QED
    BY <1>1, <2>2 DEF ToSet, IsInjective
<1> QED
  BY <1>1, <1>2, <1>3, <1>4, <1>5 DEF ToSet

\* A sequence of one element.
LEMMA OneHolds ==
  ASSUME NEW S, NEW x \in S
  PROVE  /\ <<x>> \in Seq(S)
         /\ ToSet(<<x>>) = {x}
         /\ IsInjective(<<x>>)
  BY DEF ToSet, IsInjective

\* One sequence after another.
LEMMA ConcatHolds ==
  ASSUME NEW S, NEW a \in Seq(S), NEW b \in Seq(S)
  PROVE  /\ a \o b \in Seq(S)
         /\ ToSet(a \o b) = ToSet(a) \cup ToSet(b)
         /\ IsInjective(a) /\ IsInjective(b) /\ ToSet(a) \cap ToSet(b) = {}
              => IsInjective(a \o b)
<1>1. /\ a \o b \in Seq(S)
      /\ Len(a) \in Nat /\ Len(b) \in Nat
      /\ DOMAIN a = 1 .. Len(a) /\ DOMAIN b = 1 .. Len(b)
      /\ DOMAIN (a \o b) = 1 .. Len(a) + Len(b)
      /\ \A i \in 1 .. Len(a) + Len(b) :
           (a \o b)[i] = IF i <= Len(a) THEN a[i] ELSE b[i - Len(a)]
  BY ConcatProperties, LenProperties
<1>2. ASSUME NEW j \in 1 .. Len(b)
      PROVE  /\ Len(a) + j \in 1 .. Len(a) + Len(b)
             /\ (a \o b)[Len(a) + j] = b[j]
  BY <1>1
<1>3. ASSUME NEW i \in 1 .. Len(a) + Len(b), i > Len(a)
      PROVE  i - Len(a) \in 1 .. Len(b) /\ (a \o b)[i] = b[i - Len(a)]
  BY <1>1, <1>3
<1>4. ASSUME NEW i \in 1 .. Len(a)
      PROVE  i \in 1 .. Len(a) + Len(b) /\ (a \o b)[i] = a[i]
  BY <1>1
<1>5. ToSet(a \o b) \subseteq ToSet(a) \cup ToSet(b)
  <2> SUFFICES ASSUME NEW i \in 1 .. Len(a) + Len(b)
               PROVE  (a \o b)[i] \in ToSet(a) \cup ToSet(b)
    BY <1>1 DEF ToSet
  <2>1. CASE i <= Len(a)
    BY <1>1, <2>1 DEF ToSet
  <2>2. CASE i > Len(a)
    BY <1>1, <1>3, <2>2 DEF ToSet
  <2> QED
    BY <1>1, <2>1, <2>2
<1>6. ToSet(a) \cup ToSet(b) \subseteq ToSet(a \o b)
  <2>1. ASSUME NEW i \in 1 .. Len(a)
        PROVE  a[i] \in ToSet(a \o b)
    BY <1>1, <1>4 DEF ToSet
  <2>2. ASSUME NEW j \in 1 .. Len(b)
        PROVE  b[j] \in ToSet(a \o b)
    BY <1>1, <1>2 DEF ToSet
  <2> QED
    BY <1>1, <2>1, <2>2 DEF ToSet
<1>7. ASSUME IsInjective(a), IsInjective(b), ToSet(a) \cap ToSet(b) = {}
      PROVE  IsInjective(a \o b)
  <2>0. ASSUME NEW i \in 1 .. Len(a), NEW j \in 1 .. Len(b)
        PROVE  a[i] # b[j]
    BY <1>1, <1>7 DEF ToSet
  <2> SUFFICES ASSUME NEW i \in 1 .. Len(a) + Len(b),
                      NEW j \in 1 .. Len(a) + Len(b),
                      (a \o b)[i] = (a \o b)[j]
               PROVE  i = j
    BY <1>1 DEF IsInjective
  <2>1. CASE i <= Len(a) /\ j <= Len(a)
    BY <1>1, <1>7, <2>1 DEF IsInjective
  <2>2. CASE i > Len(a) /\ j > Len(a)
    <3>1. i - Len(a) = j - Len(a)
      <4>1. /\ i - Len(a) \in 1 .. Len(b) /\ j - Len(a) \in 1 .. Len(b)
            /\ b[i - Len(a)] = b[j - Len(a)]
        BY <1>1, <1>3, <2>2
      <4> QED
        BY <1>1, <1>7, <4>1 DEF IsInjective
    <3> QED
      BY <1>1, <3>1
  <2>3. CASE i <= Len(a) /\ j > Len(a)
    BY <1>1, <1>3, <2>0, <2>3
  <2>4. CASE i > Len(a) /\ j <= Len(a)
    BY <1>1, <1>3, <2>0, <2>4
  <2> QED
    BY <1>1, <2>1, <2>2, <2>3, <2>4
<1> QED
  BY <1>1, <1>5, <1>6, <1>7

\* Putting an element in front.
LEMMA ConsHolds ==
  ASSUME NEW S, NEW s \in Seq(S), NEW x \in S
  PROVE  /\ <<x>> \o s \in Seq(S)
         /\ ToSet(<<x>> \o s) = ToSet(s) \cup {x}
         /\ IsInjective(s) /\ x \notin ToSet(s) => IsInjective(<<x>> \o s)
<1>1. /\ <<x>> \in Seq(S) /\ ToSet(<<x>>) = {x} /\ IsInjective(<<x>>)
  BY OneHolds
<1>2. /\ <<x>> \o s \in Seq(S)
      /\ ToSet(<<x>> \o s) = ToSet(<<x>>) \cup ToSet(s)
      /\ IsInjective(<<x>>) /\ IsInjective(s) /\ ToSet(<<x>>) \cap ToSet(s) = {}
           => IsInjective(<<x>> \o s)
  BY <1>1, ConcatHolds
<1> QED
  BY <1>1, <1>2

\* A sequence cut before position k.
LEMMA SplitHolds ==
  ASSUME NEW S, NEW s \in Seq(S), NEW k \in 1 .. Len(s) + 1
  PROVE  /\ SubSeq(s, 1, k - 1) \in Seq(S)
         /\ SubSeq(s, k, Len(s)) \in Seq(S)
         /\ ToSet(s) = ToSet(SubSeq(s, 1, k - 1)) \cup ToSet(SubSeq(s, k, Len(s)))
         /\ IsInjective(s) =>
              /\ IsInjective(SubSeq(s, 1, k - 1))
              /\ IsInjective(SubSeq(s, k, Len(s)))
              /\ ToSet(SubSeq(s, 1, k - 1)) \cap ToSet(SubSeq(s, k, Len(s))) = {}
<1> DEFINE a == SubSeq(s, 1, k - 1)
           b == SubSeq(s, k, Len(s))
<1>1. /\ a \in Seq(S) /\ DOMAIN a = 1 .. k - 1
      /\ \A i \in 1 .. k - 1 : a[i] = s[i]
  BY SubSeqProperties, LenProperties
<1>2. /\ b \in Seq(S) /\ DOMAIN b = 1 .. Len(s) - k + 1
      /\ \A i \in 1 .. Len(s) - k + 1 : b[i] = s[k + i - 1]
  BY SubSeqProperties, LenProperties
<1>3. DOMAIN s = 1 .. Len(s) /\ Len(s) \in Nat
  BY LenProperties
<1> HIDE DEF a, b
<1>4. ASSUME NEW j \in 1 .. Len(s)
      PROVE  s[j] \in ToSet(a) \cup ToSet(b)
  <2>1. CASE j < k
    BY <1>1, <2>1 DEF ToSet
  <2>2. CASE j >= k
    <3>1. j - k + 1 \in DOMAIN b /\ b[j - k + 1] = s[j]
      BY <1>2, <1>3, <2>2
    <3> QED
      BY <3>1 DEF ToSet
  <2> QED
    BY <2>1, <2>2
<1>5. ASSUME NEW i \in DOMAIN a
      PROVE  i \in DOMAIN s /\ a[i] = s[i] /\ i < k
  BY <1>1, <1>3
<1>6. ASSUME NEW i \in DOMAIN b
      PROVE  k + i - 1 \in DOMAIN s /\ b[i] = s[k + i - 1] /\ k + i - 1 >= k
  BY <1>2, <1>3
<1>7. ToSet(s) = ToSet(a) \cup ToSet(b)
  BY <1>3, <1>4, <1>5, <1>6 DEF ToSet
<1>8. ASSUME IsInjective(s)
      PROVE  IsInjective(a) /\ IsInjective(b) /\ ToSet(a) \cap ToSet(b) = {}
  <2>1. IsInjective(a)
    BY <1>5, <1>8 DEF IsInjective
  <2>2. IsInjective(b)
    <3> SUFFICES ASSUME NEW i \in DOMAIN b, NEW j \in DOMAIN b, b[i] = b[j]
                 PROVE  i = j
      BY DEF IsInjective
    <3>1. k + i - 1 = k + j - 1
      BY <1>6, <1>8 DEF IsInjective
    <3> QED
      BY <1>2, <3>1
  <2>3. ASSUME NEW i \in DOMAIN a, NEW j \in DOMAIN b
        PROVE  a[i] # b[j]
    BY <1>3, <1>5, <1>6, <1>8 DEF IsInjective
  <2> QED
    BY <2>1, <2>2, <2>3 DEF ToSet
<1> QED
  BY <1>1, <1>2, <1>7, <1>8 DEF a, b

\* Putting an element in at a position.
LEMMA InsertHolds ==
  ASSUME NEW S, NEW s \in Seq(S), NEW x \in S, NEW k \in 1 .. Len(s) + 1
  PROVE  /\ InsertAt(s, k, x) \in Seq(S)
         /\ ToSet(InsertAt(s, k, x)) = ToSet(s) \cup {x}
         /\ IsInjective(s) /\ x \notin ToSet(s)
              => IsInjective(InsertAt(s, k, x))
<1> DEFINE a == SubSeq(s, 1, k - 1)
           b == SubSeq(s, k, Len(s))
<1>1. /\ a \in Seq(S) /\ b \in Seq(S)
      /\ ToSet(s) = ToSet(a) \cup ToSet(b)
      /\ IsInjective(s) => /\ IsInjective(a) /\ IsInjective(b)
                           /\ ToSet(a) \cap ToSet(b) = {}
  BY SplitHolds
<1>2. InsertAt(s, k, x) = a \o <<x>> \o b
  BY DEF InsertAt
<1> HIDE DEF a, b
<1>3. /\ <<x>> \in Seq(S) /\ ToSet(<<x>>) = {x} /\ IsInjective(<<x>>)
  BY OneHolds
<1>4. /\ a \o <<x>> \in Seq(S)
      /\ ToSet(a \o <<x>>) = ToSet(a) \cup ToSet(<<x>>)
      /\ IsInjective(a) /\ IsInjective(<<x>>) /\ ToSet(a) \cap ToSet(<<x>>) = {}
           => IsInjective(a \o <<x>>)
  BY <1>1, <1>3, ConcatHolds
<1>5. /\ a \o <<x>> \o b \in Seq(S)
      /\ ToSet(a \o <<x>> \o b) = ToSet(a \o <<x>>) \cup ToSet(b)
      /\ IsInjective(a \o <<x>>) /\ IsInjective(b)
            /\ ToSet(a \o <<x>>) \cap ToSet(b) = {}
              => IsInjective(a \o <<x>> \o b)
  BY <1>1, <1>4, ConcatHolds
<1> QED
  BY <1>1, <1>2, <1>3, <1>4, <1>5

-----------------------------------------------------------------------------
Handle == Nat \ {NoWin}

\* What every operation on the stream keeps: a window is in one place of the
\* document, the live windows are those of the document, and no window has a
\* number beyond the counter.
StreamInv ==
  /\ window_counter \in Nat
  /\ previous \in Seq(Handle)
  /\ next \in Seq(Handle)
  /\ current \in Nat
  /\ IsInjective(previous)
  /\ IsInjective(next)
  /\ ToSet(previous) \cap ToSet(next) = {}
  /\ current \notin ToSet(previous) \cup ToSet(next)
  /\ DOMAIN win = (ToSet(previous) \cup ToSet(next) \cup {current}) \ {NoWin}
  /\ \A w \in DOMAIN win : w <= window_counter

\* The elements of a list of handles are handles.
LEMMA HoldsHandles ==
  ASSUME NEW s \in Seq(Handle)
  PROVE  ToSet(s) \subseteq Handle
  BY DEF ToSet

\* The empty list holds nothing, and nothing twice.
LEMMA EmptyHolds == ToSet(<<>>) = {} /\ IsInjective(<<>>)
  BY DEF ToSet, IsInjective

\* The next handle is new.
LEMMA FreshHandle ==
  ASSUME StreamInv
  PROVE  /\ window_counter + 1 \in Handle
         /\ window_counter + 1 \notin DOMAIN win
         /\ window_counter + 1 \notin ToSet(previous) \cup ToSet(next)
         /\ window_counter + 1 # current
<1>1. ToSet(previous) \subseteq Handle /\ ToSet(next) \subseteq Handle
  BY HoldsHandles DEF StreamInv
<1> QED
  BY <1>1 DEF StreamInv, Handle, NoWin

\* An empty stream is sound.
LEMMA InitStreamInv == InitStream => StreamInv
  BY EmptyHolds DEF InitStream, StreamInv, Handle, NoWin

\* StreamInv is about the places and the handles only: a step that changes
\* what windows hold keeps it.
LEMMA SamePlaces ==
  ASSUME StreamInv, UNCHANGED <<previous, current, next, window_counter>>,
         DOMAIN win' = DOMAIN win
  PROVE  StreamInv'
  BY DEF StreamInv

\* A window put somewhere in next.
LEMMA PlacedInNext ==
  ASSUME StreamInv,
         UNCHANGED <<previous, current>>,
         window_counter' = window_counter + 1,
         next' \in Seq(Handle),
         ToSet(next') = ToSet(next) \cup {window_counter + 1},
         IsInjective(next) /\ window_counter + 1 \notin ToSet(next)
           => IsInjective(next'),
         DOMAIN win' = DOMAIN win \cup {window_counter + 1}
  PROVE  StreamInv'
<1>1. /\ window_counter + 1 \in Handle
      /\ window_counter + 1 \notin DOMAIN win
      /\ window_counter + 1 \notin ToSet(previous) \cup ToSet(next)
      /\ window_counter + 1 # current
  BY FreshHandle
<1>2. IsInjective(next')
  BY <1>1 DEF StreamInv
<1>3. ToSet(previous') \cap ToSet(next') = {}
  BY <1>1 DEF StreamInv
<1>4. current' \notin ToSet(previous') \cup ToSet(next')
  BY <1>1 DEF StreamInv
<1>5. DOMAIN win' = (ToSet(previous') \cup ToSet(next') \cup {current'}) \ {NoWin}
  BY <1>1 DEF StreamInv, Handle
<1>6. \A w \in DOMAIN win' : w <= window_counter'
  <2>1. \A w \in DOMAIN win : w \in Nat /\ w <= window_counter
    BY HoldsHandles DEF StreamInv, Handle
  <2> QED
    BY <2>1 DEF StreamInv
<1>7. /\ window_counter' \in Nat
      /\ previous' \in Seq(Handle)
      /\ current' \in Nat
      /\ IsInjective(previous')
  BY DEF StreamInv
<1>8. next' \in Seq(Handle)
  OBVIOUS
<1> QED
  BY <1>2, <1>3, <1>4, <1>5, <1>6, <1>7, <1>8, Zenon DEF StreamInv

\* Adding a window adds its handle to the live ones.
LEMMA ExtendedDomain ==
  ASSUME NEW f, NEW w, NEW rec
  PROVE  DOMAIN Extended(f, w, rec) = DOMAIN f \cup {w}
  BY DEF Extended

\* Rebuilding the links makes no window live or dead.
LEMMA RelinkedDomain ==
  ASSUME NEW f, NEW order
  PROVE  DOMAIN Relinked(f, order) = DOMAIN f
  BY DEF Relinked

\* alloc_append_single_window keeps the stream sound.
LEMMA AllocAppendInv ==
  ASSUME StreamInv, NEW rec, AllocAppend(rec)
  PROVE  StreamInv'
<1> DEFINE id == window_counter + 1
           prv == IF next = <<>> THEN NoWin ELSE Last(next)
           linked == IF next = <<>> THEN win ELSE [win EXCEPT ![prv].nxt = id]
           new == [rec EXCEPT !.prv = prv]
<1>1. id \in Handle
  BY FreshHandle
<1>2. /\ next' = Append(next, id)
      /\ win' = Extended(linked, id, new)
      /\ window_counter' = id
      /\ UNCHANGED <<previous, current>>
  BY DEF AllocAppend
<1>3. DOMAIN linked = DOMAIN win
  OBVIOUS
<1> HIDE DEF id, linked, new
<1>4. DOMAIN win' = DOMAIN win \cup {id}
  BY <1>2, <1>3 DEF Extended
<1>5. next \in Seq(Handle)
  BY DEF StreamInv
<1>6. /\ next' \in Seq(Handle)
      /\ ToSet(next') = ToSet(next) \cup {id}
      /\ IsInjective(next) /\ id \notin ToSet(next) => IsInjective(next')
  BY <1>1, <1>2, <1>5, AppendHolds
<1> QED
  BY <1>2, <1>4, <1>6, PlacedInNext DEF id

\* Splitting the running window keeps the stream sound.
LEMMA DelimitCurrentInv ==
  ASSUME StreamInv, NEW k, DelimitCurrent(k)
  PROVE  StreamInv'
<1> DEFINE id == window_counter + 1
<1>1. id \in Handle
  BY FreshHandle
<1>2. /\ next' = <<id>> \o next
      /\ window_counter' = id
      /\ UNCHANGED <<previous, current>>
  BY DEF DelimitCurrent
<1>3. DOMAIN win' = DOMAIN win \cup {id}
  <2> DEFINE front == IF next = <<>> THEN NoWin ELSE Head(next)
             cut == [win EXCEPT ![current] =
                       [Truncated(current, k) EXCEPT !.nxt = id]]
             linked == IF next = <<>> THEN cut ELSE [cut EXCEPT ![front].prv = id]
             tail == [Tailing(current, k) EXCEPT !.prv = current, !.nxt = front]
  <2>1. win' = Extended(linked, id, tail)
    BY DEF DelimitCurrent
  <2>2. DOMAIN cut = DOMAIN win
    OBVIOUS
  <2> HIDE DEF cut
  <2>3. DOMAIN linked = DOMAIN cut
    OBVIOUS
  <2> HIDE DEF linked, tail, id
  <2>4. DOMAIN Extended(linked, id, tail) = DOMAIN linked \cup {id}
    BY DEF Extended
  <2> QED
    BY <2>1, <2>2, <2>3, <2>4
<1> HIDE DEF id
<1>4. next \in Seq(Handle)
  BY DEF StreamInv
<1>5. /\ next' \in Seq(Handle)
      /\ ToSet(next') = ToSet(next) \cup {id}
      /\ IsInjective(next) /\ id \notin ToSet(next) => IsInjective(next')
  BY <1>1, <1>2, <1>4, ConsHolds
<1> QED
  BY <1>2, <1>3, <1>5, PlacedInNext DEF id

\* Splitting a waiting window keeps the stream sound.
LEMMA DelimitNextInv ==
  ASSUME StreamInv, NEW w, NEW k, DelimitNext(w, k)
  PROVE  StreamInv'
<1> DEFINE id == window_counter + 1
           cut == [win EXCEPT ![w] = Truncated(w, k)]
           tail == Tailing(w, k)
<1>1. id \in Handle
  BY FreshHandle
<1>2. PICK pos \in DOMAIN next :
        /\ next' = InsertAt(next, pos + 1, id)
        /\ win' = Relinked(Extended(cut, id, tail),
                           previous \o Running \o InsertAt(next, pos + 1, id))
        /\ window_counter' = id
        /\ UNCHANGED <<previous, current>>
  BY DEF DelimitNext
<1>3. DOMAIN cut = DOMAIN win
  OBVIOUS
<1> HIDE DEF cut, tail, id
<1>4. DOMAIN Extended(cut, id, tail) = DOMAIN cut \cup {id}
  BY DEF Extended
<1>5. DOMAIN win' = DOMAIN win \cup {id}
  BY <1>2, <1>3, <1>4, RelinkedDomain
<1>6. next \in Seq(Handle) /\ pos + 1 \in 1 .. Len(next) + 1
  BY <1>2, LenProperties DEF StreamInv
<1>7. /\ next' \in Seq(Handle)
      /\ ToSet(next') = ToSet(next) \cup {id}
      /\ IsInjective(next) /\ id \notin ToSet(next) => IsInjective(next')
  BY <1>1, <1>2, <1>6, InsertHolds
<1> QED
  BY <1>2, <1>5, <1>7, PlacedInNext DEF id

\* shuffle_windows_down keeps the stream sound.
LEMMA ShuffleDownInv ==
  ASSUME StreamInv, NEW snapshot, ShuffleDown(snapshot)
  PROVE  StreamInv'
<1>1. DOMAIN win' = DOMAIN win
  BY DEF ShuffleDown
<1>2. /\ previous' \in Seq(Handle)
      /\ ToSet(previous') = ToSet(previous) \cup ({current} \ {NoWin})
      /\ IsInjective(previous')
  <2>1. CASE current = NoWin
    <3>1. previous' = previous
      BY <2>1 DEF ShuffleDown, Running, StreamInv
    <3> QED
      BY <2>1, <3>1 DEF StreamInv
  <2>2. CASE current # NoWin
    <3>1. current \in Handle
      BY <2>2 DEF StreamInv, Handle
    <3>2. previous' = Append(previous, current)
      BY <2>2, <3>1, ConcatOne DEF ShuffleDown, Running, StreamInv
    <3> QED
      BY <2>2, <3>1, <3>2, AppendHolds DEF StreamInv
  <2> QED
    BY <2>1, <2>2
<1>3. CASE next = <<>>
  <2>1. next' = <<>> /\ current' = NoWin
    BY <1>3 DEF ShuffleDown
  <2>2. NoWin \notin ToSet(previous')
    BY HoldsHandles, <1>2 DEF StreamInv, Handle
  <2> QED
    BY <1>1, <1>2, <1>3, <2>1, <2>2, EmptyHolds
       DEF ShuffleDown, StreamInv, NoWin
<1>4. CASE next # <<>>
  <2>1. next' = Tail(next) /\ current' = Head(next)
    BY <1>4 DEF ShuffleDown
  <2>2. /\ Head(next) \in Handle
        /\ Tail(next) \in Seq(Handle)
        /\ ToSet(Tail(next)) = ToSet(next) \ {Head(next)}
        /\ Head(next) \in ToSet(next)
        /\ IsInjective(Tail(next))
    BY <1>4, TailHolds DEF StreamInv
  <2>3. /\ ToSet(previous') \cap ToSet(next') = {}
        /\ current' \notin ToSet(previous') \cup ToSet(next')
    BY <1>2, <2>1, <2>2 DEF StreamInv
  <2>4. DOMAIN win' = (ToSet(previous') \cup ToSet(next') \cup {current'}) \ {NoWin}
    BY <1>1, <1>2, <2>1, <2>2 DEF StreamInv
  <2> QED
    BY <1>1, <1>2, <2>1, <2>2, <2>3, <2>4 DEF ShuffleDown, StreamInv, Handle
<1> QED
  BY <1>3, <1>4

\* free_swindow on the oldest window keeps the stream sound.
LEMMA FreeFirstInv ==
  ASSUME StreamInv, previous # <<>>, FreeFirst
  PROVE  StreamInv'
<1>1. /\ Head(previous) \in Handle
      /\ Tail(previous) \in Seq(Handle)
      /\ ToSet(Tail(previous)) = ToSet(previous) \ {Head(previous)}
      /\ Head(previous) \in ToSet(previous)
      /\ IsInjective(Tail(previous))
  BY TailHolds DEF StreamInv
<1>2. DOMAIN win' = DOMAIN win \ {Head(previous)}
  BY DEF FreeFirst
<1>3. previous' = Tail(previous) /\ UNCHANGED <<current, next, window_counter>>
  BY DEF FreeFirst
<1>4. DOMAIN win' = (ToSet(previous') \cup ToSet(next') \cup {current'}) \ {NoWin}
  BY <1>1, <1>2, <1>3 DEF StreamInv
<1> QED
  BY <1>1, <1>2, <1>3, <1>4 DEF StreamInv

\* A step that touches no part of the stream keeps its places right.
LEMMA UnchangedStream ==
  ASSUME StreamInv, UNCHANGED stream
  PROVE  StreamInv'
  BY SamePlaces DEF stream

\* A cohort put into a window changes no place and no handle.
LEMMA AppendedDomain ==
  ASSUME NEW f, NEW w
  PROVE  DOMAIN Appended(f, w) = DOMAIN f
  BY DEF Appended

\* Closing the window being filled (run_grammar.rs, breaks (b) and (c)) keeps
\* the places of windows right.
LEMMA CloseWindowInv ==
  ASSUME StreamInv, CloseWindow
  PROVE  StreamInv'
  BY AppendedDomain, SamePlaces DEF CloseWindow

\* So does putting the read cohort into its window at a FLUSH or at the end.
LEMMA FinishCohortInv ==
  ASSUME StreamInv, NEW f, DOMAIN f = DOMAIN win, FinishCohort(f)
  PROVE  StreamInv'
<1>1. DOMAIN win' = DOMAIN win
  BY AppendedDomain DEF FinishCohort
<1> QED
  BY <1>1, SamePlaces DEF FinishCohort

\* So does a text line, wherever it goes.
LEMMA AttachTextInv ==
  ASSUME StreamInv, AttachText
  PROVE  StreamInv'
<1>1. DOMAIN win' = DOMAIN win
  BY DEF AttachText
<1> QED
  BY <1>1, SamePlaces DEF AttachText

\* So does printing and freeing the oldest window.
LEMMA PrintInv ==
  ASSUME StreamInv, NEW step, PrintFirst(step)
  PROVE  StreamInv'
  BY FreeFirstInv DEF PrintFirst

\* So does moving every window one place down while draining.
LEMMA DrainInv ==
  ASSUME StreamInv, NEW step, NEW printing, DrainAll(step, printing)
  PROVE  StreamInv'
  BY ShuffleDownInv DEF DrainAll

\* Every line that is read keeps the places of windows right.
LEMMA ReadLineInv ==
  ASSUME StreamInv, ReadLine
  PROVE  StreamInv'
<1>1. CASE CohortLine
  BY <1>1, UnchangedStream DEF CohortLine
<1>2. CASE DepBreak
  BY <1>2, AllocAppendInv DEF DepBreak
<1>3. CASE TextLine
  BY <1>3, AttachTextInv DEF TextLine
<1>4. CASE DelimiterLine
  <2>1. CASE l_swindow # NoWin /\ c_cohort # NoCohort
    <3>1. DOMAIN win' = DOMAIN win
      BY <1>4, <2>1, AppendedDomain DEF DelimiterLine
    <3> QED
      BY <1>4, <2>1, <3>1, SamePlaces DEF DelimiterLine
  <2>2. CASE ~(l_swindow # NoWin /\ c_cohort # NoCohort)
    BY <1>4, <2>2, AttachTextInv DEF DelimiterLine
  <2> QED
    BY <2>1, <2>2
<1>5. CASE SetvarLine
  BY <1>5, UnchangedStream DEF SetvarLine
<1>6. CASE SetvarListLine \/ RemvarLine
  BY <1>6, UnchangedStream DEF SetvarListLine, RemvarLine
<1>7. CASE FlushLine
  <2> DEFINE f == IF Back = NoWin THEN win
                  ELSE [win EXCEPT ![Back].flush_after = received']
  <2>1. FinishCohort(f)
    BY <1>7 DEF FlushLine
  <2>2. DOMAIN f = DOMAIN win
    OBVIOUS
  <2> HIDE DEF f
  <2> QED
    BY <2>1, <2>2, FinishCohortInv
<1>8. CASE ExitLine
  BY <1>8, UnchangedStream DEF ExitLine
<1>9. CASE EndOfFile
  BY <1>9, UnchangedStream DEF EndOfFile
<1> QED
  BY <1>1, <1>2, <1>3, <1>4, <1>5, <1>6, <1>7, <1>8, <1>9 DEF ReadLine

\* Every step of the handling of a line keeps the places of windows right.
LEMMA HandleLineInv ==
  ASSUME StreamInv, HandleLine
  PROVE  StreamInv'
<1>1. CASE BinaryWindow
  BY <1>1, AllocAppendInv DEF BinaryWindow
<1>2. CASE SoftLookback
  BY <1>2, DelimitNextInv, UnchangedStream DEF SoftLookback
<1>3. CASE SoftBreak
  BY <1>3, CloseWindowInv, UnchangedStream DEF SoftBreak
<1>4. CASE HardBreak
  BY <1>4, CloseWindowInv, UnchangedStream DEF HardBreak
<1>5. CASE OpenWindow
  BY <1>5, AllocAppendInv, UnchangedStream DEF OpenWindow
<1>6. CASE AttachCohort
  <2>1. DOMAIN win' = DOMAIN win
    BY <1>6, AppendedDomain DEF AttachCohort
  <2> QED
    BY <1>6, <2>1, SamePlaces DEF AttachCohort
<1>7. CASE DrainOne
  BY <1>7, ShuffleDownInv DEF DrainOne
<1>8. CASE NewCohort
  <2>1. DOMAIN win' = DOMAIN win
    BY <1>8 DEF NewCohort
  <2> QED
    BY <1>8, <2>1, SamePlaces DEF NewCohort
<1>9. CASE RunWindow
  BY <1>9, UnchangedStream DEF RunWindow
<1>10. CASE RetireWindow
  <2>1. previous # <<>>
    BY <1>10, DriverAssumption DEF RetireWindow
  <2> QED
    BY <1>10, <2>1, FreeFirstInv DEF RetireWindow
<1>11. CASE StartPass
  BY <1>11, UnchangedStream DEF StartPass
<1>12. CASE DelimitRule
  BY <1>12, DelimitCurrentInv DEF DelimitRule
<1>13. CASE EndRun
  BY <1>13, UnchangedStream DEF EndRun
<1>14. CASE DrainAll("flush", "flushprint") \/ DrainAll("eofdrain", "eofprint")
  BY <1>14, DrainInv
<1>15. CASE PrintFirst("flushprint") \/ PrintFirst("eofprint")
  BY <1>15, PrintInv
<1>16. CASE EndFlush
  BY <1>16, UnchangedStream DEF EndFlush
<1>17. CASE FinishInput
  BY <1>17, FinishCohortInv DEF FinishInput
<1>18. CASE LastVariables
  BY <1>18, AllocAppendInv, UnchangedStream DEF LastVariables
<1>19. CASE EndOutput
  BY <1>19, UnchangedStream DEF EndOutput
<1> QED
  BY <1>1, <1>2, <1>3, <1>4, <1>5, <1>6, <1>7, <1>8, <1>9, <1>10, <1>11, <1>12,
     <1>13, <1>14, <1>15, <1>16, <1>17, <1>18, <1>19 DEF HandleLine

\* The places and handles of windows are right in every state, whatever the
\* input, the limits and the grammar.
THEOREM StreamSound == Spec => []StreamInv
<1>1. Init => StreamInv
  BY InitStreamInv DEF Init
<1>2. StreamInv /\ [Next]_vars => StreamInv'
  <2> SUFFICES ASSUME StreamInv, [Next]_vars
               PROVE  StreamInv'
    OBVIOUS
  <2>1. CASE ReadLine
    BY <2>1, ReadLineInv
  <2>2. CASE HandleLine
    BY <2>2, HandleLineInv
  <2>3. CASE Panic
    BY <2>3, UnchangedStream DEF Panic
  <2>4. CASE UNCHANGED vars
    BY <2>4, UnchangedStream DEF vars
  <2> QED
    BY <2>1, <2>2, <2>3, <2>4 DEF Next
<1> QED
  BY <1>1, <1>2, PTL DEF Spec

\* Read as one sequence, the document of a sound stream repeats no window and
\* holds the live ones.
LEMMA DocumentHolds ==
  ASSUME StreamInv
  PROVE  NoLeak
<1>1. previous \in Seq(Handle) /\ next \in Seq(Handle)
  BY DEF StreamInv
<1>2. /\ Running \in Seq(Handle)
      /\ ToSet(Running) = {current} \ {NoWin}
      /\ IsInjective(Running)
  <2>1. CASE current = NoWin
    BY <2>1, EmptyHolds DEF Running
  <2>2. CASE current # NoWin
    <3>1. current \in Handle
      BY <2>2 DEF StreamInv, Handle
    <3> QED
      BY <2>2, <3>1, OneHolds DEF Running
  <2> QED
    BY <2>1, <2>2
<1> DEFINE upto == previous \o Running
<1>3. /\ upto \in Seq(Handle)
      /\ ToSet(upto) = ToSet(previous) \cup ToSet(Running)
      /\ IsInjective(previous) /\ IsInjective(Running)
           /\ ToSet(previous) \cap ToSet(Running) = {} => IsInjective(upto)
  BY <1>1, <1>2, ConcatHolds
<1>4. Document = upto \o next
  BY DEF Document
<1> HIDE DEF upto
<1>5. /\ ToSet(Document) = ToSet(upto) \cup ToSet(next)
      /\ IsInjective(upto) /\ IsInjective(next)
           /\ ToSet(upto) \cap ToSet(next) = {} => IsInjective(Document)
  BY <1>1, <1>3, <1>4, ConcatHolds
<1>6. ToSet(previous) \subseteq Handle /\ ToSet(next) \subseteq Handle
  BY <1>1, HoldsHandles
<1>7. ToSet(previous) \cap ToSet(Running) = {} /\ ToSet(upto) \cap ToSet(next) = {}
  BY <1>2, <1>3, <1>6 DEF StreamInv, Handle
<1>8. DOMAIN win = ToSet(Document)
  BY <1>2, <1>3, <1>5, <1>6 DEF StreamInv, Handle
<1> QED
  BY <1>2, <1>3, <1>5, <1>7, <1>8 DEF NoLeak, StreamInv

\* No window leaks and none is freed while the document still holds it.
THEOREM NoLeakHolds == Spec => []NoLeak
<1>1. Spec => []StreamInv
  BY StreamSound
<1>2. StreamInv => NoLeak
  BY DocumentHolds
<1> QED
  BY <1>1, <1>2, PTL

-----------------------------------------------------------------------------
(* Type correctness.  The places of windows are typed by StreamInv; what is *)
(* left is the content of windows (WinTyped) and the driver's own state     *)
(* (DriverTyped), with the fact that a window is current while rules run.   *)

WinTyped == win \in [DOMAIN win -> Window]

DriverTyped ==
  /\ pc \in Steps
  /\ received \in Nat
  /\ {c_swindow, l_swindow} \subseteq 0 .. window_counter
  /\ c_cohort \in Cohort \cup {NoCohort}
  /\ kind \in {"plain", "soft", "hard", "none"}
  /\ pending_var \in Deltas
  /\ {did_soft_lookback, variable, dep_seen, bare_flush, streamvar}
       \subseteq BOOLEAN
  /\ pass \in 0 .. MaxPass
  /\ caller \in {"newcohort", "flush", "eofdrain"}
  /\ due \in [Handles -> BOOLEAN]

RunningCurrent ==
  /\ pc = "drain" => next # <<>>
  /\ pc \in {"run", "retire", "rules"} => current # NoWin

TypeInv == StreamInv /\ WinTyped /\ DriverTyped /\ RunningCurrent

\* A sequence of handles that are all below the counter.
LEMMA NarrowSeq ==
  ASSUME NEW s \in Seq(Handle), NEW n \in Nat, \A x \in ToSet(s) : x <= n
  PROVE  s \in Seq(1 .. n)
<1>1. \A i \in 1 .. Len(s) : s[i] \in 1 .. n
  BY HoldsHandles DEF ToSet, Handle, NoWin
<1> QED
  BY <1>1

PlacesInRange ==
  /\ previous \in Seq(Handles) /\ next \in Seq(Handles)
  /\ current \in 0 .. window_counter
  /\ DOMAIN win \subseteq Handles

\* No place holds a handle that was never allocated.
LEMMA StreamInRange == StreamInv => PlacesInRange
<1> SUFFICES ASSUME StreamInv
             PROVE  PlacesInRange
  OBVIOUS
<1>1. ToSet(previous) \subseteq Handle /\ ToSet(next) \subseteq Handle
  BY HoldsHandles DEF StreamInv
<1>2. \A w \in ToSet(previous) \cup ToSet(next) : w <= window_counter
  BY <1>1 DEF StreamInv, Handle
<1>3. previous \in Seq(Handles) /\ next \in Seq(Handles)
  <2>1. /\ previous \in Seq(Handle) /\ next \in Seq(Handle)
        /\ window_counter \in Nat
    BY DEF StreamInv
  <2> QED
    BY <1>2, <2>1, NarrowSeq DEF Handles
<1>4. current \in 0 .. window_counter
  BY DEF StreamInv, NoWin
<1>5. DOMAIN win \subseteq Handles
  <2>1. \A w \in DOMAIN win : w \in Nat \ {NoWin}
    BY <1>1 DEF StreamInv, Handle
  <2> QED
    BY <2>1 DEF StreamInv, Handles, NoWin
<1> QED
  BY <1>3, <1>4, <1>5 DEF PlacesInRange

\* The same, place by place.
LEMMA PlacesTyped ==
  ASSUME StreamInv
  PROVE  /\ previous \in Seq(Handles) /\ next \in Seq(Handles)
         /\ current \in 0 .. window_counter
         /\ DOMAIN win \subseteq Handles
  BY StreamInRange DEF PlacesInRange

\* The inductive invariant implies the type invariant that the runs check.
LEMMA TypeInvTypeOK == TypeInv => TypeOK
  BY PlacesTyped DEF TypeInv, StreamInv, WinTyped, DriverTyped, TypeOK

\* The types only grow: more items are read, more windows are allocated.
LEMMA TypesGrow ==
  ASSUME received \in Nat, received' \in Nat, received <= received',
         window_counter \in Nat, window_counter' \in Nat,
         window_counter <= window_counter'
  PROVE  /\ Seq(Items) \subseteq Seq(Items')
         /\ Cohort \subseteq Cohort'
         /\ Window \subseteq Window'
<1>1. Items \subseteq Items'
  BY DEF Items
<1>2. Seq(Items) \subseteq Seq(Items')
  BY <1>1, SeqMonotonic
<1>3. Cohort \subseteq Cohort'
  BY <1>1, <1>2 DEF Cohort
<1>4. Seq(Cohort) \subseteq Seq(Cohort')
  BY <1>3, SeqMonotonic
<1>5. Window \subseteq Window'
  BY <1>2, <1>4 DEF Window, Deltas
<1> QED
  BY <1>2, <1>3, <1>5

\* A window as the allocator leaves it is a window.
LEMMA FreshTyped ==
  ASSUME NEW v \in Deltas, window_counter \in Nat, received \in Nat
  PROVE  [FreshWindow EXCEPT !.variables = v] \in Window
<1>1. <<>> \in Seq(Items) /\ <<>> \in Seq(Cohort)
  OBVIOUS
<1>2. [FreshWindow EXCEPT !.variables = v] =
        [cohorts |-> <<>>, text |-> <<>>, text_post |-> <<>>, flush_after |-> 0,
         variables |-> v, prv |-> 0, nxt |-> 0]
  BY DEF FreshWindow, NoWin
<1>3. 0 \in 0 .. received /\ 0 \in 0 .. window_counter
  OBVIOUS
<1> QED
  BY <1>1, <1>2, <1>3 DEF Window

\* A cohort put into a window.
LEMMA AppendedTyped ==
  ASSUME NEW D, NEW f \in [D -> Window'], NEW w \in D, c_cohort \in Cohort'
  PROVE  Appended(f, w) \in [D -> Window']
<1>1. f[w].cohorts \in Seq(Cohort')
  BY DEF Window
<1>2. Append(f[w].cohorts, c_cohort) \in Seq(Cohort')
  BY <1>1, AppendProperties
<1>3. [f[w] EXCEPT !.cohorts = Append(f[w].cohorts, c_cohort)] \in Window'
  BY <1>2 DEF Window
<1> QED
  BY <1>3 DEF Appended

\* A step that allocates no window and reads no item changes no type.
LEMMA SameTypes ==
  ASSUME UNCHANGED <<received, window_counter>>
  PROVE  /\ Items' = Items /\ Cohort' = Cohort /\ Window' = Window
         /\ Handles' = Handles
  BY DEF Items, Cohort, Window, Handles, Deltas

\* The variable of a window just allocated.
LEMMA DueGrows ==
  ASSUME window_counter \in Nat, window_counter' = window_counter + 1,
         due \in [Handles -> BOOLEAN], NEW v \in BOOLEAN
  PROVE  Append(due, v) \in [Handles' -> BOOLEAN]
<1>1. due \in Seq(BOOLEAN) /\ Len(due) = window_counter
  BY DEF Handles
<1>2. /\ Append(due, v) \in Seq(BOOLEAN)
      /\ Len(Append(due, v)) = window_counter + 1
  BY <1>1, AppendProperties
<1> QED
  BY <1>2, LenProperties DEF Handles

\* The windows of a step that allocates one.
LEMMA ExtendedTyped ==
  ASSUME NEW T, NEW D, NEW f \in [D -> T], NEW w, NEW rec \in T
  PROVE  Extended(f, w, rec) \in [D \cup {w} -> T]
  BY DEF Extended

\* What a step that allocates one window does to the ranges of handles.
LEMMA CounterGrows ==
  ASSUME TypeInv, received' = received, window_counter' = window_counter + 1
  PROVE  /\ window_counter + 1 \in 0 .. window_counter'
         /\ window_counter' \in Nat
         /\ 0 .. window_counter \subseteq 0 .. window_counter'
         /\ Window \subseteq Window'
         /\ Cohort \subseteq Cohort'
  BY TypesGrow DEF TypeInv, StreamInv, DriverTyped

\* alloc_append_single_window leaves every window typed.
LEMMA AllocAppendTyped ==
  ASSUME TypeInv, received' = received, NEW rec \in Window, AllocAppend(rec)
  PROVE  WinTyped'
<1> DEFINE id == window_counter + 1
           prv == IF next = <<>> THEN NoWin ELSE Last(next)
           linked == IF next = <<>> THEN win ELSE [win EXCEPT ![prv].nxt = id]
           new == [rec EXCEPT !.prv = prv]
<1>1. win' = Extended(linked, id, new) /\ window_counter' = id
  BY DEF AllocAppend
<1>2. /\ id \in 0 .. window_counter'
      /\ 0 .. window_counter \subseteq 0 .. window_counter'
      /\ Window \subseteq Window'
  BY <1>1, CounterGrows
<1>3. prv \in 0 .. window_counter
  <2>1. CASE next = <<>>
    BY <2>1 DEF NoWin, TypeInv, StreamInv
  <2>2. CASE next # <<>>
    BY <2>2, PlacesTyped DEF Last, Handles, TypeInv, StreamInv
  <2> QED
    BY <2>1, <2>2
<1>4. win \in [DOMAIN win -> Window']
  BY <1>2 DEF TypeInv, WinTyped
<1>5. \A w \in DOMAIN win : [win[w] EXCEPT !.nxt = id] \in Window'
  BY <1>2, <1>4 DEF Window
<1>6. linked \in [DOMAIN win -> Window']
  BY <1>4, <1>5
<1>7. new \in Window'
  BY <1>2, <1>3 DEF Window
<1> HIDE DEF linked, new, id
<1>8. win' \in [DOMAIN win \cup {id} -> Window']
  BY <1>1, <1>6, <1>7, ExtendedTyped
<1> QED
  BY <1>8 DEF WinTyped

\* shuffle_windows_down leaves every window typed.
LEMMA ShuffleDownTyped ==
  ASSUME TypeInv, received' = received, NEW snapshot \in Deltas,
         ShuffleDown(snapshot)
  PROVE  WinTyped'
<1>1. Window' = Window
  BY DEF ShuffleDown, Window, Cohort, Items, Deltas
<1>2. \A w \in DOMAIN win : [win[w] EXCEPT !.variables = snapshot] \in Window
  BY DEF TypeInv, WinTyped, Window
<1> QED
  BY <1>1, <1>2 DEF ShuffleDown, TypeInv, WinTyped

\* Freeing the oldest window leaves the other windows typed.
LEMMA FreeFirstTyped ==
  ASSUME TypeInv, received' = received, previous # <<>>, FreeFirst
  PROVE  WinTyped'
<1> DEFINE w == Head(previous)
           p == win[w].prv
           n == win[w].nxt
           others == [x \in DOMAIN win \ {w} |-> win[x]]
           spliced == [x \in DOMAIN others |->
                         IF x = n THEN [others[x] EXCEPT !.prv = p]
                         ELSE IF x = p THEN [others[x] EXCEPT !.nxt = n]
                         ELSE others[x]]
<1>1. win' = spliced
  BY DEF FreeFirst
<1>2. w \in DOMAIN win
  <2>1. /\ Head(previous) \in ToSet(previous)
        /\ Head(previous) \in Handle
    BY TailHolds DEF TypeInv, StreamInv
  <2> QED
    BY <2>1 DEF TypeInv, StreamInv, Handle
<1>3. others \in [DOMAIN win \ {w} -> Window]
  BY DEF TypeInv, WinTyped
<1>4. p \in 0 .. window_counter /\ n \in 0 .. window_counter
  BY <1>2 DEF TypeInv, WinTyped, Window
<1> HIDE DEF others, p, n
<1>5. ASSUME NEW x \in DOMAIN win \ {w}
      PROVE  /\ [others[x] EXCEPT !.prv = p] \in Window
             /\ [others[x] EXCEPT !.nxt = n] \in Window
             /\ others[x] \in Window
  BY <1>3, <1>4 DEF Window
<1>6. spliced \in [DOMAIN win \ {w} -> Window]
  BY <1>3, <1>5
<1>7. Window' = Window
  BY DEF FreeFirst, Window, Cohort, Items, Deltas
<1> QED
  BY <1>1, <1>6, <1>7 DEF WinTyped

\* The two halves of a window that is split.
LEMMA HalvesTyped ==
  ASSUME TypeInv, NEW w \in DOMAIN win, NEW k \in 1 .. Len(win[w].cohorts)
  PROVE  Truncated(w, k) \in Window /\ Tailing(w, k) \in Window
<1>1. win[w] \in Window
  BY DEF TypeInv, WinTyped
<1>2. win[w].cohorts \in Seq(Cohort)
  BY <1>1 DEF Window
<1>3. /\ SubSeq(win[w].cohorts, 1, k) \in Seq(Cohort)
      /\ SubSeq(win[w].cohorts, k + 1, Len(win[w].cohorts)) \in Seq(Cohort)
  <2>1. Len(win[w].cohorts) \in Nat
    BY <1>2, LenProperties
  <2>2. \A i \in 1 .. Len(win[w].cohorts) : win[w].cohorts[i] \in Cohort
    BY <1>2, ElementOfSeq
  <2>3. \A i \in 1 .. k : win[w].cohorts[i] \in Cohort
    BY <2>1, <2>2
  <2>4. \A i \in k + 1 .. Len(win[w].cohorts) : win[w].cohorts[i] \in Cohort
    BY <2>1, <2>2
  <2> QED
    BY <2>1, <2>3, <2>4, SubSeqProperties
<1>4. <<>> \in Seq(Items) /\ <<>> \in Seq(Cohort) /\ 0 \in 0 .. received /\ 0 \in 0 .. window_counter
      /\ {} \in Deltas
  BY DEF TypeInv, StreamInv, DriverTyped, Deltas
<1>5. Truncated(w, k) \in Window
  BY <1>1, <1>3, <1>4 DEF Truncated, Window
<1>6. FreshWindow \in Window
  BY <1>4 DEF FreshWindow, Window, NoWin
<1>7. Tailing(w, k) \in Window
  BY <1>1, <1>3, <1>6 DEF Tailing, Window
<1> QED
  BY <1>5, <1>7

\* Splitting the running window leaves every window typed.
LEMMA DelimitCurrentTyped ==
  ASSUME TypeInv, received' = received, current # NoWin,
         NEW k \in 1 .. Len(win[current].cohorts), DelimitCurrent(k)
  PROVE  WinTyped'
<1> DEFINE id == window_counter + 1
           front == IF next = <<>> THEN NoWin ELSE Head(next)
           cut == [win EXCEPT ![current] =
                     [Truncated(current, k) EXCEPT !.nxt = id]]
           linked == IF next = <<>> THEN cut ELSE [cut EXCEPT ![front].prv = id]
           tail == [Tailing(current, k) EXCEPT !.prv = current, !.nxt = front]
<1>1. win' = Extended(linked, id, tail) /\ window_counter' = id
  BY DEF DelimitCurrent
<1>2. /\ id \in 0 .. window_counter'
      /\ 0 .. window_counter \subseteq 0 .. window_counter'
      /\ Window \subseteq Window'
  BY <1>1, CounterGrows
<1>3. current \in 0 .. window_counter /\ front \in 0 .. window_counter
  <2>1. CASE next = <<>>
    BY <2>1, PlacesTyped DEF NoWin, TypeInv, StreamInv
  <2>2. CASE next # <<>>
    BY <2>2, PlacesTyped, HeadTailProperties DEF Handles, TypeInv, StreamInv
  <2> QED
    BY <2>1, <2>2
<1>4. current \in DOMAIN win
  BY DEF TypeInv, StreamInv
<1>5. Truncated(current, k) \in Window' /\ Tailing(current, k) \in Window'
  BY <1>2, <1>4, HalvesTyped
<1> HIDE DEF id, front
<1>6. [Truncated(current, k) EXCEPT !.nxt = id] \in Window'
  BY <1>2, <1>5 DEF Window
<1>7. tail \in Window'
  BY <1>2, <1>3, <1>5 DEF Window
<1>8. cut \in [DOMAIN win -> Window']
  BY <1>2, <1>6 DEF TypeInv, WinTyped
<1> HIDE DEF cut, tail
<1>9. \A w \in DOMAIN win : [cut[w] EXCEPT !.prv = id] \in Window'
  BY <1>2, <1>8 DEF Window
<1>10. linked \in [DOMAIN win -> Window']
  BY <1>8, <1>9
<1> HIDE DEF linked
<1>11. win' \in [DOMAIN win \cup {id} -> Window']
  BY <1>1, <1>7, <1>10, ExtendedTyped
<1> QED
  BY <1>11 DEF WinTyped

\* Links taken from a list of handles.
LEMMA RelinkedTyped ==
  ASSUME NEW D, NEW f \in [D -> Window'], NEW order \in Seq(Handles'),
         window_counter' \in Nat
  PROVE  Relinked(f, order) \in [D -> Window']
<1>1. \A i \in 1 .. Len(order) : order[i] \in 0 .. window_counter'
  BY ElementOfSeq DEF Handles
<1>2. SUFFICES ASSUME NEW x \in D
               PROVE  Relinked(f, order)[x] \in Window'
  BY DEF Relinked
<1>3. CASE \E i \in DOMAIN order : order[i] = x
  <2>1. PICK i \in 1 .. Len(order) :
          Relinked(f, order)[x] =
            [f[x] EXCEPT !.prv = IF i = 1 THEN NoWin ELSE order[i - 1],
                         !.nxt = IF i = Len(order) THEN NoWin ELSE order[i + 1]]
    BY <1>3, LenProperties DEF Relinked
  <2>2. /\ (IF i = 1 THEN NoWin ELSE order[i - 1]) \in 0 .. window_counter'
        /\ (IF i = Len(order) THEN NoWin ELSE order[i + 1])
             \in 0 .. window_counter'
    BY <1>1, LenProperties DEF NoWin
  <2>3. f[x] \in Window'
    OBVIOUS
  <2> QED
    BY <2>1, <2>2, <2>3 DEF Window
<1>4. CASE ~ \E i \in DOMAIN order : order[i] = x
  BY <1>4 DEF Relinked
<1> QED
  BY <1>3, <1>4

\* Splitting a waiting window leaves every window typed.
LEMMA DelimitNextTyped ==
  ASSUME TypeInv, received' = received, NEW w \in DOMAIN win,
         NEW k \in 1 .. Len(win[w].cohorts), DelimitNext(w, k)
  PROVE  WinTyped'
<1> DEFINE id == window_counter + 1
           cut == [win EXCEPT ![w] = Truncated(w, k)]
           tail == Tailing(w, k)
<1>1. PICK pos \in DOMAIN next :
        /\ next' = InsertAt(next, pos + 1, id)
        /\ win' = Relinked(Extended(cut, id, tail),
                           previous \o Running \o InsertAt(next, pos + 1, id))
        /\ window_counter' = id
        /\ UNCHANGED <<previous, current>>
  BY DEF DelimitNext
<1>2. Window \subseteq Window' /\ window_counter' \in Nat
  BY <1>1, CounterGrows
<1>3. StreamInv'
  BY DelimitNextInv DEF TypeInv
<1>4. PlacesInRange'
  <2>1. (StreamInv => PlacesInRange)'
    BY StreamInRange, PTL
  <2> QED
    BY <1>3, <2>1
<1>5. /\ previous' \in Seq(Handles') /\ next' \in Seq(Handles')
      /\ Running \in Seq(Handles')
  <2>1. current # NoWin => current \in Handles'
    BY <1>1, <1>4 DEF PlacesInRange, Handles, NoWin
  <2>2. CASE current = NoWin
    BY <1>4, <2>2 DEF PlacesInRange, Running
  <2>3. CASE current # NoWin
    BY <1>4, <2>1, <2>3, OneHolds DEF PlacesInRange, Running
  <2> QED
    BY <2>2, <2>3
<1>6. previous \o Running \o next' \in Seq(Handles')
  BY <1>1, <1>5, ConcatProperties
<1>7. cut \in [DOMAIN win -> Window'] /\ tail \in Window'
  BY <1>2, HalvesTyped DEF TypeInv, WinTyped
<1> HIDE DEF cut, tail, id
<1>8. Extended(cut, id, tail) \in [DOMAIN win \cup {id} -> Window']
  BY <1>7, ExtendedTyped
<1>9. Relinked(Extended(cut, id, tail), previous \o Running \o next')
        \in [DOMAIN win \cup {id} -> Window']
  BY <1>2, <1>6, <1>8, RelinkedTyped
<1>10. win' \in [DOMAIN win \cup {id} -> Window']
  BY <1>1, <1>9
<1> QED
  BY <1>10 DEF WinTyped

\* Steps that leave every window alone.
LEMMA QuietTyped ==
  ASSUME TypeInv, UNCHANGED <<stream, received>>
  PROVE  /\ WinTyped'
         /\ Items' = Items /\ Cohort' = Cohort /\ Handles' = Handles
  BY SameTypes DEF stream, TypeInv, WinTyped

\* Closing the window being filled leaves every window typed.
LEMMA CloseWindowTyped ==
  ASSUME TypeInv, received' = received, c_cohort # NoCohort,
         Live(c_swindow), CloseWindow
  PROVE  WinTyped'
<1>1. Window' = Window /\ Cohort' = Cohort
  BY SameTypes DEF CloseWindow
<1>2. c_cohort \in Cohort
  BY DEF TypeInv, DriverTyped
<1>3. win' \in [DOMAIN win -> Window']
  BY <1>1, <1>2, AppendedTyped DEF CloseWindow, Live, TypeInv, WinTyped
<1> QED
  BY <1>3 DEF WinTyped

\* Putting the read cohort into its window leaves every window typed.
LEMMA FinishCohortTyped ==
  ASSUME TypeInv, NEW f \in [DOMAIN win -> Window'], Cohort \subseteq Cohort',
         FinishCohort(f)
  PROVE  WinTyped'
<1>1. CASE c_cohort # NoCohort /\ c_swindow # NoWin
  <2>1. c_cohort \in Cohort' /\ c_swindow \in DOMAIN win
    BY <1>1 DEF TypeInv, DriverTyped, FinishCohort, Live
  <2>2. win' \in [DOMAIN win -> Window']
    BY <1>1, <2>1, AppendedTyped DEF FinishCohort
  <2> QED
    BY <2>2 DEF WinTyped
<1>2. CASE ~(c_cohort # NoCohort /\ c_swindow # NoWin)
  BY <1>2 DEF FinishCohort, WinTyped
<1> QED
  BY <1>1, <1>2

\* A line that is an item: the number of items grows by one.
LEMMA ItemRead ==
  ASSUME TypeInv, received' = received + 1, window_counter' = window_counter
  PROVE  /\ received' \in Items' /\ received' \in Nat
         /\ Seq(Items) \subseteq Seq(Items')
         /\ Cohort \subseteq Cohort' /\ Window \subseteq Window'
         /\ Handles' = Handles
<1>1. /\ received \in Nat /\ received' \in Nat /\ received <= received'
      /\ window_counter \in Nat /\ window_counter' \in Nat
      /\ window_counter <= window_counter'
  BY DEF TypeInv, StreamInv, DriverTyped
<1>2. received' \in Items' /\ Handles' = Handles
  BY <1>1 DEF Items, Handles
<1> QED
  BY <1>1, <1>2, TypesGrow

\* A text line leaves every window and the read cohort typed.
LEMMA AttachTextTyped ==
  ASSUME TypeInv, received' = received + 1, AttachText
  PROVE  WinTyped' /\ c_cohort' \in Cohort' \cup {NoCohort}
<1>1. /\ received' \in Items'
      /\ Seq(Items) \subseteq Seq(Items')
      /\ Cohort \subseteq Cohort' /\ Window \subseteq Window'
  BY ItemRead DEF AttachText
<1>2. win \in [DOMAIN win -> Window']
  BY <1>1 DEF TypeInv, WinTyped
<1>3. CASE c_cohort # NoCohort /\ UNCHANGED win
           /\ c_cohort' = [c_cohort EXCEPT !.text = Append(@, received')]
  <2>1. c_cohort \in Cohort'
    BY <1>1, <1>3 DEF TypeInv, DriverTyped
  <2>2. Append(c_cohort.text, received') \in Seq(Items')
    BY <1>1, <2>1, AppendProperties DEF Cohort
  <2>3. c_cohort' \in Cohort'
    BY <1>3, <2>1, <2>2 DEF Cohort
  <2> QED
    BY <1>2, <1>3, <2>3 DEF WinTyped
<1>4. CASE c_cohort = NoCohort /\ Live(l_swindow) /\ UNCHANGED c_cohort
           /\ win' = IF win[l_swindow].text_post # <<>>
                 THEN [win EXCEPT ![l_swindow].text_post = Append(@, received')]
                 ELSE [win EXCEPT ![l_swindow].text = Append(@, received')]
  <2>1. win[l_swindow] \in Window'
    BY <1>2, <1>4 DEF Live
  <2>2. /\ Append(win[l_swindow].text_post, received') \in Seq(Items')
        /\ Append(win[l_swindow].text, received') \in Seq(Items')
    BY <1>1, <2>1, AppendProperties DEF Window
  <2>3. /\ [win[l_swindow] EXCEPT !.text_post = Append(@, received')] \in Window'
        /\ [win[l_swindow] EXCEPT !.text = Append(@, received')] \in Window'
    BY <2>1, <2>2 DEF Window
  <2>4. win' \in [DOMAIN win -> Window']
    BY <1>2, <1>4, <2>3
  <2> QED
    BY <1>4, <2>4 DEF WinTyped
<1>5. CASE c_cohort = NoCohort /\ UNCHANGED <<win, c_cohort>>
  BY <1>2, <1>5 DEF WinTyped
<1> QED
  BY <1>3, <1>4, <1>5 DEF AttachText

\* The driver's own state, in a step that reads no item and allocates no window.
LEMMA DriverKept ==
  ASSUME TypeInv, UNCHANGED <<received, window_counter, due>>,
         c_cohort' \in {c_cohort, NoCohort},
         {c_swindow', l_swindow'} \subseteq {c_swindow, l_swindow, NoWin},
         kind' = kind, pending_var' = pending_var,
         pc' \in Steps, caller' \in {"newcohort", "flush", "eofdrain"},
         did_soft_lookback' \in BOOLEAN, variable' \in BOOLEAN,
         dep_seen' \in BOOLEAN, bare_flush' \in BOOLEAN, streamvar' \in BOOLEAN,
         pass' \in 0 .. MaxPass
  PROVE  DriverTyped'
<1>1. Cohort' = Cohort /\ Handles' = Handles
  BY SameTypes
<1>2. /\ pc' \in Steps' /\ received' \in Nat
      /\ c_cohort' \in Cohort' \cup {NoCohort}
      /\ kind' \in {"plain", "soft", "hard", "none"}
      /\ pending_var' \in Deltas
      /\ due' \in [Handles' -> BOOLEAN]
  BY <1>1 DEF TypeInv, DriverTyped, Steps
<1>3. {c_swindow', l_swindow'} \subseteq 0 .. window_counter'
  BY DEF TypeInv, DriverTyped, StreamInv, NoWin
<1> QED
  BY <1>2, <1>3 DEF DriverTyped, Deltas

\* The same for a step that allocates a window.
LEMMA DriverGrows ==
  ASSUME TypeInv, received' = received, window_counter' = window_counter + 1,
         NEW v \in BOOLEAN, due' = Append(due, v),
         c_cohort' \in {c_cohort, NoCohort},
         {c_swindow', l_swindow'}
           \subseteq {c_swindow, l_swindow, NoWin, window_counter + 1},
         kind' = kind, pending_var' \in Deltas,
         pc' \in Steps, caller' \in {"newcohort", "flush", "eofdrain"},
         did_soft_lookback' \in BOOLEAN, variable' \in BOOLEAN,
         dep_seen' \in BOOLEAN, bare_flush' \in BOOLEAN, streamvar' \in BOOLEAN,
         pass' \in 0 .. MaxPass
  PROVE  DriverTyped'
<1>1. /\ window_counter + 1 \in 0 .. window_counter'
      /\ 0 .. window_counter \subseteq 0 .. window_counter'
      /\ Cohort \subseteq Cohort'
  BY CounterGrows
<1>2. due' \in [Handles' -> BOOLEAN]
  BY DueGrows DEF TypeInv, StreamInv, DriverTyped
<1>3. /\ pc' \in Steps' /\ received' \in Nat
      /\ c_cohort' \in Cohort' \cup {NoCohort}
      /\ kind' \in {"plain", "soft", "hard", "none"}
  BY <1>1 DEF TypeInv, DriverTyped, Steps
<1>4. {c_swindow', l_swindow'} \subseteq 0 .. window_counter'
  BY <1>1 DEF TypeInv, DriverTyped, StreamInv, NoWin
<1> QED
  BY <1>2, <1>3, <1>4 DEF DriverTyped, Deltas

\* The same for a line that is an item; the read cohort is typed by the caller.
LEMMA DriverReads ==
  ASSUME TypeInv, received' = received + 1, window_counter' = window_counter,
         due' \in [Handles -> BOOLEAN], c_cohort' \in Cohort' \cup {NoCohort},
         {c_swindow', l_swindow'} \subseteq {c_swindow, l_swindow, NoWin},
         kind' \in {kind, "none"}, pending_var' \in Deltas, pc' \in Steps,
         UNCHANGED <<caller, variable, streamvar, pass>>,
         did_soft_lookback' \in BOOLEAN, dep_seen' \in BOOLEAN,
         bare_flush' \in BOOLEAN
  PROVE  DriverTyped'
<1>1. Handles' = Handles /\ received' \in Nat
  BY ItemRead
<1>2. {c_swindow', l_swindow'} \subseteq 0 .. window_counter'
  BY DEF TypeInv, DriverTyped, StreamInv, NoWin
<1>3. kind' \in {"plain", "soft", "hard", "none"} /\ pc' \in Steps'
  BY DEF TypeInv, DriverTyped, Steps
<1>4. /\ variable' \in BOOLEAN /\ streamvar' \in BOOLEAN
      /\ pass' \in 0 .. MaxPass
      /\ caller' \in {"newcohort", "flush", "eofdrain"}
  BY DEF TypeInv, DriverTyped
<1> QED
  BY <1>1, <1>2, <1>3, <1>4 DEF DriverTyped, Deltas

\* The parts of the driver's state that no step of the line reader disturbs.
DriverFlags ==
  /\ {did_soft_lookback, variable, dep_seen, bare_flush, streamvar}
       \subseteq BOOLEAN
  /\ pass \in 0 .. MaxPass
  /\ caller \in {"newcohort", "flush", "eofdrain"}
  /\ pending_var \in Deltas
  /\ due \in [Handles -> BOOLEAN]
  /\ {DepDelimit, SoftDelimiters, BinaryOutput} \subseteq BOOLEAN

\* The flags and pending deltas are typed in every state of the invariant.
LEMMA FlagsTyped ==
  ASSUME TypeInv
  PROVE  DriverFlags
  BY DriverAssumption DEF TypeInv, DriverTyped, DriverFlags

\* What a line that is read leaves typed.
LEMMA ReadLineTyped ==
  ASSUME TypeInv, ReadLine
  PROVE  WinTyped' /\ DriverTyped' /\ RunningCurrent'
<1>0. DriverFlags
  BY FlagsTyped
<1>1. CASE CohortLine
  <2>1. WinTyped' /\ Cohort' = Cohort /\ Handles' = Handles
    BY <1>1, QuietTyped DEF CohortLine, Goto
  <2>2. /\ pc' = "lookback" /\ kind' \in {"plain", "soft", "hard", "none"}
        /\ received' = received /\ window_counter' = window_counter
        /\ UNCHANGED <<caller, c_swindow, l_swindow, c_cohort,
             did_soft_lookback, pass, pending_var, variable, dep_seen,
             bare_flush, streamvar, due>>
    BY <1>1, DriverAssumption DEF CohortLine, Goto, stream, Variables, History
  <2>3. DriverTyped'
    BY <1>0, <2>1, <2>2 DEF DriverFlags, TypeInv, DriverTyped, Steps, Deltas
  <2> QED
    BY <2>1, <2>2, <2>3 DEF RunningCurrent
<1>2. CASE DepBreak
  <2>1. [FreshWindow EXCEPT !.variables = pending_var] \in Window
    BY <1>0, FreshTyped DEF DriverFlags, TypeInv, StreamInv, DriverTyped
  <2>2. WinTyped'
    BY <1>2, <2>1, AllocAppendTyped DEF DepBreak
  <2>3. DriverTyped'
    BY <1>0, <1>2, DriverGrows
       DEF DepBreak, NewSWindow, AllocAppend, DriverFlags, Deltas, Steps
  <2> QED
    BY <1>2, <2>2, <2>3 DEF DepBreak, RunningCurrent
<1>3. CASE TextLine
  <2>1. WinTyped' /\ c_cohort' \in Cohort' \cup {NoCohort}
    BY <1>3, AttachTextTyped DEF TextLine, NextItem
  <2>2. DriverTyped'
    BY <1>0, <1>3, <2>1, DriverReads
       DEF TextLine, NextItem, AttachText, DriverFlags, Variables, History, Steps
  <2> QED
    BY <1>3, <2>1, <2>2 DEF TextLine, NextItem, RunningCurrent
<1>4. CASE DelimiterLine /\ l_swindow # NoWin /\ c_cohort # NoCohort
  <2>1. /\ received' \in Items' /\ Seq(Items) \subseteq Seq(Items')
        /\ Cohort \subseteq Cohort' /\ Window \subseteq Window'
    BY <1>4, ItemRead DEF DelimiterLine, NextItem
  <2>2. win \in [DOMAIN win -> Window'] /\ c_cohort \in Cohort'
    BY <1>4, <2>1 DEF TypeInv, WinTyped, DriverTyped
  <2> DEFINE marked == [win EXCEPT ![l_swindow].text_post = Append(@, received')]
  <2>3. Append(win[l_swindow].text_post, received') \in Seq(Items')
    BY <1>4, <2>1, <2>2, AppendProperties DEF Window, DelimiterLine, Live
  <2>4. marked \in [DOMAIN win -> Window']
    BY <1>4, <2>2, <2>3 DEF Window
  <2>5. win' = Appended(marked, c_swindow) /\ c_swindow \in DOMAIN win
    BY <1>4 DEF DelimiterLine, Live
  <2> HIDE DEF marked
  <2>6. win' \in [DOMAIN win -> Window']
    BY <2>2, <2>4, <2>5, AppendedTyped
  <2>7. WinTyped'
    BY <2>6 DEF WinTyped
  <2>8. DriverTyped'
    BY <1>0, <1>4, DriverReads
       DEF DelimiterLine, NextItem, DriverFlags, Variables, History, Steps
  <2> QED
    BY <1>4, <2>7, <2>8 DEF DelimiterLine, NextItem, RunningCurrent
<1>5. CASE DelimiterLine /\ ~(l_swindow # NoWin /\ c_cohort # NoCohort)
  <2>1. WinTyped' /\ c_cohort' \in Cohort' \cup {NoCohort}
    BY <1>5, AttachTextTyped DEF DelimiterLine, NextItem
  <2>2. DriverTyped'
    BY <1>0, <1>5, <2>1, DriverReads
       DEF DelimiterLine, NextItem, AttachText, DriverFlags, Variables, History,
           Steps
  <2> QED
    BY <1>5, <2>1, <2>2 DEF DelimiterLine, NextItem, RunningCurrent
<1>6. CASE SetvarLine \/ SetvarListLine \/ RemvarLine
  <2>1. WinTyped' /\ Cohort' = Cohort /\ Handles' = Handles
    BY <1>6, QuietTyped DEF SetvarLine, SetvarListLine, RemvarLine
  <2>2. /\ pc = "read" /\ pc' = "read"
        /\ received' = received /\ window_counter' = window_counter
        /\ pending_var' \in {{"set"}, {"rem"}} /\ streamvar' \in BOOLEAN
        /\ UNCHANGED <<caller, c_swindow, l_swindow, c_cohort, kind,
             did_soft_lookback, pass, dep_seen, bare_flush, due>>
    BY <1>6 DEF SetvarLine, SetvarListLine, RemvarLine, stream
  <2>3. variable' \in BOOLEAN /\ pending_var' \in Deltas
    <3>1. variable' = variable \/ variable' = (variable \/ c_swindow = NoWin)
      BY <1>6 DEF SetvarLine, SetvarListLine, RemvarLine
    <3> QED
      BY <1>0, <2>2, <3>1 DEF DriverFlags, Deltas
  <2>4. DriverTyped'
    BY <1>0, <2>1, <2>2, <2>3
       DEF DriverFlags, TypeInv, DriverTyped, Steps, Deltas
  <2> QED
    BY <2>1, <2>2, <2>4 DEF RunningCurrent
<1>7. CASE FlushLine
  <2> DEFINE f == IF Back = NoWin THEN win
                  ELSE [win EXCEPT ![Back].flush_after = received']
  <2>1. FinishCohort(f) /\ received' = received + 1
        /\ window_counter' = window_counter
    BY <1>7 DEF FlushLine, Goto, NextItem, FinishCohort
  <2>2. Cohort \subseteq Cohort' /\ Window \subseteq Window' /\ received' \in Nat
    BY <2>1, ItemRead
  <2>3. win \in [DOMAIN win -> Window']
    BY <2>2 DEF TypeInv, WinTyped
  <2>4. \A w \in DOMAIN win :
          [win[w] EXCEPT !.flush_after = received'] \in Window'
    <3>1. received' \in 0 .. received'
      BY <2>2
    <3> QED
      BY <2>3, <3>1 DEF Window
  <2>5. f \in [DOMAIN win -> Window']
    BY <2>3, <2>4
  <2> HIDE DEF f
  <2>6. WinTyped'
    BY <2>1, <2>2, <2>5, FinishCohortTyped
  <2>7. c_cohort' \in Cohort' \cup {NoCohort}
    BY <2>1, <2>2 DEF FinishCohort, TypeInv, DriverTyped
  <2>8. DriverTyped'
    BY <1>0, <1>7, <2>1, <2>7, DriverReads
       DEF FlushLine, Goto, FinishCohort, DriverFlags, Variables, History, Steps
  <2> QED
    BY <1>7, <2>6, <2>8 DEF FlushLine, Goto, RunningCurrent
<1>8. CASE ExitLine \/ EndOfFile
  <2>1. WinTyped'
    BY <1>8, QuietTyped DEF ExitLine, Goto, EndOfFile
  <2>2. DriverTyped'
    BY <1>0, <1>8, DriverKept
       DEF ExitLine, Goto, EndOfFile, stream, DriverFlags, Variables, History, Steps
  <2> QED
    BY <1>8, <2>1, <2>2 DEF ExitLine, Goto, EndOfFile, RunningCurrent
<1> QED
  BY <1>1, <1>2, <1>3, <1>4, <1>5, <1>6, <1>7, <1>8 DEF ReadLine

\* What the steps of the line handler, up to a window run, leave typed.
LEMMA GatherTyped ==
  ASSUME TypeInv,
         \/ BinaryWindow \/ SoftLookback \/ SoftBreak \/ HardBreak
         \/ OpenWindow \/ AttachCohort \/ DrainOne \/ NewCohort
  PROVE  WinTyped' /\ DriverTyped' /\ RunningCurrent'
<1>0. DriverFlags
  BY FlagsTyped
<1>fresh. FreshWindow \in Window
  <2>1. /\ <<>> \in Seq(Items) /\ <<>> \in Seq(Cohort) /\ {} \in Deltas
        /\ 0 \in 0 .. received /\ 0 \in 0 .. window_counter
    BY DEF TypeInv, StreamInv, DriverTyped, Deltas
  <2> QED
    BY <2>1 DEF FreshWindow, Window, NoWin
<1>1. CASE BinaryWindow
  <2>1. WinTyped'
    BY <1>1, <1>fresh, AllocAppendTyped DEF BinaryWindow, Goto
  <2>2. DriverTyped'
    BY <1>0, <1>1, DriverGrows
       DEF BinaryWindow, Goto, NewSWindow, AllocAppend, DriverFlags, Variables, Steps
  <2> QED
    BY <1>1, <2>1, <2>2 DEF BinaryWindow, Goto, RunningCurrent
<1>2. CASE SoftLookback /\ LookbackDue /\ SoftCohorts # {}
  <2>1. PICK k \in SoftCohorts :
          /\ DelimitNext(c_swindow, k)
          /\ c_swindow' = window_counter + 1
          /\ due' = Append(due, due[c_swindow])
          /\ dep_seen' = (\/ dep_seen
                          \/ DepDelimit /\ k < Len(win[c_swindow].cohorts))
          /\ UNCHANGED did_soft_lookback
    BY <1>2 DEF SoftLookback, Goto
  <2>2. c_swindow \in DOMAIN win /\ k \in 1 .. Len(win[c_swindow].cohorts)
    <3>1. c_swindow \in DOMAIN win
      BY <1>2 DEF SoftLookback, Goto, LookbackDue, Live
    <3>2. win[c_swindow].cohorts \in Seq(Cohort)
      BY <3>1 DEF TypeInv, WinTyped, Window
    <3> QED
      BY <3>1, <3>2, LenProperties DEF SoftCohorts
  <2>3. /\ received' = received /\ window_counter' = window_counter + 1
        /\ pc' = "soft"
    BY <1>2, <2>1 DEF SoftLookback, Goto, DelimitNext
  <2>4. WinTyped'
    BY <2>1, <2>2, <2>3, DelimitNextTyped
  <2>5. due[c_swindow] \in BOOLEAN
    BY <1>0, <2>2, PlacesTyped DEF DriverFlags, TypeInv
  <2>6. dep_seen' \in BOOLEAN
    BY <2>1
  <2>7. DriverTyped'
    BY <1>0, <1>2, <2>1, <2>3, <2>5, <2>6, DriverGrows
       DEF SoftLookback, Goto, DriverFlags, Variables, Steps
  <2> QED
    BY <2>3, <2>4, <2>7 DEF RunningCurrent
<1>3. CASE SoftLookback /\ ~(LookbackDue /\ SoftCohorts # {})
  <2>1. UNCHANGED <<stream, received, c_swindow, due, dep_seen>> /\ pc' = "soft"
    BY <1>3 DEF SoftLookback, Goto
  <2>2. WinTyped'
    BY <2>1, QuietTyped
  <2>3. did_soft_lookback' \in BOOLEAN
    BY <1>3 DEF SoftLookback, Goto
  <2>4. DriverTyped'
    BY <1>0, <1>3, <2>1, <2>3, DriverKept
       DEF SoftLookback, Goto, stream, DriverFlags, Variables, Steps
  <2> QED
    BY <2>1, <2>2, <2>4 DEF RunningCurrent
<1>4. CASE SoftBreak \/ HardBreak
  <2>1. /\ \/ c_cohort # NoCohort /\ Live(c_swindow) /\ CloseWindow
           \/ UNCHANGED <<stream, dep_seen, l_swindow, c_swindow, c_cohort,
                          did_soft_lookback>>
        /\ pc' \in {"hard", "open"}
        /\ UNCHANGED <<caller, kind, pass, pending_var, variable, bare_flush,
                       received, streamvar, due>>
    BY <1>4 DEF SoftBreak, Goto, HardBreak, Variables, History
  <2>2. CASE c_cohort # NoCohort /\ Live(c_swindow) /\ CloseWindow
    <3>1. WinTyped'
      BY <2>1, <2>2, CloseWindowTyped
    <3>2. DriverTyped'
      BY <1>0, <2>1, <2>2, DriverKept DEF CloseWindow, DriverFlags, Steps
    <3> QED
      BY <2>1, <3>1, <3>2 DEF RunningCurrent
  <2>3. CASE UNCHANGED <<stream, dep_seen, l_swindow, c_swindow, c_cohort,
                         did_soft_lookback>>
    <3>1. WinTyped'
      BY <2>1, <2>3, QuietTyped
    <3>2. DriverTyped'
      BY <1>0, <2>1, <2>3, DriverKept DEF stream, DriverFlags, Steps
    <3> QED
      BY <2>1, <3>1, <3>2 DEF RunningCurrent
  <2> QED
    BY <2>1, <2>2, <2>3
<1>5. CASE OpenWindow /\ c_swindow = NoWin
  <2>1. WinTyped'
    BY <1>5, <1>fresh, AllocAppendTyped DEF OpenWindow, Goto
  <2>2. DriverTyped'
    BY <1>0, <1>5, DriverGrows
       DEF OpenWindow, Goto, NewSWindow, AllocAppend, DriverFlags, Variables, Steps
  <2> QED
    BY <1>5, <2>1, <2>2 DEF OpenWindow, Goto, RunningCurrent
<1>6. CASE OpenWindow /\ c_swindow # NoWin
  <2>1. WinTyped'
    BY <1>6, QuietTyped DEF OpenWindow, Goto
  <2>2. DriverTyped'
    BY <1>0, <1>6, DriverKept
       DEF OpenWindow, Goto, stream, DriverFlags, Variables, Steps
  <2> QED
    BY <1>6, <2>1, <2>2 DEF OpenWindow, Goto, RunningCurrent
<1>7. CASE AttachCohort
  <2>1. Window' = Window /\ Cohort' = Cohort
    BY <1>7, SameTypes DEF AttachCohort, Goto
  <2>2. WinTyped'
    <3>1. CASE c_cohort # NoCohort
      <4>1. c_cohort \in Cohort' /\ win \in [DOMAIN win -> Window']
        BY <2>1, <3>1 DEF TypeInv, DriverTyped, WinTyped
      <4>2. win' \in [DOMAIN win -> Window']
        BY <1>7, <3>1, <4>1, AppendedTyped DEF AttachCohort, Goto, Live
      <4> QED
        BY <4>2 DEF WinTyped
    <3>2. CASE c_cohort = NoCohort
      BY <1>7, <2>1, <3>2 DEF AttachCohort, Goto, TypeInv, WinTyped
    <3> QED
      BY <3>1, <3>2
  <2>3. dep_seen' \in BOOLEAN /\ pc' \in {"drain", "newcohort"}
    BY <1>0, <1>7 DEF AttachCohort, Goto, DriverFlags
  <2>4. DriverTyped'
    BY <1>0, <1>7, <2>3, DriverKept
       DEF AttachCohort, Goto, DriverFlags, Variables, History, Steps
  <2>5. pc' = "drain" => next' # <<>>
    <3> SUFFICES ASSUME pc' = "drain"
                 PROVE  next' # <<>>
      OBVIOUS
    <3>1. Len(next) > NumWindows + 1 /\ next' = next
      BY <1>7 DEF AttachCohort, Goto, EnoughWaiting
    <3> QED
      BY <3>1, DriverAssumption
  <2> QED
    BY <2>2, <2>3, <2>4, <2>5 DEF RunningCurrent
<1>8. CASE DrainOne
  <2>1. Snapshot \in Deltas
    BY DEF Deltas, Snapshot
  <2>2. WinTyped'
    BY <1>8, <2>1, ShuffleDownTyped DEF DrainOne, Goto
  <2>3. DriverTyped'
    BY <1>0, <1>8, DriverKept
       DEF DrainOne, Goto, ShuffleDown, DriverFlags, Variables, History, Steps
  <2>4. pc' = "run" /\ current' # NoWin
    <3>1. next # <<>> /\ ToSet(next) \subseteq Handle
      BY <1>8, HoldsHandles DEF DrainOne, Goto, TypeInv, RunningCurrent, StreamInv
    <3>2. Head(next) \in Handle
      BY <3>1, TailHolds DEF TypeInv, StreamInv
    <3> QED
      BY <1>8, <3>1, <3>2 DEF DrainOne, Goto, ShuffleDown, Handle
  <2> QED
    BY <2>2, <2>3, <2>4 DEF RunningCurrent
<1>9. CASE NewCohort
  <2>1. /\ received' \in Items' /\ received' \in Nat
        /\ Cohort \subseteq Cohort' /\ Window \subseteq Window'
        /\ c_swindow \in DOMAIN win
    BY <1>9, ItemRead DEF NewCohort, Goto, Live
  <2>2. win \in [DOMAIN win -> Window']
    BY <2>1 DEF TypeInv, WinTyped
  <2>3. WinTyped'
    <3>1. [win[c_swindow] EXCEPT !.variables = @ \cup pending_var] \in Window'
      <4>1. win[c_swindow] \in Window'
        BY <2>1, <2>2
      <4>2. pending_var \subseteq {"set", "rem"}
        BY <1>0 DEF DriverFlags, Deltas
      <4> QED
        BY <4>1, <4>2 DEF Window, Deltas
    <3>2. win' \in [DOMAIN win -> Window']
      <4>1. win' = win \/ win' =
              [win EXCEPT ![c_swindow].variables = @ \cup pending_var]
        BY <1>9 DEF NewCohort, Goto
      <4> QED
        BY <2>2, <3>1, <4>1
    <3> QED
      BY <3>2 DEF WinTyped
  <2>4. c_cohort' \in Cohort'
    <3>1. <<>> \in Seq(Items') /\ kind \in {"plain", "soft", "hard", "none"}
      BY DEF TypeInv, DriverTyped
    <3> QED
      BY <1>9, <2>1, <3>1 DEF NewCohort, Goto, Cohort
  <2>5. due' \in [Handles -> BOOLEAN] /\ pending_var' \in Deltas
    BY <1>0, <1>9 DEF NewCohort, Goto, DriverFlags, Deltas
  <2>6. DriverTyped'
    BY <1>0, <1>9, <2>4, <2>5, DriverReads DEF NewCohort, Goto, DriverFlags, Steps
  <2> QED
    BY <1>9, <2>3, <2>6 DEF NewCohort, Goto, RunningCurrent
<1> QED
  BY <1>1, <1>2, <1>3, <1>4, <1>5, <1>6, <1>7, <1>8, <1>9

\* What the steps of a window run leave typed.
LEMMA RunTyped ==
  ASSUME TypeInv,
         RunWindow \/ RetireWindow \/ StartPass \/ DelimitRule \/ EndRun
  PROVE  WinTyped' /\ DriverTyped' /\ RunningCurrent'
<1>0. DriverFlags /\ MaxPass \in Nat
  BY FlagsTyped, DriverAssumption
<1>1. CASE RunWindow
  <2>1. WinTyped'
    BY <1>1, QuietTyped DEF RunWindow
  <2>2. variable' \in BOOLEAN /\ pass' \in 0 .. MaxPass
    <3>1. variable \in BOOLEAN /\ 0 \in 0 .. MaxPass
      BY <1>0 DEF DriverFlags
    <3>2. variable' = Applied(win[current].variables, variable) /\ pass' = 0
      BY <1>1 DEF RunWindow
    <3>3. variable' \in BOOLEAN
      BY <3>1, <3>2, Zenon DEF Applied
    <3> QED
      BY <3>1, <3>2, <3>3
  <2>3. DriverTyped'
    BY <1>0, <1>1, <2>2, DriverKept
       DEF RunWindow, Goto, stream, DriverFlags, History, Steps
  <2> QED
    BY <1>1, <2>1, <2>3
       DEF RunWindow, Goto, stream, TypeInv, RunningCurrent
<1>2. CASE RetireWindow
  <2>1. previous # <<>>
    BY <1>2, DriverAssumption DEF RetireWindow
  <2>2. WinTyped'
    BY <1>2, <2>1, FreeFirstTyped DEF RetireWindow
  <2>3. DriverTyped'
    BY <1>0, <1>2, DriverKept
       DEF RetireWindow, FreeFirst, DriverFlags, Variables, History, Steps
  <2> QED
    BY <1>2, <2>2, <2>3
       DEF RetireWindow, FreeFirst, TypeInv, RunningCurrent
<1>3. CASE StartPass
  <2>1. WinTyped'
    BY <1>3, QuietTyped DEF StartPass
  <2>2. pass' \in 0 .. MaxPass
    BY <1>0, <1>3 DEF StartPass, DriverFlags
  <2>3. DriverTyped'
    BY <1>0, <1>3, <2>2, DriverKept
       DEF StartPass, Goto, stream, DriverFlags, Variables, History, Steps
  <2> QED
    BY <1>3, <2>1, <2>3
       DEF StartPass, Goto, stream, TypeInv, RunningCurrent
<1>4. CASE DelimitRule
  <2>1. current # NoWin /\ current \in DOMAIN win
    BY <1>4 DEF DelimitRule, TypeInv, RunningCurrent, StreamInv
  <2>2. Len(win[current].cohorts) \in Nat
    BY <2>1, LenProperties DEF TypeInv, WinTyped, Window
  <2>3. PICK k \in 1 .. Len(win[current].cohorts) - 1 : DelimitCurrent(k)
    BY <1>4 DEF DelimitRule
  <2>4. k \in 1 .. Len(win[current].cohorts)
    BY <2>2
  <2>5. /\ window_counter' = window_counter + 1 /\ current' = current
        /\ pc' = "retire" /\ received' = received
    BY <1>4, <2>3 DEF DelimitCurrent, DelimitRule, Goto
  <2>6. WinTyped'
    BY <2>1, <2>3, <2>4, <2>5, DelimitCurrentTyped
  <2>7. due[current] \in BOOLEAN
    BY <1>0, <2>1, PlacesTyped DEF DriverFlags, TypeInv
  <2>8. DriverTyped'
    BY <1>0, <1>4, <2>5, <2>7, DriverGrows
       DEF DelimitRule, DriverFlags, Variables, Steps
  <2> QED
    BY <2>1, <2>5, <2>6, <2>8 DEF RunningCurrent
<1>5. CASE EndRun
  <2>1. WinTyped'
    BY <1>5, QuietTyped DEF EndRun
  <2>2. pass' \in 0 .. MaxPass /\ caller' = "newcohort" /\ pc' = caller
    BY <1>0, <1>5 DEF EndRun, Goto
  <2>3. pc' \in {"newcohort", "flush", "eofdrain"}
    BY <1>0, <2>2 DEF DriverFlags
  <2>4. DriverTyped'
    BY <1>0, <1>5, <2>2, <2>3, DriverKept
       DEF EndRun, stream, DriverFlags, Variables, History, Steps
  <2> QED
    BY <2>1, <2>3, <2>4 DEF RunningCurrent
<1> QED
  BY <1>1, <1>2, <1>3, <1>4, <1>5

\* What draining and printing leave typed.
LEMMA DrainTyped ==
  ASSUME TypeInv, NEW step \in {"flush", "eofdrain"},
         NEW printing \in {"flushprint", "eofprint"}, DrainAll(step, printing)
  PROVE  WinTyped' /\ DriverTyped' /\ RunningCurrent'
<1>0. DriverFlags
  BY FlagsTyped
<1>1. Snapshot \in Deltas
  BY DEF Deltas, Snapshot
<1>2. WinTyped'
  BY <1>1, ShuffleDownTyped DEF DrainAll
<1>3. pc' \in {"run", printing} /\ caller' \in {step, caller}
  BY DEF DrainAll, Goto
<1>4. DriverTyped'
  BY <1>0, <1>3, DriverKept
     DEF DrainAll, ShuffleDown, DriverFlags, Variables, History, Steps
<1>5. pc' = "run" => current' # NoWin
  <2> SUFFICES ASSUME pc' = "run"
               PROVE  current' # NoWin
    OBVIOUS
  <2>1. next # <<>>
    BY DEF DrainAll, Goto
  <2>2. Head(next) \in Handle
    BY <2>1, TailHolds DEF TypeInv, StreamInv
  <2> QED
    BY <2>1, <2>2 DEF DrainAll, ShuffleDown, Handle
<1> QED
  BY <1>2, <1>3, <1>4, <1>5 DEF RunningCurrent

\* Printing the oldest window leaves the state typed.
LEMMA PrintTyped ==
  ASSUME TypeInv, NEW step \in {"flushprint", "eofprint"}, PrintFirst(step)
  PROVE  WinTyped' /\ DriverTyped' /\ RunningCurrent'
<1>0. DriverFlags
  BY FlagsTyped
<1>1. WinTyped'
  BY FreeFirstTyped DEF PrintFirst
<1>2. DriverTyped'
  BY <1>0, DriverKept
     DEF PrintFirst, FreeFirst, DriverFlags, Variables, History, Steps
<1> QED
  BY <1>1, <1>2 DEF PrintFirst, RunningCurrent

\* What the rest of a flush and of the end of the input leave typed.
LEMMA EndingTyped ==
  ASSUME TypeInv, EndFlush \/ FinishInput \/ LastVariables \/ EndOutput
  PROVE  WinTyped' /\ DriverTyped' /\ RunningCurrent'
<1>0. DriverFlags
  BY FlagsTyped
<1>1. CASE EndFlush
  <2>1. WinTyped'
    BY <1>1, QuietTyped DEF EndFlush
  <2>2. DriverTyped'
    BY <1>0, <1>1, DriverKept DEF EndFlush, Goto, stream, DriverFlags, Steps
  <2> QED
    BY <1>1, <2>1, <2>2 DEF EndFlush, Goto, RunningCurrent
<1>2. CASE FinishInput
  <2>1. FinishCohort(win) /\ received' = received /\ pc' = "eofvariables"
    BY <1>2 DEF FinishInput, Goto
  <2>2. Window' = Window /\ Cohort' = Cohort
    BY <2>1, SameTypes DEF FinishCohort
  <2>3. win \in [DOMAIN win -> Window']
    BY <2>2 DEF TypeInv, WinTyped
  <2>4. WinTyped'
    BY <2>1, <2>2, <2>3, FinishCohortTyped
  <2>5. dep_seen' \in BOOLEAN
    BY <1>0, <2>1 DEF FinishCohort, DriverFlags
  <2>6. DriverTyped'
    BY <1>0, <1>2, <2>1, <2>5, DriverKept
       DEF FinishInput, FinishCohort, DriverFlags, Variables, History, Steps
  <2> QED
    BY <2>1, <2>4, <2>6 DEF RunningCurrent
<1>3. CASE LastVariables /\ BinaryOutput /\ pending_var # {}
  <2>1. [FreshWindow EXCEPT !.variables = pending_var] \in Window
    BY <1>0, FreshTyped DEF DriverFlags, TypeInv, StreamInv, DriverTyped
  <2>2. WinTyped'
    BY <1>3, <2>1, AllocAppendTyped DEF LastVariables
  <2>3. pc' = "eofdrain" /\ window_counter' = window_counter + 1
    BY <1>3 DEF LastVariables, AllocAppend, Goto
  <2>4. DriverTyped'
    BY <1>0, <1>3, <2>3, DriverGrows
       DEF LastVariables, DriverFlags, Deltas, Steps
  <2> QED
    BY <2>2, <2>3, <2>4 DEF RunningCurrent
<1>4. CASE LastVariables /\ ~(BinaryOutput /\ pending_var # {})
  <2>1. /\ UNCHANGED <<stream, received, c_swindow, pending_var, due>>
        /\ pc' = "eofdrain"
    BY <1>4 DEF LastVariables, Goto
  <2>2. WinTyped'
    BY <2>1, QuietTyped
  <2>3. DriverTyped'
    BY <1>0, <1>4, <2>1, DriverKept
       DEF LastVariables, stream, DriverFlags, Steps
  <2> QED
    BY <2>1, <2>2, <2>3 DEF RunningCurrent
<1>5. CASE EndOutput
  <2>1. WinTyped'
    BY <1>5, QuietTyped DEF EndOutput
  <2>2. DriverTyped'
    BY <1>0, <1>5, DriverKept
       DEF EndOutput, Goto, stream, DriverFlags, Variables, History, Steps
  <2> QED
    BY <1>5, <2>1, <2>2 DEF EndOutput, Goto, RunningCurrent
<1> QED
  BY <1>1, <1>2, <1>3, <1>4, <1>5

\* A step that is a stutter, or the failed assertion, moves nothing.
LEMMA StopTyped ==
  ASSUME TypeInv, Panic \/ UNCHANGED vars
  PROVE  WinTyped' /\ DriverTyped' /\ RunningCurrent'
<1>0. DriverFlags
  BY FlagsTyped
<1>1. /\ UNCHANGED <<stream, caller, c_swindow, l_swindow, c_cohort, kind,
           did_soft_lookback, pass, Variables, dep_seen, bare_flush, received,
           History>>
      /\ pc' \in {pc, "panic"}
  BY DEF Panic, Goto, vars, driver, Variables, History
<1>2. WinTyped'
  BY <1>1, QuietTyped
<1>3. pc' \in Steps
  BY <1>1 DEF TypeInv, DriverTyped, Steps
<1>4. DriverTyped'
  BY <1>0, <1>1, <1>3, DriverKept DEF stream, DriverFlags, Variables, History
<1> QED
  BY <1>1, <1>2, <1>4 DEF TypeInv, RunningCurrent, stream

\* The driver starts in a state of the inductive invariant.
LEMMA InitTypeInv == Init => TypeInv
<1> SUFFICES ASSUME Init
             PROVE  TypeInv
  OBVIOUS
<1>1. StreamInv
  BY InitStreamInv DEF Init
<1>2. WinTyped
  BY DEF Init, InitStream, WinTyped
<1>3. /\ pc \in {"binary", "read"} /\ 0 \in 0 .. MaxPass
      /\ window_counter = 0 /\ Handles = {} /\ due = <<>>
  BY DriverAssumption DEF Init, InitStream, Handles
<1>4. due \in [Handles -> BOOLEAN]
  BY <1>3
<1>5. DriverTyped
  <2>1. /\ pc \in Steps /\ received \in Nat
        /\ {c_swindow, l_swindow} \subseteq 0 .. window_counter
    BY <1>3 DEF Init, Steps, NoWin
  <2>2. /\ c_cohort \in Cohort \cup {NoCohort}
        /\ kind \in {"plain", "soft", "hard", "none"}
        /\ pending_var \in Deltas
        /\ caller \in {"newcohort", "flush", "eofdrain"}
    BY DEF Init, Deltas
  <2>3. {did_soft_lookback, variable, dep_seen, bare_flush, streamvar}
          \subseteq BOOLEAN
    BY Zenon DEF Init
  <2>4. pass \in 0 .. MaxPass
    BY <1>3 DEF Init
  <2> QED
    BY <1>4, <2>1, <2>2, <2>3, <2>4 DEF DriverTyped
<1>6. RunningCurrent
  BY <1>3 DEF RunningCurrent
<1> QED
  BY <1>1, <1>2, <1>5, <1>6 DEF TypeInv

\* Every step keeps the inductive invariant of type correctness.
LEMMA TypeInvStep == TypeInv /\ [Next]_vars => TypeInv'
<1> SUFFICES ASSUME TypeInv, [Next]_vars
             PROVE  TypeInv'
  OBVIOUS
<1>1. WinTyped' /\ DriverTyped' /\ RunningCurrent'
  <2>1. CASE ReadLine
    BY <2>1, ReadLineTyped
  <2>2. CASE HandleLine
    BY <2>2, GatherTyped, RunTyped, DrainTyped, PrintTyped, EndingTyped
       DEF HandleLine
  <2>3. CASE Panic \/ UNCHANGED vars
    BY <2>3, StopTyped
  <2> QED
    BY <2>1, <2>2, <2>3 DEF Next
<1>2. StreamInv'
  <2>1. CASE ReadLine
    BY <2>1, ReadLineInv DEF TypeInv
  <2>2. CASE HandleLine
    BY <2>2, HandleLineInv DEF TypeInv
  <2>3. CASE Panic \/ UNCHANGED vars
    BY <2>3, UnchangedStream DEF Panic, vars, TypeInv
  <2> QED
    BY <2>1, <2>2, <2>3 DEF Next
<1> QED
  BY <1>1, <1>2 DEF TypeInv

\* The state of the driver keeps the types the code declares, whatever the
\* input, the limits and the grammar.
THEOREM TypeCorrect == Spec => []TypeOK
<1>1. Init => TypeInv
  BY InitTypeInv
<1>2. TypeInv /\ [Next]_vars => TypeInv'
  BY TypeInvStep
<1>3. TypeInv => TypeOK
  BY TypeInvTypeOK
<1> QED
  BY <1>1, <1>2, <1>3, PTL DEF Spec

-----------------------------------------------------------------------------
(* NoStaleHandle for every instance that reads no text-delimiter lines and  *)
(* writes text.  Both conditions are needed: a text line after a            *)
(* text-delimiter line and a FLUSH uses the handle of a freed window, and   *)
(* binary output opens a window before there is a cohort, which FLUSH then  *)
(* frees without forgetting its handle.                                     *)

PlainStream == "delimiter" \notin LineKinds /\ BinaryOutput = FALSE

\* The last element of a sequence that grows or shrinks at either end.
LEMMA LastAppended ==
  ASSUME NEW S, NEW s \in Seq(S), NEW x \in S
  PROVE  Append(s, x) # <<>> /\ Last(Append(s, x)) = x
  BY AppendProperties DEF Last

\* Taking the first of several elements off leaves the last one last.
LEMMA LastKeptByTail ==
  ASSUME NEW S, NEW s \in Seq(S), Len(s) > 1
  PROVE  Tail(s) # <<>> /\ Last(Tail(s)) = Last(s)
<1>1. /\ s # <<>> /\ Len(s) \in Nat
      /\ Tail(s) \in Seq(S) /\ Len(Tail(s)) = Len(s) - 1
      /\ \A i \in 1 .. Len(s) - 1 : Tail(s)[i] = s[i + 1]
  BY HeadTailProperties
<1>2. Len(Tail(s)) \in 1 .. Len(s) - 1
  BY <1>1
<1>3. Tail(s)[Len(s) - 1] = s[(Len(s) - 1) + 1]
  BY <1>1, <1>2
<1>4. (Len(s) - 1) + 1 = Len(s)
  BY <1>1
<1>5. Last(Tail(s)) = Last(s)
  BY <1>1, <1>3, <1>4 DEF Last
<1>6. Tail(s) # <<>>
  <2>1. Len(Tail(s)) # 0
    BY <1>1
  <2>2. Len(<<>>) = 0
    BY <1>1, EmptySeq
  <2> QED
    BY <2>1, <2>2, Zenon
<1> QED
  BY <1>5, <1>6

\* So does putting an element in front.
LEMMA LastKeptByCons ==
  ASSUME NEW S, NEW s \in Seq(S), NEW x \in S, s # <<>>
  PROVE  <<x>> \o s # <<>> /\ Last(<<x>> \o s) = Last(s)
<1>1. <<x>> \in Seq(S) /\ Len(<<x>>) = 1
  OBVIOUS
<1>2. /\ <<x>> \o s \in Seq(S)
      /\ Len(<<x>> \o s) = 1 + Len(s)
      /\ \A i \in 1 .. 1 + Len(s) :
           (<<x>> \o s)[i] = IF i <= 1 THEN <<x>>[i] ELSE s[i - 1]
  BY <1>1, ConcatProperties
<1>3. Len(s) \in Nat \ {0}
  BY EmptySeq
<1>4. (<<x>> \o s)[1 + Len(s)] = s[(1 + Len(s)) - 1]
  BY <1>2, <1>3
<1> QED
  BY <1>2, <1>3, <1>4 DEF Last

\* A handle put after the last one of a list becomes the last.
LEMMA LastInserted ==
  ASSUME NEW S, NEW s \in Seq(S), NEW x \in S, IsInjective(s),
         NEW pos \in DOMAIN s, s[pos] = Last(s)
  PROVE  /\ InsertAt(s, pos + 1, x) # <<>>
         /\ Last(InsertAt(s, pos + 1, x)) = x
<1>1. Len(s) \in Nat /\ DOMAIN s = 1 .. Len(s)
  OBVIOUS
<1>2. pos = Len(s)
  BY <1>1 DEF IsInjective, Last
<1>3. /\ SubSeq(s, 1, Len(s)) = s
      /\ SubSeq(s, Len(s) + 1, Len(s)) = <<>>
  BY <1>1, SubSeqFull, SubSeqEmpty
<1>4. (Len(s) + 1) - 1 = Len(s)
  BY <1>1
<1>5. InsertAt(s, pos + 1, x) = s \o <<x>> \o <<>>
  BY <1>2, <1>3, <1>4 DEF InsertAt
<1>6. <<x>> \in Seq(S) /\ Len(<<x>>) = 1
  OBVIOUS
<1>7. /\ s \o <<x>> \in Seq(S)
      /\ Len(s \o <<x>>) = Len(s) + 1
      /\ \A i \in 1 .. Len(s) + 1 :
           (s \o <<x>>)[i] = IF i <= Len(s) THEN s[i] ELSE <<x>>[i - Len(s)]
  BY <1>6, ConcatProperties
<1>8. s \o <<x>> \o <<>> = s \o <<x>>
  BY <1>7, ConcatEmptySeq
<1>9. (s \o <<x>>)[Len(s) + 1] = x
  BY <1>1, <1>7
<1> QED
  BY <1>1, <1>5, <1>7, <1>8, <1>9 DEF Last

-----------------------------------------------------------------------------
\* Steps between the line that starts a flush, or the end of the input, and
\* the last window printed.
Draining ==
  \/ pc \in {"flush", "flushprint", "eofvariables", "eofdrain", "eofprint",
             "done"}
  \/ pc \in {"run", "retire", "rules"} /\ caller \in {"flush", "eofdrain"}

\* The window being filled is the last of next.  The cohort being read is kept
\* aside exactly when there is such a window, and without one lSWindow is null
\* too.
HandleInv ==
  /\ pc \notin {"panic", "binary"}
  /\ c_swindow # NoWin => next # <<>> /\ c_swindow = Last(next)
  /\ pc = "drain" => Len(next) > NumWindows + 1
  /\ pc \in {"read", "eof"} =>
       IF c_cohort = NoCohort THEN c_swindow = NoWin /\ l_swindow = NoWin
                              ELSE c_swindow # NoWin
  /\ Draining =>
       c_swindow = NoWin /\ l_swindow = NoWin /\ c_cohort = NoCohort

\* The window being filled is the last one waiting, so its handle is live.
LEMMA FilledIsLive ==
  ASSUME StreamInv, HandleInv
  PROVE  c_swindow = NoWin \/ Live(c_swindow)
<1> SUFFICES ASSUME c_swindow # NoWin
             PROVE  Live(c_swindow)
  OBVIOUS
<1>1. next # <<>> /\ c_swindow = Last(next) /\ next \in Seq(Handle)
  BY DEF HandleInv, StreamInv
<1>2. Len(next) \in DOMAIN next
  BY <1>1, EmptySeq
<1>3. Last(next) \in ToSet(next)
  BY <1>2 DEF Last, ToSet
<1> QED
  BY <1>1, <1>3 DEF StreamInv, Live

\* In such a state no step is about to use a stale handle.
LEMMA NoneStale ==
  ASSUME PlainStream, StreamInv, HandleInv
  PROVE  ~Panic
<1>1. c_swindow = NoWin \/ Live(c_swindow)
  BY FilledIsLive
<1>2. ~Stale(c_swindow) /\ ~Stale(NoWin)
  BY <1>1 DEF Stale
<1>3. ASSUME NEW w \in Used
      PROVE  w \in {c_swindow, NoWin}
  BY DEF Used, HandleInv, PlainStream
<1> QED
  BY <1>2, <1>3 DEF Panic

-----------------------------------------------------------------------------
\* A window just appended is the last one waiting.
LEMMA AllocAppendLast ==
  ASSUME StreamInv, NEW rec, AllocAppend(rec)
  PROVE  next' # <<>> /\ Last(next') = window_counter + 1
<1>1. next \in Seq(Handle) /\ window_counter + 1 \in Handle
  BY DEF StreamInv, Handle, NoWin
<1> QED
  BY <1>1, LastAppended DEF AllocAppend

\* What a line that is read leaves true.
LEMMA ReadLineHandles ==
  ASSUME PlainStream, TypeInv, HandleInv, ReadLine
  PROVE  HandleInv'
<1>0. StreamInv
  BY DEF TypeInv
<1>1. CASE CohortLine
  BY <1>1 DEF CohortLine, Goto, stream, HandleInv, Draining
<1>2. CASE DepBreak
  <2>1. next' # <<>> /\ Last(next') = window_counter + 1
    BY <1>0, <1>2, AllocAppendLast DEF DepBreak
  <2>2. window_counter + 1 # NoWin
    BY <1>0 DEF StreamInv, NoWin
  <2> QED
    BY <1>2, <2>1, <2>2 DEF DepBreak, NewSWindow, HandleInv, Draining
<1>3. CASE TextLine \/ DelimiterLine
  <2>1. /\ pc = "read" /\ AttachText
        /\ UNCHANGED pc
    BY <1>3 DEF TextLine, DelimiterLine, NextItem, PlainStream
  <2>2. c_cohort' = NoCohort <=> c_cohort = NoCohort
    <3>1. CASE c_cohort # NoCohort
      <4>1. c_cohort.id # 0
        BY <3>1 DEF TypeInv, DriverTyped, Cohort, Items
      <4>2. c_cohort' = [c_cohort EXCEPT !.text = Append(@, received')]
        BY <2>1, <3>1 DEF AttachText
      <4>3. c_cohort \in Cohort
        BY <3>1 DEF TypeInv, DriverTyped
      <4>4. c_cohort'.id = c_cohort.id
        BY <4>2, <4>3 DEF Cohort
      <4> QED
        BY <3>1, <4>1, <4>4 DEF NoCohort
    <3>2. CASE c_cohort = NoCohort
      BY <2>1, <3>2 DEF AttachText
    <3> QED
      BY <3>1, <3>2
  <2> QED
    BY <2>1, <2>2 DEF AttachText, HandleInv, Draining
<1>4. CASE SetvarLine \/ SetvarListLine \/ RemvarLine
  BY <1>4 DEF SetvarLine, SetvarListLine, RemvarLine, stream, HandleInv, Draining
<1>5. CASE FlushLine
  BY <1>5 DEF FlushLine, NextItem, FinishCohort, Goto, HandleInv, Draining
<1>6. CASE ExitLine \/ EndOfFile
  BY <1>6 DEF ExitLine, EndOfFile, Goto, stream, HandleInv, Draining
<1> QED
  BY <1>1, <1>2, <1>3, <1>4, <1>5, <1>6 DEF ReadLine

\* What the steps of the line handler, up to a window run, leave true.
LEMMA GatherHandles ==
  ASSUME PlainStream, TypeInv, HandleInv,
         \/ BinaryWindow \/ SoftLookback \/ SoftBreak \/ HardBreak
         \/ OpenWindow \/ AttachCohort \/ DrainOne \/ NewCohort
  PROVE  HandleInv'
<1>0. StreamInv
  BY DEF TypeInv
<1>1. CASE BinaryWindow
  BY <1>1 DEF BinaryWindow, HandleInv
<1>2. CASE SoftLookback /\ LookbackDue /\ SoftCohorts # {}
  <2>1. PICK k \in SoftCohorts :
          DelimitNext(c_swindow, k) /\ c_swindow' = window_counter + 1
    BY <1>2 DEF SoftLookback
  <2>2. PICK pos \in DOMAIN next :
          /\ next[pos] = c_swindow
          /\ next' = InsertAt(next, pos + 1, window_counter + 1)
    BY <2>1 DEF DelimitNext
  <2>3. c_swindow = Last(next)
    BY <1>2 DEF LookbackDue, HandleInv
  <2>4. window_counter + 1 \in Handle /\ next \in Seq(Handle) /\ IsInjective(next)
    BY <1>0 DEF StreamInv, Handle, NoWin
  <2>5. next' # <<>> /\ Last(next') = window_counter + 1
    BY <2>2, <2>3, <2>4, LastInserted
  <2>6. pc' = "soft"
    BY <1>2 DEF SoftLookback, Goto
  <2> QED
    BY <2>1, <2>5, <2>6 DEF HandleInv, Draining
<1>3. CASE SoftLookback /\ ~(LookbackDue /\ SoftCohorts # {})
  BY <1>3 DEF SoftLookback, Goto, stream, HandleInv, Draining
<1>4. CASE SoftBreak \/ HardBreak
  BY <1>4 DEF SoftBreak, HardBreak, CloseWindow, Goto, stream, HandleInv, Draining
<1>5. CASE OpenWindow
  <2>1. CASE c_swindow = NoWin
    <3>1. next' # <<>> /\ Last(next') = window_counter + 1
      BY <1>0, <1>5, <2>1, AllocAppendLast DEF OpenWindow
    <3> QED
      BY <1>5, <2>1, <3>1 DEF OpenWindow, NewSWindow, Goto, HandleInv, Draining
  <2>2. CASE c_swindow # NoWin
    BY <1>5, <2>2 DEF OpenWindow, Goto, stream, HandleInv, Draining
  <2> QED
    BY <2>1, <2>2
<1>6. CASE AttachCohort
  BY <1>6 DEF AttachCohort, EnoughWaiting, Goto, HandleInv, Draining
<1>7. CASE DrainOne
  <2>1. Len(next) > NumWindows + 1
    BY <1>7 DEF DrainOne, HandleInv
  <2>2. Len(next) > 1 /\ next \in Seq(Handle) /\ next # <<>>
    BY <1>0, <2>1, DriverAssumption DEF StreamInv
  <2>3. next' = Tail(next) /\ UNCHANGED c_swindow
    BY <1>7, <2>2 DEF DrainOne, ShuffleDown
  <2>4. next' # <<>> /\ Last(next') = Last(next)
    BY <2>2, <2>3, LastKeptByTail
  <2>5. pc' = "run" /\ caller' = "newcohort"
    BY <1>7 DEF DrainOne, Goto
  <2> QED
    BY <2>3, <2>4, <2>5 DEF HandleInv, Draining
<1>8. CASE NewCohort
  <2>1. c_swindow # NoWin
    BY <1>0, <1>8 DEF NewCohort, Live, StreamInv
  <2>2. c_cohort' # NoCohort
    <3>1. received' # 0 /\ c_cohort'.id = received'
      BY <1>8 DEF NewCohort, TypeInv, DriverTyped
    <3> QED
      BY <3>1 DEF NoCohort
  <2> QED
    BY <1>8, <2>1, <2>2 DEF NewCohort, Goto, HandleInv, Draining
<1> QED
  BY <1>1, <1>2, <1>3, <1>4, <1>5, <1>6, <1>7, <1>8

\* What a window run, draining and printing leave true.
LEMMA RunHandles ==
  ASSUME PlainStream, TypeInv, HandleInv,
         RunWindow \/ RetireWindow \/ StartPass \/ DelimitRule \/ EndRun
  PROVE  HandleInv'
<1>1. CASE RunWindow \/ StartPass
  BY <1>1 DEF RunWindow, StartPass, Goto, stream, Variables, History, HandleInv,
              Draining
<1>2. CASE RetireWindow
  BY <1>2 DEF RetireWindow, FreeFirst, HandleInv, Draining
<1>3. CASE DelimitRule
  <2>1. /\ next' = <<window_counter + 1>> \o next
        /\ pc' = "retire" /\ pc = "rules"
        /\ UNCHANGED <<caller, c_swindow, l_swindow, c_cohort>>
    BY <1>3 DEF DelimitRule, DelimitCurrent, Goto
  <2>2. window_counter + 1 \in Handle /\ next \in Seq(Handle)
    BY DEF TypeInv, StreamInv, Handle, NoWin
  <2>3. next # <<>> => next' # <<>> /\ Last(next') = Last(next)
    BY <2>1, <2>2, LastKeptByCons
  <2> QED
    BY <2>1, <2>3 DEF HandleInv, Draining
<1>4. CASE EndRun
  <2>1. /\ pc' = caller /\ caller \in {"newcohort", "flush", "eofdrain"}
        /\ caller' = "newcohort" /\ pc \in {"rules", "retire"}
        /\ UNCHANGED <<next, c_swindow, l_swindow, c_cohort>>
    BY <1>4 DEF EndRun, Goto, stream, TypeInv, DriverTyped
  <2> QED
    BY <2>1 DEF HandleInv, Draining
<1> QED
  BY <1>1, <1>2, <1>3, <1>4

\* What a flush and the end of the input leave true.
LEMMA EndingHandles ==
  ASSUME PlainStream, TypeInv, HandleInv,
         \/ DrainAll("flush", "flushprint") \/ DrainAll("eofdrain", "eofprint")
         \/ PrintFirst("flushprint") \/ PrintFirst("eofprint")
         \/ EndFlush \/ FinishInput \/ LastVariables \/ EndOutput
  PROVE  HandleInv'
<1>1. CASE DrainAll("flush", "flushprint") \/ DrainAll("eofdrain", "eofprint")
  BY <1>1 DEF DrainAll, ShuffleDown, Goto, HandleInv, Draining
<1>2. CASE PrintFirst("flushprint") \/ PrintFirst("eofprint")
  BY <1>2 DEF PrintFirst, FreeFirst, HandleInv, Draining
<1>3. CASE EndFlush
  BY <1>3 DEF EndFlush, Goto, stream, HandleInv, Draining
<1>4. CASE FinishInput
  BY <1>4 DEF FinishInput, FinishCohort, Goto, HandleInv, Draining
<1>5. CASE LastVariables
  BY <1>5 DEF LastVariables, PlainStream, Goto, stream, HandleInv, Draining
<1>6. CASE EndOutput
  BY <1>6 DEF EndOutput, Goto, stream, HandleInv, Draining
<1> QED
  BY <1>1, <1>2, <1>3, <1>4, <1>5, <1>6

\* The driver starts in such a state, and every step leaves it in one.
LEMMA InitHandles ==
  ASSUME PlainStream, Init
  PROVE  HandleInv
  BY DEF Init, InitStream, PlainStream, HandleInv, Draining

LEMMA HandleInvStep ==
  ASSUME PlainStream, TypeInv, HandleInv, [Next]_vars
  PROVE  HandleInv'
<1>1. CASE ReadLine
  BY <1>1, ReadLineHandles
<1>2. CASE HandleLine
  BY <1>2, GatherHandles, RunHandles, EndingHandles DEF HandleLine
<1>3. CASE Panic
  BY <1>3, NoneStale DEF TypeInv
<1>4. CASE UNCHANGED vars
  BY <1>4 DEF vars, driver, stream, HandleInv, Draining
<1> QED
  BY <1>1, <1>2, <1>3, <1>4 DEF Next

\* A driver that reads no text delimiters and writes text never uses the handle
\* of a freed window, whatever its input, its limits and its grammar do.
THEOREM NoStaleHandleHolds ==
  ASSUME PlainStream
  PROVE  Spec => []NoStaleHandle
<1>1. Init => TypeInv /\ HandleInv
  BY InitTypeInv, InitHandles
<1>2. TypeInv /\ HandleInv /\ [Next]_vars => HandleInv'
  BY HandleInvStep
<1>3. TypeInv /\ [Next]_vars => TypeInv'
  BY TypeInvStep
<1>4. HandleInv => NoStaleHandle
  BY DEF HandleInv, NoStaleHandle
<1> QED
  BY <1>1, <1>2, <1>3, <1>4, PTL DEF Spec

-----------------------------------------------------------------------------
(* ContextSpan: how many windows stand before and behind the one whose rules *)
(* run.                                                                      *)

\* While the input lasts a window is taken only when more than NumWindows would
\* still wait, and its rules run only when those before it are few enough.
SpanInv ==
  /\ pc = "drain" => Len(next) > NumWindows + 1
  /\ pc \in {"run", "retire", "rules"} /\ caller = "newcohort" => Len(next) > NumWindows
  /\ pc = "rules" => Len(previous) <= NumWindows

\* A step to another part of the driver has nothing to keep.
LEMMA ElsewhereSpan ==
  ASSUME pc' \notin {"drain", "run", "retire", "rules"}
  PROVE  SpanInv'
  BY DEF SpanInv

\* What a line that is read leaves true.
LEMMA ReadLineSpan ==
  ASSUME TypeInv, ReadLine
  PROVE  SpanInv'
<1>1. pc' \in {"read", "lookback", "flush", "eof"}
  BY DEF ReadLine, CohortLine, DepBreak, TextLine, DelimiterLine, SetvarLine, SetvarListLine,
         RemvarLine, FlushLine, ExitLine, EndOfFile, NextItem, Goto
<1> QED
  BY <1>1, ElsewhereSpan

\* What the steps of the line handler, up to a window run, leave true.
LEMMA GatherSpan ==
  ASSUME TypeInv, SpanInv,
         \/ BinaryWindow \/ SoftLookback \/ SoftBreak \/ HardBreak
         \/ OpenWindow \/ AttachCohort \/ DrainOne \/ NewCohort
  PROVE  SpanInv'
<1>1. CASE AttachCohort
  BY <1>1 DEF AttachCohort, EnoughWaiting, Goto, SpanInv
<1>2. CASE DrainOne
  <2>1. Len(next) > NumWindows + 1 /\ NumWindows \in Nat /\ next \in Seq(Handle)
    BY <1>2, DriverAssumption DEF DrainOne, SpanInv, TypeInv, StreamInv
  <2>2. next # <<>>
    BY <2>1
  <2>3. next' = Tail(next) /\ pc' = "run"
    BY <1>2, <2>2 DEF DrainOne, ShuffleDown, Goto
  <2>4. Len(next') = Len(next) - 1
    BY <2>1, <2>2, <2>3
  <2> QED
    BY <2>1, <2>3, <2>4 DEF SpanInv
<1>3. CASE BinaryWindow \/ SoftLookback \/ SoftBreak \/ HardBreak \/ OpenWindow \/ NewCohort
  <2>1. pc' \in {"read", "soft", "hard", "open", "attach"}
    BY <1>3 DEF BinaryWindow, SoftLookback, SoftBreak, HardBreak, OpenWindow, NewCohort, Goto
  <2> QED
    BY <2>1, ElsewhereSpan
<1> QED
  BY <1>1, <1>2, <1>3

\* What a window run leaves true: a window that DELIMIT adds waits with the rest.
LEMMA RunSpan ==
  ASSUME TypeInv, SpanInv,
         RunWindow \/ RetireWindow \/ StartPass \/ DelimitRule \/ EndRun
  PROVE  SpanInv'
<1>1. CASE RunWindow \/ StartPass
  BY <1>1 DEF RunWindow, StartPass, Goto, stream, SpanInv
<1>2. CASE RetireWindow
  BY <1>2 DEF RetireWindow, FreeFirst, SpanInv
<1>3. CASE DelimitRule
  <2>1. /\ next' = <<window_counter + 1>> \o next
        /\ pc' = "retire" /\ pc = "rules" /\ UNCHANGED caller
    BY <1>3 DEF DelimitRule, DelimitCurrent, Goto
  <2>2. window_counter + 1 \in Handle /\ next \in Seq(Handle)
    BY DEF TypeInv, StreamInv, Handle, NoWin
  <2>3. Len(next') = 1 + Len(next) /\ Len(next) \in Nat
    BY <2>1, <2>2
  <2> QED
    BY <2>1, <2>3, DriverAssumption DEF SpanInv
<1>4. CASE EndRun
  <2>1. pc' \in {"newcohort", "flush", "eofdrain"}
    BY <1>4 DEF EndRun, Goto, TypeInv, DriverTyped
  <2> QED
    BY <2>1, ElsewhereSpan
<1> QED
  BY <1>1, <1>2, <1>3, <1>4

\* What a flush and the end of the input leave true.
LEMMA EndingSpan ==
  ASSUME TypeInv, SpanInv,
         \/ DrainAll("flush", "flushprint") \/ DrainAll("eofdrain", "eofprint")
         \/ PrintFirst("flushprint") \/ PrintFirst("eofprint")
         \/ EndFlush \/ FinishInput \/ LastVariables \/ EndOutput
  PROVE  SpanInv'
<1>1. CASE DrainAll("flush", "flushprint") \/ DrainAll("eofdrain", "eofprint")
  BY <1>1 DEF DrainAll, Goto, SpanInv
<1>2. CASE ~(DrainAll("flush", "flushprint") \/ DrainAll("eofdrain", "eofprint"))
  <2>1. pc' \in {"read", "flushprint", "eofprint", "eofvariables", "eofdrain", "done"}
    BY <1>2 DEF PrintFirst, EndFlush, FinishInput, LastVariables, EndOutput, Goto
  <2> QED
    BY <2>1, ElsewhereSpan
<1> QED
  BY <1>1, <1>2

\* Every step keeps what is known of the spans.
LEMMA SpanInvStep == TypeInv /\ SpanInv /\ [Next]_vars => SpanInv'
<1> SUFFICES ASSUME TypeInv, SpanInv, [Next]_vars
             PROVE  SpanInv'
  OBVIOUS
<1>1. CASE ReadLine
  BY <1>1, ReadLineSpan
<1>2. CASE HandleLine
  BY <1>2, GatherSpan, RunSpan, EndingSpan DEF HandleLine
<1>3. CASE Panic
  BY <1>3, ElsewhereSpan DEF Panic, Goto
<1>4. CASE UNCHANGED vars
  BY <1>4 DEF vars, driver, stream, SpanInv
<1> QED
  BY <1>1, <1>2, <1>3, <1>4 DEF Next

\* The rules of a window never see more than NumWindows windows before it, and,
\* while the input lasts, see NumWindows behind it: whatever the input, the
\* limits and the windows that DELIMIT makes.
THEOREM ContextSpanHolds == Spec => []ContextSpan
<1>1. Init => TypeInv /\ SpanInv
  BY InitTypeInv, Zenon DEF Init, SpanInv
<1>2. TypeInv /\ SpanInv /\ [Next]_vars => SpanInv'
  BY SpanInvStep
<1>3. TypeInv /\ [Next]_vars => TypeInv'
  BY TypeInvStep
<1>4. SpanInv => ContextSpan
  BY DEF SpanInv, ContextSpan
<1> QED
  BY <1>1, <1>2, <1>3, <1>4, PTL DEF Spec

-----------------------------------------------------------------------------
(* LinksFollowDocument: the sibling links of the windows are always the order *)
(* of the document.                                                           *)

-----------------------------------------------------------------------------
(* What linking windows along a list of handles means, and how the links that *)
(* each stream operation sets follow the list as the operation changes it.    *)

PrvIn(d, i) == IF i = 1 THEN NoWin ELSE d[i - 1]
NxtIn(d, i) == IF i = Len(d) THEN NoWin ELSE d[i + 1]

Linked(f, d) ==
  \A i \in 1 .. Len(d) : f[d[i]].prv = PrvIn(d, i) /\ f[d[i]].nxt = NxtIn(d, i)

\* The links keep following a list when nobody changes either.
LEMMA LinkedKept ==
  ASSUME NEW d \in Seq(Handle), NEW f, NEW g, Linked(f, d),
         \A x \in ToSet(d) : g[x].prv = f[x].prv /\ g[x].nxt = f[x].nxt
  PROVE  Linked(g, d)
<1>1. \A i \in 1 .. Len(d) : d[i] \in ToSet(d)
  BY DEF ToSet
<1> QED
  BY <1>1 DEF Linked

\* A window put last, linked with the one before it.
LEMMA LinkedAppend ==
  ASSUME NEW d \in Seq(Handle), NEW id \in Handle,
         NEW f, NEW g, Linked(f, d),
         \A i \in 1 .. Len(d) :
           /\ g[d[i]].prv = f[d[i]].prv
           /\ g[d[i]].nxt = IF i = Len(d) THEN id ELSE f[d[i]].nxt,
         g[id].prv = IF d = <<>> THEN NoWin ELSE d[Len(d)],
         g[id].nxt = NoWin
  PROVE  Linked(g, Append(d, id))
<1> DEFINE e == Append(d, id)
<1>1. /\ Len(d) \in Nat /\ Len(e) = Len(d) + 1 /\ e[Len(d) + 1] = id
      /\ \A i \in 1 .. Len(d) : e[i] = d[i]
  BY AppendProperties, LenProperties
<1>2. d = <<>> <=> Len(d) = 0
  BY EmptySeq
<1> HIDE DEF e
<1> SUFFICES ASSUME NEW i \in 1 .. Len(e)
             PROVE  g[e[i]].prv = PrvIn(e, i) /\ g[e[i]].nxt = NxtIn(e, i)
  BY DEF Linked, e
<1>3. CASE i = Len(d) + 1
  <2>1. g[e[i]].prv = PrvIn(e, i)
    <3>1. CASE Len(d) = 0
      BY <1>1, <1>2, <1>3, <3>1 DEF PrvIn
    <3>2. CASE Len(d) # 0
      <4>1. Len(d) \in 1 .. Len(d) /\ i # 1 /\ i - 1 = Len(d)
        BY <1>1, <1>3, <3>2
      <4> QED
        BY <1>1, <1>2, <1>3, <3>2, <4>1 DEF PrvIn
    <3> QED
      BY <3>1, <3>2
  <2> QED
    BY <1>1, <1>3, <2>1 DEF NxtIn
<1>4. CASE i \in 1 .. Len(d)
  <2>1. e[i] = d[i] /\ i # Len(e) /\ i \in Nat
    BY <1>1, <1>4
  <2>2. g[e[i]].prv = PrvIn(e, i)
    <3>1. f[d[i]].prv = PrvIn(d, i)
      BY <1>4 DEF Linked
    <3>2. PrvIn(e, i) = PrvIn(d, i)
      <4>1. CASE i = 1
        BY <4>1 DEF PrvIn
      <4>2. CASE i # 1
        <5>1. i - 1 \in 1 .. Len(d)
          BY <1>1, <1>4, <4>2
        <5> QED
          BY <1>1, <4>2, <5>1 DEF PrvIn
      <4> QED
        BY <4>1, <4>2
    <3> QED
      BY <1>4, <2>1, <3>1, <3>2
  <2>3. g[e[i]].nxt = NxtIn(e, i)
    <3>1. CASE i = Len(d)
      BY <1>1, <1>4, <2>1, <3>1 DEF NxtIn
    <3>2. CASE i # Len(d)
      <4>1. i + 1 \in 1 .. Len(d)
        BY <1>1, <1>4, <3>2
      <4>2. f[d[i]].nxt = d[i + 1]
        BY <1>4, <3>2 DEF Linked, NxtIn
      <4> QED
        BY <1>1, <1>4, <2>1, <3>2, <4>1, <4>2 DEF NxtIn
    <3> QED
      BY <3>1, <3>2
  <2> QED
    BY <2>2, <2>3
<1> QED
  BY <1>1, <1>3, <1>4

\* The first window taken off, and the one after it unlinked from it.
LEMMA LinkedTail ==
  ASSUME NEW d \in Seq(Handle), d # <<>>, NEW f, NEW g, Linked(f, d),
         \A i \in 2 .. Len(d) :
           /\ g[d[i]].prv = IF i = 2 THEN NoWin ELSE f[d[i]].prv
           /\ g[d[i]].nxt = f[d[i]].nxt
  PROVE  Linked(g, Tail(d))
<1> DEFINE e == Tail(d)
<1>1. /\ Len(d) \in Nat \ {0} /\ Len(e) = Len(d) - 1
      /\ \A i \in 1 .. Len(e) : e[i] = d[i + 1]
  BY HeadTailProperties
<1> HIDE DEF e
<1> SUFFICES ASSUME NEW i \in 1 .. Len(e)
             PROVE  g[e[i]].prv = PrvIn(e, i) /\ g[e[i]].nxt = NxtIn(e, i)
  BY DEF Linked, e
<1>2. i + 1 \in 2 .. Len(d) /\ i + 1 \in 1 .. Len(d) /\ e[i] = d[i + 1] /\ i \in Nat
  BY <1>1
<1>3. f[d[i + 1]].prv = PrvIn(d, i + 1) /\ f[d[i + 1]].nxt = NxtIn(d, i + 1)
  BY <1>2 DEF Linked
<1>4. g[e[i]].prv = PrvIn(e, i)
  <2>1. CASE i = 1
    BY <1>2, <2>1 DEF PrvIn
  <2>2. CASE i # 1
    <3>1. i - 1 \in 1 .. Len(e) /\ (i - 1) + 1 = i /\ (i + 1) - 1 = i /\ i + 1 # 1 /\ i + 1 # 2
      BY <1>1, <1>2, <2>2
    <3>2. e[i - 1] = d[i]
      BY <1>1, <3>1
    <3> QED
      BY <1>2, <1>3, <2>2, <3>1, <3>2 DEF PrvIn
  <2> QED
    BY <2>1, <2>2
<1>5. g[e[i]].nxt = NxtIn(e, i)
  <2>1. CASE i = Len(e)
    <3>1. i + 1 = Len(d)
      BY <1>1, <2>1
    <3> QED
      BY <1>2, <1>3, <2>1, <3>1 DEF NxtIn
  <2>2. CASE i # Len(e)
    <3>1. i + 1 # Len(d) /\ i + 1 \in 1 .. Len(e)
      BY <1>1, <1>2, <2>2
    <3>2. e[i + 1] = d[(i + 1) + 1]
      BY <1>1, <3>1
    <3> QED
      BY <1>2, <1>3, <2>2, <3>1, <3>2 DEF NxtIn
  <2> QED
    BY <2>1, <2>2
<1> QED
  BY <1>4, <1>5

\* A sequence with one more element, after the k-th.
Inserts(d, e, k, x) ==
  /\ k \in 1 .. Len(d) /\ Len(e) = Len(d) + 1
  /\ \A i \in 1 .. k : e[i] = d[i]
  /\ e[k + 1] = x
  /\ \A i \in k + 1 .. Len(d) : e[i + 1] = d[i]

\* A window put after the k-th, linked with its neighbours on both sides.
LEMMA LinkedInsert ==
  ASSUME NEW d \in Seq(Handle), NEW e \in Seq(Handle), NEW id \in Handle,
         NEW k \in 1 .. Len(d), Inserts(d, e, k, id),
         NEW f, NEW g, Linked(f, d),
         \A i \in 1 .. Len(d) :
           /\ g[d[i]].prv = IF i = k + 1 THEN id ELSE f[d[i]].prv
           /\ g[d[i]].nxt = IF i = k THEN id ELSE f[d[i]].nxt,
         g[id].prv = d[k],
         g[id].nxt = NxtIn(d, k)
  PROVE  Linked(g, e)
<1> USE DEF Inserts
<1>0. Len(d) \in Nat /\ k \in Nat /\ k <= Len(d) /\ k >= 1
  BY LenProperties
<1> SUFFICES ASSUME NEW i \in 1 .. Len(e)
             PROVE  g[e[i]].prv = PrvIn(e, i) /\ g[e[i]].nxt = NxtIn(e, i)
  BY DEF Linked
<1>1. CASE i \in 1 .. k
  <2>1. e[i] = d[i] /\ i \in 1 .. Len(d) /\ i # k + 1 /\ i # Len(e)
    BY <1>0, <1>1
  <2>2. g[e[i]].prv = PrvIn(e, i)
    <3>1. f[d[i]].prv = PrvIn(d, i)
      BY <2>1 DEF Linked
    <3>2. i # 1 => i - 1 \in 1 .. k
      BY <1>0, <1>1
    <3> QED
      BY <2>1, <3>1, <3>2 DEF PrvIn
  <2>3. g[e[i]].nxt = NxtIn(e, i)
    <3>1. CASE i = k
      BY <2>1, <3>1 DEF NxtIn
    <3>2. CASE i # k
      <4>1. i + 1 \in 1 .. k /\ i # Len(d)
        BY <1>0, <1>1, <3>2
      <4> QED
        BY <2>1, <3>2, <4>1 DEF Linked, NxtIn
    <3> QED
      BY <3>1, <3>2
  <2> QED
    BY <2>2, <2>3
<1>2. CASE i = k + 1
  <2>1. i # 1 /\ i - 1 = k /\ k \in 1 .. k
    BY <1>0, <1>2
  <2>2. g[e[i]].prv = PrvIn(e, i)
    BY <1>2, <2>1 DEF PrvIn
  <2>3. g[e[i]].nxt = NxtIn(e, i)
    <3>1. CASE k = Len(d)
      BY <1>2, <3>1 DEF NxtIn
    <3>2. CASE k # Len(d)
      <4>1. k + 1 \in k + 1 .. Len(d) /\ i # Len(e)
        BY <1>0, <1>2, <3>2
      <4> QED
        BY <1>2, <3>2, <4>1 DEF NxtIn
    <3> QED
      BY <3>1, <3>2
  <2> QED
    BY <2>2, <2>3
<1>3. CASE i \in k + 2 .. Len(d) + 1
  <2> DEFINE j == i - 1
  <2>1. /\ j \in k + 1 .. Len(d) /\ j \in 1 .. Len(d) /\ i = j + 1
        /\ j # k /\ i # 1 /\ i - 1 = j /\ j # 1
    BY <1>0, <1>3
  <2> HIDE DEF j
  <2>2. e[i] = d[j]
    BY <2>1
  <2>3. f[d[j]].prv = d[j - 1] /\ f[d[j]].nxt = NxtIn(d, j)
    BY <2>1 DEF Linked, PrvIn
  <2>4. g[e[i]].prv = PrvIn(e, i)
    <3>1. CASE j = k + 1
      BY <2>1, <2>2, <3>1 DEF PrvIn
    <3>2. CASE j # k + 1
      <4>1. j - 1 \in k + 1 .. Len(d) /\ (j - 1) + 1 = j
        BY <1>0, <2>1, <3>2
      <4>2. e[j] = d[j - 1]
        BY <4>1
      <4> QED
        BY <2>1, <2>2, <2>3, <3>2, <4>2 DEF PrvIn
    <3> QED
      BY <3>1, <3>2
  <2>5. g[e[i]].nxt = NxtIn(e, i)
    <3>1. CASE j = Len(d)
      BY <1>0, <2>1, <2>2, <2>3, <3>1 DEF NxtIn
    <3>2. CASE j # Len(d)
      <4>1. j + 1 \in k + 1 .. Len(d) /\ i # Len(e)
        BY <1>0, <2>1, <3>2
      <4>2. e[i + 1] = d[j + 1]
        BY <2>1, <4>1
      <4> QED
        BY <2>1, <2>2, <2>3, <3>2, <4>1, <4>2 DEF NxtIn
    <3> QED
      BY <3>1, <3>2
  <2> QED
    BY <2>4, <2>5
<1> QED
  BY <1>0, <1>1, <1>2, <1>3

\* rebuild_single_window_links links any list of live windows.
LEMMA LinkedRebuilt ==
  ASSUME NEW d \in Seq(Handle), IsInjective(d), NEW f, ToSet(d) \subseteq DOMAIN f,
         \A x \in ToSet(d) : Relinked(f, d)[x] \in Window'
  PROVE  Linked(Relinked(f, d), d)
<1> SUFFICES ASSUME NEW i \in 1 .. Len(d)
             PROVE  /\ Relinked(f, d)[d[i]].prv = PrvIn(d, i)
                    /\ Relinked(f, d)[d[i]].nxt = NxtIn(d, i)
  BY DEF Linked
<1>1. i \in DOMAIN d /\ d[i] \in ToSet(d) /\ d[i] \in DOMAIN f
  BY DEF ToSet
<1>2. (CHOOSE j \in DOMAIN d : d[j] = d[i]) = i
  BY <1>1 DEF IsInjective
<1>3. Relinked(f, d)[d[i]] =
        [f[d[i]] EXCEPT !.prv = PrvIn(d, i), !.nxt = NxtIn(d, i)]
  BY <1>1, <1>2 DEF Relinked, PrvIn, NxtIn
<1>4. [f[d[i]] EXCEPT !.prv = PrvIn(d, i), !.nxt = NxtIn(d, i)] \in Window'
  BY <1>1, <1>3
<1> QED
  BY <1>3, <1>4 DEF Window

-----------------------------------------------------------------------------
(* The document as one list, and what the operations on the stream do to it. *)

\* The list of the running window, if there is one.
LEMMA RunningTyped ==
  ASSUME NEW c \in Nat
  PROVE  /\ (IF c = NoWin THEN <<>> ELSE <<c>>) \in Seq(Handle)
         /\ c = NoWin => Len(IF c = NoWin THEN <<>> ELSE <<c>>) = 0
         /\ c # NoWin => /\ Len(IF c = NoWin THEN <<>> ELSE <<c>>) = 1
                         /\ (IF c = NoWin THEN <<>> ELSE <<c>>)[1] = c
<1>1. CASE c = NoWin
  BY <1>1
<1>2. CASE c # NoWin
  <2>1. c \in Handle
    BY <1>2 DEF Handle
  <2>2. <<c>> \in Seq(Handle) /\ Len(<<c>>) = 1 /\ <<c>>[1] = c
    BY <2>1
  <2> QED
    BY <1>2, <2>2
<1> QED
  BY <1>1, <1>2

\* The document of a sound stream holds the live windows, each once.
LEMMA DocumentTyped ==
  ASSUME StreamInv
  PROVE  /\ previous \in Seq(Handle) /\ next \in Seq(Handle)
         /\ Running \in Seq(Handle) /\ Document \in Seq(Handle)
         /\ IsInjective(Document)
         /\ ToSet(Document) = DOMAIN win
<1>1. previous \in Seq(Handle) /\ next \in Seq(Handle)
  BY DEF StreamInv
<1>2. Running \in Seq(Handle)
  BY RunningTyped DEF Running, StreamInv
<1>3. Document \in Seq(Handle)
  BY <1>1, <1>2, ConcatProperties DEF Document
<1> QED
  BY <1>1, <1>2, <1>3, DocumentHolds DEF NoLeak

\* The property the runs check, in terms of Linked.
LEMMA LinksAreLinked ==
  ASSUME StreamInv
  PROVE  LinksFollowDocument <=> Linked(win, Document)
<1>1. DOMAIN Document = 1 .. Len(Document)
  BY DocumentTyped, LenProperties
<1> QED
  BY <1>1 DEF LinksFollowDocument, Linked, PrvIn, NxtIn

\* The same in the next state.
LEMMA LinksAreLinkedNext ==
  ASSUME StreamInv'
  PROVE  LinksFollowDocument' <=> Linked(win', Document')
<1>1. Document' \in Seq(Handle)
  <2>1. /\ previous' \in Seq(Handle) /\ next' \in Seq(Handle)
        /\ Running' \in Seq(Handle)
    BY RunningTyped DEF StreamInv, Running
  <2> QED
    BY <2>1, ConcatProperties DEF Document
<1>2. DOMAIN Document' = 1 .. Len(Document')
  BY <1>1, LenProperties
<1> QED
  BY <1>2 DEF LinksFollowDocument, Linked, PrvIn, NxtIn

\* A step that moves no window and changes no link.
LEMMA LinksKept ==
  ASSUME StreamInv, LinksFollowDocument, StreamInv',
         Document' = Document,
         \A x \in DOMAIN win :
           win'[x].prv = win[x].prv /\ win'[x].nxt = win[x].nxt
  PROVE  LinksFollowDocument'
<1>1. Linked(win, Document)
  BY LinksAreLinked
<1>2. Linked(win', Document)
  BY <1>1, DocumentTyped, LinkedKept
<1> QED
  BY <1>2, LinksAreLinkedNext

\* Where the elements of two lists stand once one follows the other.
LEMMA ConcatPlaces ==
  ASSUME NEW a \in Seq(Handle), NEW b \in Seq(Handle)
  PROVE  /\ a \o b \in Seq(Handle) /\ Len(a \o b) = Len(a) + Len(b)
         /\ Len(a) \in Nat /\ Len(b) \in Nat
         /\ \A i \in 1 .. Len(a) : (a \o b)[i] = a[i]
         /\ \A i \in 1 .. Len(b) : (a \o b)[Len(a) + i] = b[i]
<1>1. /\ a \o b \in Seq(Handle) /\ Len(a \o b) = Len(a) + Len(b)
      /\ \A i \in 1 .. Len(a) + Len(b) :
           (a \o b)[i] = IF i <= Len(a) THEN a[i] ELSE b[i - Len(a)]
      /\ Len(a) \in Nat /\ Len(b) \in Nat
  BY ConcatProperties, LenProperties
<1>2. \A i \in 1 .. Len(a) : (a \o b)[i] = a[i]
  BY <1>1
<1>3. \A i \in 1 .. Len(b) : (a \o b)[Len(a) + i] = b[i]
  <2> SUFFICES ASSUME NEW i \in 1 .. Len(b)
               PROVE  (a \o b)[Len(a) + i] = b[i]
    OBVIOUS
  <2>1. /\ Len(a) + i \in 1 .. Len(a) + Len(b)
        /\ ~(Len(a) + i <= Len(a)) /\ (Len(a) + i) - Len(a) = i
    BY <1>1
  <2> QED
    BY <1>1, <2>1
<1> QED
  BY <1>1, <1>2, <1>3

\* Three lists put one after the other.
LEMMA ConcatRegroups ==
  ASSUME NEW a \in Seq(Handle), NEW b \in Seq(Handle), NEW c \in Seq(Handle)
  PROVE  (a \o b) \o c = a \o (b \o c)
  BY ConcatAssociative

\* Where a window of the document is.
LEMMA DocumentPlaces ==
  ASSUME StreamInv
  PROVE  /\ Len(previous) \in Nat /\ Len(next) \in Nat /\ Len(Running) \in {0, 1}
         /\ Len(Document) = Len(previous) + Len(Running) + Len(next)
         /\ \A i \in 1 .. Len(previous) : Document[i] = previous[i]
         /\ current # NoWin => /\ Len(Running) = 1
                               /\ Document[Len(previous) + 1] = current
         /\ current = NoWin => Len(Running) = 0
         /\ \A i \in 1 .. Len(next) :
              Document[Len(previous) + Len(Running) + i] = next[i]
<1>1. /\ previous \in Seq(Handle) /\ next \in Seq(Handle)
      /\ Running \in Seq(Handle)
  BY DocumentTyped
<1>2. /\ Len(previous) \in Nat /\ Len(next) \in Nat /\ Len(Running) \in {0, 1}
      /\ current # NoWin => Len(Running) = 1 /\ Running[1] = current
      /\ current = NoWin => Len(Running) = 0
  BY <1>1, LenProperties, RunningTyped DEF Running, StreamInv
<1> DEFINE upto == previous \o Running
<1>3. /\ upto \in Seq(Handle) /\ Len(upto) = Len(previous) + Len(Running)
      /\ \A i \in 1 .. Len(previous) : upto[i] = previous[i]
      /\ \A i \in 1 .. Len(Running) : upto[Len(previous) + i] = Running[i]
  BY <1>1, ConcatPlaces
<1>4. Document = upto \o next
  BY DEF Document
<1> HIDE DEF upto
<1>5. /\ Len(Document) = Len(upto) + Len(next)
      /\ \A i \in 1 .. Len(upto) : Document[i] = upto[i]
      /\ \A i \in 1 .. Len(next) : Document[Len(upto) + i] = next[i]
  <2>1. /\ Len(upto \o next) = Len(upto) + Len(next)
        /\ \A i \in 1 .. Len(upto) : (upto \o next)[i] = upto[i]
        /\ \A i \in 1 .. Len(next) : (upto \o next)[Len(upto) + i] = next[i]
    BY <1>1, <1>3, ConcatPlaces
  <2> QED
    BY <1>4, <2>1
<1>6. \A i \in 1 .. Len(previous) : Document[i] = previous[i]
  BY <1>2, <1>3, <1>5
<1>7. current # NoWin => Document[Len(previous) + 1] = current
  <2> SUFFICES ASSUME current # NoWin
               PROVE  Document[Len(previous) + 1] = current
    OBVIOUS
  <2>1. 1 \in 1 .. Len(Running) /\ Len(previous) + 1 \in 1 .. Len(upto)
    BY <1>2, <1>3
  <2> QED
    BY <1>2, <1>3, <1>5, <2>1
<1> QED
  BY <1>2, <1>3, <1>5, <1>6, <1>7

LEMMA DocumentTypedNext ==
  ASSUME StreamInv'
  PROVE  /\ Document' \in Seq(Handle) /\ IsInjective(Document')
         /\ ToSet(Document') = DOMAIN win'
<1>1. (StreamInv => /\ Document \in Seq(Handle) /\ IsInjective(Document)
                    /\ ToSet(Document) = DOMAIN win)'
  BY DocumentTyped, PTL
<1> QED
  BY <1>1

\* Where the windows are after each operation on the stream.
LEMMA AppendPlaces ==
  ASSUME StreamInv, UNCHANGED <<previous, current>>,
         next' = Append(next, window_counter + 1)
  PROVE  Document' = Append(Document, window_counter + 1)
<1> DEFINE id == window_counter + 1
           upto == previous \o Running
<1>1. id \in Handle
  BY FreshHandle
<1> HIDE DEF id
<1>2. /\ previous \in Seq(Handle) /\ next \in Seq(Handle)
      /\ Running \in Seq(Handle)
  BY DocumentTyped
<1>3. upto \in Seq(Handle) /\ Document = upto \o next
  BY <1>2, ConcatPlaces DEF Document
<1>4. Document' = upto \o Append(next, id)
  BY DEF Document, Running, id
<1> HIDE DEF upto
<1>5. <<id>> \in Seq(Handle)
  BY <1>1, OneHolds
<1>6. (upto \o next) \o <<id>> = upto \o (next \o <<id>>)
  BY <1>2, <1>3, <1>5, ConcatRegroups
<1>7. upto \o next \in Seq(Handle)
  BY <1>2, <1>3
<1>8. Document' = Append(Document, id)
  BY <1>1, <1>2, <1>3, <1>4, <1>6, <1>7, AppendIsConcat
<1> QED
  BY <1>8 DEF id

\* shuffle_windows_down moves windows from one place to the next, and the
\* document stays as it is.
LEMMA ShufflePlaces ==
  ASSUME StreamInv, NEW snapshot, ShuffleDown(snapshot)
  PROVE  Document' = Document
<1>1. /\ previous \in Seq(Handle) /\ next \in Seq(Handle)
      /\ Running \in Seq(Handle)
  BY DocumentTyped
<1>2. Running' \in Seq(Handle) /\ next' \in Seq(Handle)
      /\ Running' \o next' = next
  <2>1. CASE next = <<>>
    <3>1. Running' = <<>> /\ next' = <<>>
      BY <2>1 DEF ShuffleDown, Running
    <3> QED
      BY <1>1, <2>1, <3>1, ConcatEmptySeq
  <2>2. CASE next # <<>>
    <3>1. Head(next) \in Handle /\ Tail(next) \in Seq(Handle)
          /\ <<Head(next)>> \o Tail(next) = next
      BY <1>1, <2>2, HeadTailProperties
    <3>2. Running' = <<Head(next)>> /\ next' = Tail(next)
      BY <2>2, <3>1 DEF ShuffleDown, Running, Handle
    <3> QED
      BY <3>1, <3>2, OneHolds
  <2> QED
    BY <2>1, <2>2
<1>3. Document' = Document
  <2>1. Document' = ((previous \o Running) \o Running') \o next'
    BY DEF Document, ShuffleDown
  <2>2. previous \o Running \in Seq(Handle)
    BY <1>1, ConcatProperties
  <2>3. ((previous \o Running) \o Running') \o next' =
          (previous \o Running) \o (Running' \o next')
    BY <1>2, <2>2, ConcatRegroups
  <2> QED
    BY <1>2, <2>1, <2>3 DEF Document
<1> QED
  BY <1>3

\* free_swindow takes the first window off the document.
LEMMA FreePlaces ==
  ASSUME StreamInv, previous # <<>>, UNCHANGED <<current, next>>,
         previous' = Tail(previous)
  PROVE  /\ Document # <<>> /\ Document[1] = Head(previous)
         /\ Document' = Tail(Document)
         /\ Len(Document) \in Nat /\ 1 \in 1 .. Len(Document)
<1> DEFINE w == Head(previous)
           rest == Running \o next
<1>1. /\ previous \in Seq(Handle) /\ next \in Seq(Handle)
      /\ Running \in Seq(Handle) /\ Document \in Seq(Handle)
      /\ IsInjective(Document) /\ ToSet(Document) = DOMAIN win
  BY DocumentTyped
<1>2. /\ w \in Handle /\ Tail(previous) \in Seq(Handle) /\ w = previous[1]
      /\ <<w>> \in Seq(Handle) /\ previous = <<w>> \o Tail(previous)
  BY <1>1, HeadTailProperties, OneHolds
<1>3. rest \in Seq(Handle)
  BY <1>1, ConcatPlaces
<1>4. Document = previous \o rest /\ Document' = Tail(previous) \o rest
  <2>1. previous' = Tail(previous) /\ UNCHANGED <<current, next>>
    OBVIOUS
  <2>2. (previous \o Running) \o next = previous \o rest
    BY <1>1, ConcatRegroups
  <2>3. (Tail(previous) \o Running) \o next = Tail(previous) \o rest
    BY <1>1, <1>2, ConcatRegroups, SMTT(60)
  <2> QED
    BY <2>1, <2>2, <2>3 DEF Document, Running
<1> HIDE DEF w, rest
<1>5. /\ Document # <<>> /\ Document[1] = w /\ Document' = Tail(Document)
      /\ Len(Document) \in Nat /\ 1 \in 1 .. Len(Document)
  <2>1. Tail(previous) \o rest \in Seq(Handle)
    BY <1>2, <1>3, ConcatPlaces
  <2>2. Document = <<w>> \o (Tail(previous) \o rest)
    BY <1>2, <1>3, <1>4, ConcatRegroups
  <2>3. Head(Document) = w /\ Tail(Document) = Tail(previous) \o rest
    BY <1>2, <2>1, <2>2
  <2>4. Document # <<>>
    BY <1>2, <2>1, <2>2, ConcatPlaces
  <2> QED
    BY <1>1, <1>4, <2>3, <2>4, HeadTailProperties, EmptySeq, LenProperties, SMTT(60)
<1> QED
  BY <1>5 DEF w

\* alloc_push_single_window puts the new window right after the running one.
LEMMA PushPlaces ==
  ASSUME StreamInv, current # NoWin, UNCHANGED <<previous, current>>,
         next' = <<window_counter + 1>> \o next
  PROVE  Inserts(Document, Document', Len(previous) + 1, window_counter + 1)
<1> DEFINE id == window_counter + 1
           at == Len(previous) + 1
<1>1. next' = <<id>> \o next
  OBVIOUS
<1>2. id \in Handle
  BY FreshHandle
<1> HIDE DEF id
<1>3. /\ previous \in Seq(Handle) /\ next \in Seq(Handle)
      /\ Running \in Seq(Handle) /\ Document \in Seq(Handle)
  BY DocumentTyped
<1>4. /\ Len(previous) \in Nat /\ Len(next) \in Nat
      /\ Len(Document) = at + Len(next)
      /\ at \in 1 .. Len(Document) /\ Document[at] = current
      /\ \A i \in 1 .. Len(next) : Document[at + i] = next[i]
  <2>1. /\ Len(previous) \in Nat /\ Len(next) \in Nat /\ Len(Running) = 1
        /\ Len(Document) = Len(previous) + Len(Running) + Len(next)
        /\ Document[Len(previous) + 1] = current
        /\ \A i \in 1 .. Len(next) :
             Document[Len(previous) + Len(Running) + i] = next[i]
    BY DocumentPlaces
  <2>2. at \in 1 .. Len(Document)
    BY <2>1
  <2> QED
    BY <2>1, <2>2
<1>5. /\ Len(Document') = Len(Document) + 1
      /\ \A i \in 1 .. at : Document'[i] = Document[i]
      /\ Document'[at + 1] = id
      /\ \A i \in at + 1 .. Len(Document) : Document'[i + 1] = Document[i]
  <2> DEFINE upto == previous \o Running
  <2>1. /\ upto \in Seq(Handle) /\ Len(upto) = at
        /\ Document = upto \o next
    BY <1>3, <1>4, ConcatPlaces, DocumentPlaces DEF Document
  <2>2. Document' = upto \o (<<id>> \o next)
    BY <1>1 DEF Document, Running
  <2> HIDE DEF upto
  <2>3. <<id>> \in Seq(Handle) /\ Len(<<id>>) = 1 /\ <<id>>[1] = id
    BY <1>2, OneHolds
  <2>4. /\ <<id>> \o next \in Seq(Handle) /\ Len(<<id>> \o next) = 1 + Len(next)
        /\ (<<id>> \o next)[1] = id
        /\ \A i \in 1 .. Len(next) : (<<id>> \o next)[1 + i] = next[i]
    BY <1>3, <2>3, ConcatPlaces
  <2> DEFINE tail == <<id>> \o next
  <2> HIDE DEF tail
  <2>5. /\ tail \in Seq(Handle) /\ Len(tail) = 1 + Len(next) /\ tail[1] = id
        /\ \A i \in 1 .. Len(next) : tail[1 + i] = next[i]
    BY <2>4 DEF tail
  <2>6. Document' = upto \o tail
    BY <2>2 DEF tail
  <2>7. /\ Document' \in Seq(Handle) /\ Len(Document') = at + (1 + Len(next))
        /\ \A i \in 1 .. at : Document'[i] = upto[i]
        /\ \A i \in 1 .. 1 + Len(next) : Document'[at + i] = tail[i]
    <3>1. /\ upto \o tail \in Seq(Handle)
          /\ Len(upto \o tail) = Len(upto) + Len(tail)
          /\ \A i \in 1 .. Len(upto) : (upto \o tail)[i] = upto[i]
          /\ \A i \in 1 .. Len(tail) : (upto \o tail)[Len(upto) + i] = tail[i]
      BY <2>1, <2>5, ConcatPlaces
    <3> QED
      BY <2>1, <2>5, <2>6, <3>1
  <2>8. \A i \in 1 .. at : Document[i] = upto[i]
    BY <1>3, <2>1, ConcatPlaces
  <2>9. \A i \in at + 1 .. Len(Document) : Document'[i + 1] = Document[i]
    <3> SUFFICES ASSUME NEW i \in at + 1 .. Len(Document)
                 PROVE  Document'[i + 1] = Document[i]
      OBVIOUS
    <3> DEFINE j == i - at
    <3>1. j \in 1 .. Len(next) /\ 1 + j \in 1 .. 1 + Len(next)
          /\ i = at + j /\ i + 1 = at + (1 + j)
      BY <1>4
    <3> HIDE DEF j
    <3>2. Document'[at + (1 + j)] = tail[1 + j]
      BY <2>7, <3>1
    <3>3. tail[1 + j] = next[j] /\ Document[at + j] = next[j]
      BY <1>4, <2>5, <3>1
    <3> QED
      BY <3>1, <3>2, <3>3
  <2>10. 1 \in 1 .. 1 + Len(next) /\ at + (1 + Len(next)) = Len(Document) + 1
    BY <1>4
  <2>11. Len(Document') = Len(Document) + 1 /\ Document'[at + 1] = id
    BY <2>5, <2>7, <2>10
  <2>12. \A i \in 1 .. at : Document'[i] = Document[i]
    BY <2>7, <2>8
  <2> QED
    BY <2>9, <2>11, <2>12
<1>6. Inserts(Document, Document', at, id)
  BY <1>4, <1>5 DEF Inserts
<1> QED
  BY <1>6 DEF id

-----------------------------------------------------------------------------
(* The operations on the stream.                                              *)

\* alloc_append_single_window: the links follow the document, provided the
\* window before the new one is a waiting one.
LEMMA AllocAppendLinks ==
  ASSUME StreamInv, WinTyped, LinksFollowDocument, StreamInv',
         next = <<>> => Document = <<>>,
         NEW rec \in Window, rec.nxt = NoWin, AllocAppend(rec)
  PROVE  LinksFollowDocument'
<1> DEFINE id == window_counter + 1
           prv == IF next = <<>> THEN NoWin ELSE Last(next)
           linked == IF next = <<>> THEN win ELSE [win EXCEPT ![prv].nxt = id]
           new == [rec EXCEPT !.prv = prv]
           upto == previous \o Running
<1>1. /\ win' = Extended(linked, id, new)
      /\ next' = Append(next, id)
      /\ UNCHANGED <<previous, current>>
  BY DEF AllocAppend
<1>2. id \in Handle /\ id \notin DOMAIN win
  BY FreshHandle
<1> HIDE DEF id
<1>3. /\ previous \in Seq(Handle) /\ next \in Seq(Handle)
      /\ Running \in Seq(Handle) /\ Document \in Seq(Handle)
      /\ IsInjective(Document) /\ ToSet(Document) = DOMAIN win
  BY DocumentTyped
<1>4. Document' = Append(Document, id)
  BY <1>1, AppendPlaces DEF id
<1>5. Document # <<>> => /\ next # <<>> /\ Len(Document) \in 1 .. Len(Document)
                         /\ Document[Len(Document)] = prv
  <2> SUFFICES ASSUME Document # <<>>
               PROVE  /\ next # <<>> /\ Len(Document) \in 1 .. Len(Document)
                      /\ Document[Len(Document)] = prv
    OBVIOUS
  <2>1. next # <<>>
    OBVIOUS
  <2>2. Len(next) \in 1 .. Len(next) /\ next[Len(next)] = prv
    BY <1>3, <2>1, EmptySeq, LenProperties DEF Last
  <2>3. /\ Len(Document) = Len(previous) + Len(Running) + Len(next)
        /\ Len(previous) \in Nat /\ Len(Running) \in Nat /\ Len(next) \in Nat
        /\ Document[Len(previous) + Len(Running) + Len(next)] = next[Len(next)]
    BY <2>2, DocumentPlaces
  <2> QED
    BY <2>1, <2>2, <2>3
<1> HIDE DEF prv
<1>6. ASSUME NEW x \in DOMAIN win
      PROVE  /\ win'[x].prv = win[x].prv
             /\ win'[x].nxt = IF next # <<>> /\ x = prv THEN id ELSE win[x].nxt
  <2>1. win[x] \in Window
    BY DEF WinTyped
  <2>2. win'[x] = linked[x]
    BY <1>1, <1>2 DEF Extended
  <2>3. linked[x] = IF next # <<>> /\ x = prv THEN [win[x] EXCEPT !.nxt = id]
                    ELSE win[x]
    OBVIOUS
  <2> QED
    BY <2>1, <2>2, <2>3 DEF Window
<1>7. win'[id].prv = prv /\ win'[id].nxt = NoWin
  <2>1. win'[id] = new
    BY <1>1 DEF Extended
  <2> QED
    BY <2>1 DEF Window
<1> HIDE DEF linked, new, upto
<1>8. \A i \in 1 .. Len(Document) :
        /\ win'[Document[i]].prv = win[Document[i]].prv
        /\ win'[Document[i]].nxt =
             IF i = Len(Document) THEN id ELSE win[Document[i]].nxt
  <2> SUFFICES ASSUME NEW i \in 1 .. Len(Document)
               PROVE  /\ win'[Document[i]].prv = win[Document[i]].prv
                      /\ win'[Document[i]].nxt =
                           IF i = Len(Document) THEN id
                           ELSE win[Document[i]].nxt
    OBVIOUS
  <2>1. /\ i \in DOMAIN Document /\ Document[i] \in DOMAIN win
        /\ Document # <<>> /\ Len(Document) \in DOMAIN Document
    BY <1>3, LenProperties, EmptySeq DEF ToSet
  <2>2. next # <<>> /\ (Document[i] = prv <=> i = Len(Document))
    BY <1>3, <1>5, <2>1 DEF IsInjective
  <2> QED
    BY <1>6, <2>1, <2>2
<1>9. prv = IF Document = <<>> THEN NoWin ELSE Document[Len(Document)]
  <2>1. CASE Document = <<>>
    <3>1. next = <<>>
      BY <1>3, <2>1, DocumentPlaces, EmptySeq
    <3> QED
      BY <2>1, <3>1 DEF prv
  <2>2. CASE Document # <<>>
    BY <1>5, <2>2
  <2> QED
    BY <2>1, <2>2
<1>10. Linked(win, Document)
  BY LinksAreLinked
<1>11. Linked(win', Append(Document, id))
  BY <1>2, <1>3, <1>7, <1>8, <1>9, <1>10, LinkedAppend
<1> QED
  BY <1>4, <1>11, LinksAreLinkedNext

\* shuffle_windows_down leaves the document and its links as they are.
LEMMA ShuffleDownLinks ==
  ASSUME StreamInv, WinTyped, LinksFollowDocument, StreamInv',
         NEW snapshot, ShuffleDown(snapshot)
  PROVE  LinksFollowDocument'
<1>1. Document' = Document
  BY ShufflePlaces
<1>2. ASSUME NEW x \in DOMAIN win
      PROVE  win'[x].prv = win[x].prv /\ win'[x].nxt = win[x].nxt
  <2>1. win[x] \in Window
    BY DEF WinTyped
  <2>2. win'[x] = win[x] \/ win'[x] = [win[x] EXCEPT !.variables = snapshot]
    BY DEF ShuffleDown
  <2> QED
    BY <2>1, <2>2 DEF Window
<1> QED
  BY <1>1, <1>2, LinksKept

\* free_swindow takes the oldest window out of the chain of links.
LEMMA FreeFirstLinks ==
  ASSUME StreamInv, WinTyped, LinksFollowDocument, StreamInv',
         previous # <<>>, FreeFirst
  PROVE  LinksFollowDocument'
<1> DEFINE w == Head(previous)
           p == win[w].prv
           n == win[w].nxt
<1>1. /\ previous \in Seq(Handle) /\ next \in Seq(Handle)
      /\ Running \in Seq(Handle) /\ Document \in Seq(Handle)
      /\ IsInjective(Document) /\ ToSet(Document) = DOMAIN win
  BY DocumentTyped
<1>2. w \in Handle
  BY <1>1, HeadTailProperties
<1>5. /\ Document # <<>> /\ Document[1] = w /\ Document' = Tail(Document)
      /\ Len(Document) \in Nat /\ 1 \in 1 .. Len(Document)
  BY FreePlaces DEF FreeFirst
<1> HIDE DEF w
<1>6. Linked(win, Document)
  BY LinksAreLinked
<1>7. p = NoWin /\ n = NxtIn(Document, 1)
  BY <1>5, <1>6 DEF Linked, PrvIn
<1>8. w \in DOMAIN win /\ w # NoWin /\ NoWin \notin DOMAIN win
  BY <1>1, <1>2, <1>5, HoldsHandles DEF ToSet, Handle
<1>9. ASSUME NEW x \in DOMAIN win, x # w
      PROVE  /\ win'[x].prv = IF x = n THEN NoWin ELSE win[x].prv
             /\ win'[x].nxt = win[x].nxt
  <2>1. win[x] \in Window
    BY DEF WinTyped
  <2>2. win'[x] = IF x = n THEN [win[x] EXCEPT !.prv = p] ELSE win[x]
    BY <1>7, <1>8, <1>9 DEF FreeFirst, w
  <2> QED
    BY <1>7, <2>1, <2>2 DEF Window
<1> HIDE DEF p, n
<1>10. \A i \in 2 .. Len(Document) :
         /\ win'[Document[i]].prv = IF i = 2 THEN NoWin ELSE win[Document[i]].prv
         /\ win'[Document[i]].nxt = win[Document[i]].nxt
  <2> SUFFICES ASSUME NEW i \in 2 .. Len(Document)
               PROVE  /\ win'[Document[i]].prv =
                           IF i = 2 THEN NoWin ELSE win[Document[i]].prv
                      /\ win'[Document[i]].nxt = win[Document[i]].nxt
    OBVIOUS
  <2>1. /\ i \in DOMAIN Document /\ 1 \in DOMAIN Document /\ 2 \in DOMAIN Document
        /\ i # 1 /\ Len(Document) # 1
    BY <1>1, <1>5, LenProperties
  <2>2. Document[i] \in DOMAIN win /\ Document[i] # w
    BY <1>1, <1>5, <2>1 DEF ToSet, IsInjective
  <2>3. n = Document[2]
    BY <1>7, <2>1 DEF NxtIn
  <2>4. Document[i] = n <=> i = 2
    BY <1>1, <2>1, <2>3 DEF IsInjective
  <2> QED
    BY <1>9, <2>2, <2>4
<1>11. Linked(win', Tail(Document))
  BY <1>1, <1>5, <1>6, <1>10, LinkedTail
<1> QED
  BY <1>5, <1>11, LinksAreLinkedNext

\* delimit_at on the running window links the tail between it and the first
\* window that waits.
LEMMA DelimitCurrentLinks ==
  ASSUME StreamInv, WinTyped, LinksFollowDocument, StreamInv', current # NoWin,
         NEW k, DelimitCurrent(k)
  PROVE  LinksFollowDocument'
<1> DEFINE id == window_counter + 1
           front == IF next = <<>> THEN NoWin ELSE Head(next)
           cut == [win EXCEPT ![current] =
                     [Truncated(current, k) EXCEPT !.nxt = id]]
           linked == IF next = <<>> THEN cut ELSE [cut EXCEPT ![front].prv = id]
           new == [Tailing(current, k) EXCEPT !.prv = current, !.nxt = front]
           at == Len(previous) + 1
<1>1. /\ win' = Extended(linked, id, new)
      /\ next' = <<id>> \o next
      /\ UNCHANGED <<previous, current>>
  BY DEF DelimitCurrent
<1>2. id \in Handle /\ id \notin DOMAIN win
  BY FreshHandle
<1> HIDE DEF id
<1>3. /\ previous \in Seq(Handle) /\ next \in Seq(Handle)
      /\ Running \in Seq(Handle) /\ Document \in Seq(Handle)
      /\ IsInjective(Document) /\ ToSet(Document) = DOMAIN win
  BY DocumentTyped
<1>4. /\ Len(previous) \in Nat /\ Len(next) \in Nat
      /\ Len(Document) = at + Len(next)
      /\ at \in 1 .. Len(Document) /\ Document[at] = current
      /\ \A i \in 1 .. Len(next) : Document[at + i] = next[i]
  <2>1. /\ Len(previous) \in Nat /\ Len(next) \in Nat /\ Len(Running) = 1
        /\ Len(Document) = Len(previous) + Len(Running) + Len(next)
        /\ Document[Len(previous) + 1] = current
        /\ \A i \in 1 .. Len(next) :
             Document[Len(previous) + Len(Running) + i] = next[i]
    BY DocumentPlaces
  <2>2. at \in 1 .. Len(Document)
    BY <2>1
  <2> QED
    BY <2>1, <2>2
<1>5. current \in DOMAIN win /\ win[current] \in Window
  BY <1>3, <1>4, LenProperties DEF ToSet, WinTyped
<1>6. front = NxtIn(Document, at)
  <2>1. CASE next = <<>>
    <3>1. at = Len(Document)
      BY <1>3, <1>4, <2>1, EmptySeq
    <3> QED
      BY <2>1, <3>1 DEF NxtIn
  <2>2. CASE next # <<>>
    <3>1. 1 \in 1 .. Len(next) /\ Head(next) = next[1] /\ at # Len(Document)
      BY <1>3, <1>4, <2>2, EmptySeq, HeadTailProperties
    <3> QED
      BY <1>4, <2>2, <3>1 DEF NxtIn
  <2> QED
    BY <2>1, <2>2
<1>7. next # <<>> => front # current /\ front \in DOMAIN win
  <2> SUFFICES ASSUME next # <<>>
               PROVE  front # current /\ front \in DOMAIN win
    OBVIOUS
  <2>1. /\ 1 \in 1 .. Len(next) /\ front = next[1]
        /\ at \in DOMAIN Document /\ at + 1 \in DOMAIN Document /\ at + 1 # at
    BY <1>3, <1>4, EmptySeq, HeadTailProperties, LenProperties
  <2>2. front = Document[at + 1]
    BY <1>4, <2>1
  <2> QED
    BY <1>3, <1>4, <2>1, <2>2 DEF IsInjective, ToSet
<1> HIDE DEF front
<1>8. ASSUME NEW x \in DOMAIN win
      PROVE  /\ win'[x].prv = IF next # <<>> /\ x = front THEN id ELSE win[x].prv
             /\ win'[x].nxt = IF x = current THEN id ELSE win[x].nxt
  <2>1. win[x] \in Window
    BY DEF WinTyped
  <2>2. win'[x] = linked[x]
    BY <1>1, <1>2 DEF Extended
  <2>3. CASE x = current
    <3>1. linked[x] = [Truncated(current, k) EXCEPT !.nxt = id]
      BY <1>5, <1>7, <2>3
    <3> QED
      BY <1>5, <1>7, <2>2, <2>3, <3>1 DEF Truncated, Window
  <2>4. CASE x # current
    <3>1. linked[x] = IF next # <<>> /\ x = front THEN [win[x] EXCEPT !.prv = id]
                      ELSE win[x]
      BY <2>4
    <3> QED
      BY <2>1, <2>2, <2>4, <3>1 DEF Window
  <2> QED
    BY <2>3, <2>4
<1>9. win'[id].prv = current /\ win'[id].nxt = front
  <2>1. win'[id] = new
    BY <1>1 DEF Extended
  <2> QED
    BY <2>1 DEF Tailing, FreshWindow
<1> HIDE DEF cut, linked, new
<1>10. \A i \in 1 .. Len(Document) :
         /\ win'[Document[i]].prv =
              IF i = at + 1 THEN id ELSE win[Document[i]].prv
         /\ win'[Document[i]].nxt = IF i = at THEN id ELSE win[Document[i]].nxt
  <2> SUFFICES ASSUME NEW i \in 1 .. Len(Document)
               PROVE  /\ win'[Document[i]].prv =
                           IF i = at + 1 THEN id ELSE win[Document[i]].prv
                      /\ win'[Document[i]].nxt =
                           IF i = at THEN id ELSE win[Document[i]].nxt
    OBVIOUS
  <2>1. /\ i \in DOMAIN Document /\ at \in DOMAIN Document
        /\ Document[i] \in DOMAIN win
    BY <1>3, <1>4, LenProperties DEF ToSet
  <2>2. Document[i] = current <=> i = at
    BY <1>3, <1>4, <2>1 DEF IsInjective
  <2>3. (next # <<>> /\ Document[i] = front) <=> i = at + 1
    <3>1. CASE next = <<>>
      BY <1>3, <1>4, <3>1, EmptySeq
    <3>2. CASE next # <<>>
      <4>1. Len(next) # 0
        BY <1>3, <3>2, EmptySeq
      <4>2. at + 1 \in DOMAIN Document /\ front = Document[at + 1]
        BY <1>3, <1>4, <1>6, <4>1, LenProperties DEF NxtIn
      <4> QED
        BY <1>3, <2>1, <3>2, <4>2 DEF IsInjective
    <3> QED
      BY <3>1, <3>2
  <2> QED
    BY <1>8, <2>1, <2>2, <2>3
<1>11. Inserts(Document, Document', at, id) /\ Document' \in Seq(Handle)
  BY <1>1, PushPlaces, DocumentTypedNext DEF id
<1>12. Linked(win, Document)
  BY LinksAreLinked
<1> HIDE DEF at
<1>13. win'[id].prv = Document[at] /\ win'[id].nxt = NxtIn(Document, at)
  BY <1>4, <1>6, <1>9
<1>14. at \in 1 .. Len(Document)
  BY <1>4
<1>15. Linked(win', Document')
  <2> DEFINE d == Document
             e == Document'
             f == win
             g == win'
  <2>1. /\ d \in Seq(Handle) /\ e \in Seq(Handle) /\ id \in Handle
        /\ at \in 1 .. Len(d) /\ Inserts(d, e, at, id)
    BY <1>2, <1>3, <1>11, <1>14
  <2>2. /\ Linked(f, d)
        /\ \A i \in 1 .. Len(d) :
             /\ g[d[i]].prv = IF i = at + 1 THEN id ELSE f[d[i]].prv
             /\ g[d[i]].nxt = IF i = at THEN id ELSE f[d[i]].nxt
        /\ g[id].prv = d[at]
        /\ g[id].nxt = NxtIn(d, at)
    BY <1>10, <1>12, <1>13
  <2> HIDE DEF d, e, f, g
  <2>3. Linked(g, e)
    BY <2>1, <2>2, LinkedInsert, SMTT(60)
  <2> QED
    BY <2>3 DEF e, g
<1> QED
  BY <1>15, LinksAreLinkedNext

\* delimit_at on a waiting window rebuilds every link.
LEMMA DelimitNextLinks ==
  ASSUME TypeInv, StreamInv', received' = received, NEW w \in DOMAIN win,
         NEW k \in 1 .. Len(win[w].cohorts), DelimitNext(w, k)
  PROVE  LinksFollowDocument'
<1>1. WinTyped'
  BY DelimitNextTyped
<1>2. PICK f : win' = Relinked(f, Document')
  BY DEF DelimitNext, Document, Running
<1>3. DOMAIN f = DOMAIN win'
  BY <1>2, RelinkedDomain
<1>4. /\ Document' \in Seq(Handle) /\ IsInjective(Document')
      /\ ToSet(Document') = DOMAIN win'
  BY DocumentTypedNext
<1>5. \A x \in ToSet(Document') : Relinked(f, Document')[x] \in Window'
  BY <1>1, <1>2, <1>4 DEF WinTyped
<1>6. Linked(Relinked(f, Document'), Document')
  BY <1>3, <1>4, <1>5, LinkedRebuilt
<1> QED
  BY <1>2, <1>6, LinksAreLinkedNext

-----------------------------------------------------------------------------
(* The driver.  A window is only appended when the one before it waits:       *)
(* between two window runs, nothing waits only when the document is empty.    *)

Filling ==
  {"binary", "read", "lookback", "soft", "hard", "open", "attach", "newcohort",
   "eof", "eofvariables"}

FillInv ==
  /\ pc \in Filling /\ next = <<>> => previous = <<>> /\ current = NoWin
  /\ pc \in {"flushprint", "eofprint"} => next = <<>> /\ current = NoWin

\* A step that touches neither the places of windows nor leaves the filling.
LEMMA FillKept ==
  ASSUME FillInv, pc \in Filling, pc' \in Filling \cup {"drain", "flush", "eofdrain"},
         UNCHANGED <<previous, current, next>>
  PROVE  FillInv'
  BY DEF FillInv, Filling

\* A step after which a window waits.
LEMMA FillWaits ==
  ASSUME pc' \notin {"flushprint", "eofprint"}, next' # <<>>
  PROVE  FillInv'
  BY DEF FillInv

\* A step to a window run, or to the end.
LEMMA FillElsewhere ==
  ASSUME pc' \notin Filling \cup {"flushprint", "eofprint"}
  PROVE  FillInv'
  BY DEF FillInv

\* A window appended waits.
LEMMA AllocAppendWaits ==
  ASSUME StreamInv, NEW rec, AllocAppend(rec)
  PROVE  next' # <<>>
<1>1. next \in Seq(Handle) /\ window_counter + 1 \in Handle
  BY FreshHandle DEF StreamInv
<1> QED
  BY <1>1, AppendProperties DEF AllocAppend

\* So does the tail of a waiting window that is split.
LEMMA DelimitNextWaits ==
  ASSUME StreamInv, NEW w, NEW k, DelimitNext(w, k)
  PROVE  next' # <<>>
<1>1. PICK pos \in DOMAIN next : next' = InsertAt(next, pos + 1, window_counter + 1)
  BY DEF DelimitNext
<1>2. /\ next \in Seq(Handle) /\ window_counter + 1 \in Handle
      /\ pos + 1 \in 1 .. Len(next) + 1
  BY FreshHandle, LenProperties DEF StreamInv
<1>3. window_counter + 1 \in ToSet(next')
  BY <1>1, <1>2, InsertHolds
<1> QED
  BY <1>3, EmptyHolds

\* What a line that is read leaves true.
LEMMA ReadLineFill ==
  ASSUME TypeInv, FillInv, ReadLine
  PROVE  FillInv'
<1>1. CASE DepBreak
  <2>1. next' # <<>> /\ pc' = "read"
    BY <1>1, AllocAppendWaits DEF DepBreak, TypeInv
  <2> QED
    BY <2>1, FillWaits
<1>2. CASE ~DepBreak
  <2>1. /\ pc = "read" /\ pc' \in {"read", "lookback", "flush", "eof"}
        /\ UNCHANGED <<previous, current, next>>
    BY <1>2 DEF ReadLine, CohortLine, TextLine, DelimiterLine, SetvarLine,
                SetvarListLine, RemvarLine, FlushLine, ExitLine, EndOfFile,
                NextItem, AttachText, FinishCohort, stream, Goto
  <2> QED
    BY <2>1, FillKept DEF Filling
<1> QED
  BY <1>1, <1>2

\* What the steps of the line handler leave true.
LEMMA GatherFill ==
  ASSUME TypeInv, FillInv,
         \/ BinaryWindow \/ SoftLookback \/ SoftBreak \/ HardBreak
         \/ OpenWindow \/ AttachCohort \/ DrainOne \/ NewCohort
  PROVE  FillInv'
<1>0. StreamInv
  BY DEF TypeInv
<1>1. CASE BinaryWindow
  <2>1. next' # <<>> /\ pc' = "read"
    BY <1>0, <1>1, AllocAppendWaits DEF BinaryWindow, Goto
  <2> QED
    BY <2>1, FillWaits
<1>2. CASE SoftLookback
  <2>1. pc = "lookback" /\ pc' = "soft"
    BY <1>2 DEF SoftLookback, Goto
  <2>2. next' # <<>> \/ UNCHANGED <<previous, current, next>>
    BY <1>0, <1>2, DelimitNextWaits DEF SoftLookback, stream
  <2> QED
    BY <2>1, <2>2, FillWaits, FillKept DEF Filling
<1>3. CASE SoftBreak \/ HardBreak
  <2>1. /\ pc \in {"soft", "hard"} /\ pc' \in {"hard", "open"}
        /\ UNCHANGED <<previous, current, next>>
    BY <1>3 DEF SoftBreak, HardBreak, CloseWindow, stream, Goto
  <2> QED
    BY <2>1, FillKept DEF Filling
<1>4. CASE OpenWindow
  <2>1. pc = "open" /\ pc' = "attach"
    BY <1>4 DEF OpenWindow, Goto
  <2>2. next' # <<>> \/ UNCHANGED <<previous, current, next>>
    BY <1>0, <1>4, AllocAppendWaits DEF OpenWindow, stream
  <2> QED
    BY <2>1, <2>2, FillWaits, FillKept DEF Filling
<1>5. CASE AttachCohort \/ NewCohort
  <2>1. /\ pc \in {"attach", "newcohort"} /\ pc' \in {"drain", "newcohort", "read"}
        /\ UNCHANGED <<previous, current, next>>
    BY <1>5 DEF AttachCohort, NewCohort, Goto
  <2> QED
    BY <2>1, FillKept DEF Filling
<1>6. CASE DrainOne
  <2>1. pc' = "run"
    BY <1>6 DEF DrainOne, Goto
  <2> QED
    BY <2>1, FillElsewhere DEF Filling
<1> QED
  BY <1>1, <1>2, <1>3, <1>4, <1>5, <1>6

\* What a window run leaves true: while the input lasts, windows wait behind
\* the one that was run (SpanInv).
LEMMA RunFill ==
  ASSUME TypeInv, SpanInv,
         RunWindow \/ RetireWindow \/ StartPass \/ DelimitRule \/ EndRun
  PROVE  FillInv'
<1>1. CASE RunWindow \/ RetireWindow \/ StartPass \/ DelimitRule
  <2>1. pc' \in {"retire", "rules"}
    BY <1>1 DEF RunWindow, RetireWindow, StartPass, DelimitRule, Goto
  <2> QED
    BY <2>1, FillElsewhere DEF Filling
<1>2. CASE EndRun
  <2>1. /\ pc' = caller /\ caller \in {"newcohort", "flush", "eofdrain"}
        /\ next' = next /\ pc \in {"retire", "rules"}
    BY <1>2 DEF EndRun, Goto, stream, TypeInv, DriverTyped
  <2>2. CASE caller = "newcohort"
    <3>1. Len(next) > NumWindows /\ NumWindows \in Nat
      BY <2>1, <2>2, DriverAssumption DEF SpanInv
    <3>2. next # <<>>
      BY <3>1
    <3> QED
      BY <2>1, <2>2, <3>2, FillWaits
  <2>3. CASE caller # "newcohort"
    BY <2>1, <2>3, FillElsewhere DEF Filling
  <2> QED
    BY <2>2, <2>3
<1> QED
  BY <1>1, <1>2

\* What a flush and the end of the input leave true.
LEMMA EndingFill ==
  ASSUME TypeInv, FillInv,
         \/ DrainAll("flush", "flushprint") \/ DrainAll("eofdrain", "eofprint")
         \/ PrintFirst("flushprint") \/ PrintFirst("eofprint")
         \/ EndFlush \/ FinishInput \/ LastVariables \/ EndOutput
  PROVE  FillInv'
<1>1. CASE DrainAll("flush", "flushprint") \/ DrainAll("eofdrain", "eofprint")
  <2>1. CASE next = <<>>
    BY <1>1, <2>1 DEF DrainAll, ShuffleDown, Goto, FillInv, Filling
  <2>2. CASE next # <<>>
    <3>1. pc' = "run"
      BY <1>1, <2>2 DEF DrainAll, Goto
    <3> QED
      BY <3>1, FillElsewhere DEF Filling
  <2> QED
    BY <2>1, <2>2
<1>2. CASE PrintFirst("flushprint") \/ PrintFirst("eofprint")
  BY <1>2 DEF PrintFirst, FreeFirst, FillInv, Filling
<1>3. CASE EndFlush
  BY <1>3 DEF EndFlush, stream, Goto, FillInv, Filling
<1>4. CASE FinishInput
  <2>1. /\ pc = "eof" /\ pc' = "eofvariables"
        /\ UNCHANGED <<previous, current, next>>
    BY <1>4 DEF FinishInput, FinishCohort, Goto
  <2> QED
    BY <2>1, FillKept DEF Filling
<1>5. CASE LastVariables \/ EndOutput
  <2>1. pc' \in {"eofdrain", "done"}
    BY <1>5 DEF LastVariables, EndOutput, Goto
  <2> QED
    BY <2>1, FillElsewhere DEF Filling
<1> QED
  BY <1>1, <1>2, <1>3, <1>4, <1>5

\* Every step keeps what is known of the filling.
LEMMA FillInvStep == TypeInv /\ SpanInv /\ FillInv /\ [Next]_vars => FillInv'
<1> SUFFICES ASSUME TypeInv, SpanInv, FillInv, [Next]_vars
             PROVE  FillInv'
  OBVIOUS
<1>1. CASE ReadLine
  BY <1>1, ReadLineFill
<1>2. CASE HandleLine
  BY <1>2, GatherFill, RunFill, EndingFill DEF HandleLine
<1>3. CASE Panic
  BY <1>3, FillElsewhere DEF Panic, Goto, Filling
<1>4. CASE UNCHANGED vars
  BY <1>4 DEF vars, driver, stream, FillInv
<1> QED
  BY <1>1, <1>2, <1>3, <1>4 DEF Next

-----------------------------------------------------------------------------
(* What each step does to the links.                                          *)

\* The links of windows whose content alone has changed.
SameLinks(f) ==
  /\ DOMAIN f = DOMAIN win
  /\ \A x \in DOMAIN win :
       /\ {"prv", "nxt"} \subseteq DOMAIN f[x]
       /\ f[x].prv = win[x].prv /\ f[x].nxt = win[x].nxt

\* Every live window has its two links.
LEMMA OwnLinks ==
  ASSUME WinTyped
  PROVE  SameLinks(win)
<1>1. \A x \in DOMAIN win : win[x] \in Window
  BY DEF WinTyped
<1> QED
  BY <1>1 DEF SameLinks, Window

\* Putting a cohort into a window changes no link.
LEMMA AppendedLinks ==
  ASSUME NEW f, SameLinks(f), NEW w
  PROVE  SameLinks(Appended(f, w))
<1> DEFINE g == Appended(f, w)
           held == Append(f[w].cohorts, c_cohort)
<1>1. g = [f EXCEPT ![w] = [f[w] EXCEPT !.cohorts = held]]
  BY DEF Appended
<1> HIDE DEF g, held
<1>2. DOMAIN g = DOMAIN f
  BY <1>1
<1>3. ASSUME NEW x \in DOMAIN f
      PROVE  g[x] = f[x] \/ g[x] = [f[x] EXCEPT !.cohorts = held]
  BY <1>1
<1>4. ASSUME NEW x \in DOMAIN f
      PROVE  /\ {"prv", "nxt"} \subseteq DOMAIN g[x]
             /\ g[x].prv = f[x].prv /\ g[x].nxt = f[x].nxt
  <2>1. {"prv", "nxt"} \subseteq DOMAIN f[x]
    BY DEF SameLinks
  <2> QED
    BY <1>3, <2>1
<1>5. SameLinks(g)
  BY <1>2, <1>4 DEF SameLinks
<1> QED
  BY <1>5 DEF g

\* A step that changes only the content of windows.
LEMMA ContentStep ==
  ASSUME StreamInv, LinksFollowDocument, StreamInv',
         UNCHANGED <<previous, current, next>>, SameLinks(win')
  PROVE  LinksFollowDocument'
<1>1. Document' = Document
  BY DEF Document, Running
<1>2. \A x \in DOMAIN win :
        win'[x].prv = win[x].prv /\ win'[x].nxt = win[x].nxt
  BY DEF SameLinks
<1> QED
  BY <1>1, <1>2, LinksKept

\* A step that leaves the stream alone.
LEMMA QuietLinks ==
  ASSUME StreamInv, WinTyped, LinksFollowDocument, StreamInv', UNCHANGED stream
  PROVE  LinksFollowDocument'
<1>1. UNCHANGED <<previous, current, next, win>>
  BY DEF stream
<1>2. SameLinks(win')
  <2>1. SameLinks(win)
    BY OwnLinks
  <2> QED
    BY <1>1, <2>1 DEF SameLinks
<1> QED
  BY <1>1, <1>2, ContentStep

\* Closing the window being filled, and finishing the read cohort.
LEMMA CloseWindowLinks ==
  ASSUME WinTyped, CloseWindow
  PROVE  SameLinks(win')
<1>1. SameLinks(Appended(win, c_swindow))
  BY OwnLinks, AppendedLinks
<1> QED
  BY <1>1 DEF CloseWindow

LEMMA FinishCohortLinks ==
  ASSUME NEW f, SameLinks(f), FinishCohort(f)
  PROVE  SameLinks(win')
<1>1. SameLinks(Appended(f, c_swindow))
  BY AppendedLinks
<1> QED
  BY <1>1 DEF FinishCohort

\* A line of text, wherever it goes.
LEMMA AttachTextLinks ==
  ASSUME WinTyped, AttachText
  PROVE  SameLinks(win')
<1> DEFINE post == Append(win[l_swindow].text_post, received')
           lead == Append(win[l_swindow].text, received')
<1>1. \/ win' = win
      \/ win' = [win EXCEPT ![l_swindow] = [win[l_swindow] EXCEPT !.text_post = post]]
      \/ win' = [win EXCEPT ![l_swindow] = [win[l_swindow] EXCEPT !.text = lead]]
  BY DEF AttachText
<1> HIDE DEF post, lead
<1>2. SameLinks(win)
  BY OwnLinks
<1>3. DOMAIN win' = DOMAIN win
  BY <1>1
<1>4. ASSUME NEW x \in DOMAIN win
      PROVE  /\ {"prv", "nxt"} \subseteq DOMAIN win'[x]
             /\ win'[x].prv = win[x].prv /\ win'[x].nxt = win[x].nxt
  <2>1. \/ win'[x] = win[x]
        \/ win'[x] = [win[x] EXCEPT !.text_post = post]
        \/ win'[x] = [win[x] EXCEPT !.text = lead]
    BY <1>1
  <2>2. {"prv", "nxt"} \subseteq DOMAIN win[x]
    BY <1>2 DEF SameLinks
  <2> QED
    BY <2>1, <2>2
<1> QED
  BY <1>3, <1>4 DEF SameLinks

\* A window that is opened is not linked forward.
LEMMA FreshLinks ==
  ASSUME StreamInv, received \in Nat, NEW v \in Deltas
  PROVE  /\ [FreshWindow EXCEPT !.variables = v] \in Window
         /\ [FreshWindow EXCEPT !.variables = v].nxt = NoWin
         /\ FreshWindow \in Window /\ FreshWindow.nxt = NoWin
<1>1. [FreshWindow EXCEPT !.variables = v] \in Window
  BY FreshTyped DEF StreamInv
<1>2. /\ <<>> \in Seq(Items) /\ <<>> \in Seq(Cohort) /\ {} \in Deltas
      /\ 0 \in 0 .. received /\ 0 \in 0 .. window_counter
  BY DEF Deltas, StreamInv
<1>3. FreshWindow \in Window
  BY <1>2 DEF FreshWindow, Window, NoWin
<1> QED
  BY <1>1, <1>3 DEF FreshWindow

\* What a line that is read does to the links.
LEMMA ReadLineLinks ==
  ASSUME TypeInv, FillInv, LinksFollowDocument, StreamInv', ReadLine
  PROVE  LinksFollowDocument'
<1>0. /\ StreamInv /\ WinTyped /\ received \in Nat /\ pending_var \in Deltas
      /\ SameLinks(win)
  BY OwnLinks DEF TypeInv, DriverTyped
<1>1. CASE CohortLine \/ SetvarLine \/ SetvarListLine \/ RemvarLine \/ ExitLine
           \/ EndOfFile
  <2>1. UNCHANGED stream
    BY <1>1 DEF CohortLine, SetvarLine, SetvarListLine, RemvarLine, ExitLine,
                EndOfFile
  <2> QED
    BY <1>0, <2>1, QuietLinks
<1>2. CASE DepBreak
  <2> DEFINE rec == [FreshWindow EXCEPT !.variables = pending_var]
  <2>1. AllocAppend(rec) /\ pc = "read"
    BY <1>2 DEF DepBreak
  <2>2. rec \in Window /\ rec.nxt = NoWin
    BY <1>0, FreshLinks
  <2> HIDE DEF rec
  <2>3. next = <<>> => Document = <<>>
    BY <2>1 DEF FillInv, Filling, Document, Running
  <2> QED
    BY <1>0, <2>1, <2>2, <2>3, AllocAppendLinks
<1>3. CASE TextLine
  <2>1. SameLinks(win') /\ UNCHANGED <<previous, current, next>>
    BY <1>0, <1>3, AttachTextLinks DEF TextLine, AttachText
  <2> QED
    BY <1>0, <2>1, ContentStep
<1>4. CASE DelimiterLine
  <2>1. CASE l_swindow # NoWin /\ c_cohort # NoCohort
    <3> DEFINE post == Append(win[l_swindow].text_post, received')
               f == [win EXCEPT ![l_swindow] =
                       [win[l_swindow] EXCEPT !.text_post = post]]
    <3>1. win' = Appended(f, c_swindow) /\ UNCHANGED <<previous, current, next>>
      BY <1>4, <2>1 DEF DelimiterLine
    <3> HIDE DEF post
    <3>2. SameLinks(f)
      <4>1. DOMAIN f = DOMAIN win
        OBVIOUS
      <4>2. ASSUME NEW x \in DOMAIN win
            PROVE  /\ {"prv", "nxt"} \subseteq DOMAIN f[x]
                   /\ f[x].prv = win[x].prv /\ f[x].nxt = win[x].nxt
        <5>1. f[x] = win[x] \/ f[x] = [win[x] EXCEPT !.text_post = post]
          OBVIOUS
        <5>2. {"prv", "nxt"} \subseteq DOMAIN win[x]
          BY <1>0 DEF SameLinks
        <5> HIDE DEF f
        <5> QED
          BY <5>1, <5>2
      <4> QED
        BY <4>1, <4>2 DEF SameLinks
    <3> HIDE DEF f
    <3>3. SameLinks(win')
      BY <3>1, <3>2, AppendedLinks
    <3> QED
      BY <1>0, <3>1, <3>3, ContentStep
  <2>2. CASE ~(l_swindow # NoWin /\ c_cohort # NoCohort)
    <3>1. AttachText
      BY <1>4, <2>2 DEF DelimiterLine
    <3>2. SameLinks(win') /\ UNCHANGED <<previous, current, next>>
      BY <1>0, <3>1, AttachTextLinks DEF AttachText
    <3> QED
      BY <1>0, <3>2, ContentStep
  <2> QED
    BY <2>1, <2>2
<1>5. CASE FlushLine
  <2> DEFINE f == IF Back = NoWin THEN win
                  ELSE [win EXCEPT ![Back].flush_after = received']
  <2>1. FinishCohort(f)
    BY <1>5 DEF FlushLine
  <2>2. SameLinks(f)
    <3>1. DOMAIN f = DOMAIN win
      OBVIOUS
    <3>2. ASSUME NEW x \in DOMAIN win
          PROVE  /\ {"prv", "nxt"} \subseteq DOMAIN f[x]
                 /\ f[x].prv = win[x].prv /\ f[x].nxt = win[x].nxt
      <4>1. f[x] = win[x] \/ f[x] = [win[x] EXCEPT !.flush_after = received']
        OBVIOUS
      <4>2. {"prv", "nxt"} \subseteq DOMAIN win[x]
        BY <1>0 DEF SameLinks
      <4> HIDE DEF f
      <4> QED
        BY <4>1, <4>2
    <3> QED
      BY <3>1, <3>2 DEF SameLinks
  <2> HIDE DEF f
  <2>3. SameLinks(win')
    BY <2>1, <2>2, FinishCohortLinks
  <2>4. UNCHANGED <<previous, current, next>>
    BY <2>1 DEF FinishCohort
  <2> QED
    BY <1>0, <2>3, <2>4, ContentStep
<1> QED
  BY <1>1, <1>2, <1>3, <1>4, <1>5 DEF ReadLine

\* What the steps of the line handler do to the links.
LEMMA GatherLinks ==
  ASSUME TypeInv, FillInv, LinksFollowDocument, StreamInv',
         \/ BinaryWindow \/ SoftLookback \/ SoftBreak \/ HardBreak
         \/ OpenWindow \/ AttachCohort \/ DrainOne \/ NewCohort
  PROVE  LinksFollowDocument'
<1>0. /\ StreamInv /\ WinTyped /\ received \in Nat /\ SameLinks(win)
      /\ FreshWindow \in Window /\ FreshWindow.nxt = NoWin
  <2>1. {} \in Deltas /\ StreamInv /\ WinTyped /\ received \in Nat
    BY DEF Deltas, TypeInv, DriverTyped
  <2> QED
    BY <2>1, OwnLinks, FreshLinks
<1>1. CASE AllocAppend(FreshWindow) /\ pc \in {"binary", "open"}
  <2>1. next = <<>> => Document = <<>>
    BY <1>1 DEF FillInv, Filling, Document, Running
  <2> QED
    BY <1>0, <1>1, <2>1, AllocAppendLinks
<1>2. CASE UNCHANGED stream
  BY <1>0, <1>2, QuietLinks
<1>3. CASE BinaryWindow \/ OpenWindow
  BY <1>1, <1>2, <1>3 DEF BinaryWindow, OpenWindow
<1>4. CASE SoftLookback
  <2>1. received' = received
    BY <1>4 DEF SoftLookback
  <2>2. CASE LookbackDue /\ SoftCohorts # {}
    <3>1. c_swindow \in DOMAIN win
      BY <1>4, <2>2 DEF SoftLookback, LookbackDue, Live
    <3>2. PICK k \in SoftCohorts : DelimitNext(c_swindow, k)
      BY <1>4, <2>2 DEF SoftLookback
    <3>3. k \in 1 .. Len(win[c_swindow].cohorts)
      <4>1. win[c_swindow].cohorts \in Seq(Cohort)
        BY <1>0, <3>1 DEF WinTyped, Window
      <4> QED
        BY <3>2, <4>1, LenProperties DEF SoftCohorts
    <3> QED
      BY <2>1, <3>1, <3>2, <3>3, DelimitNextLinks
  <2>3. CASE ~(LookbackDue /\ SoftCohorts # {})
    BY <1>2, <1>4, <2>3 DEF SoftLookback
  <2> QED
    BY <2>2, <2>3
<1>5. CASE SoftBreak \/ HardBreak
  <2>1. CASE CloseWindow
    <3>1. SameLinks(win') /\ UNCHANGED <<previous, current, next>>
      BY <1>0, <2>1, CloseWindowLinks DEF CloseWindow
    <3> QED
      BY <1>0, <3>1, ContentStep
  <2> QED
    BY <1>2, <1>5, <2>1 DEF SoftBreak, HardBreak
<1>6. CASE AttachCohort
  <2>1. SameLinks(Appended(win, c_swindow))
    BY <1>0, AppendedLinks
  <2>2. UNCHANGED <<previous, current, next>> /\ SameLinks(win')
    BY <1>0, <1>6, <2>1 DEF AttachCohort, SameLinks
  <2> QED
    BY <1>0, <2>2, ContentStep
<1>7. CASE DrainOne
  BY <1>0, <1>7, ShuffleDownLinks DEF DrainOne
<1>8. CASE NewCohort
  <2> DEFINE vs == win[c_swindow].variables \cup pending_var
  <2>1. /\ UNCHANGED <<previous, current, next>>
        /\ \/ win' = win
           \/ win' = [win EXCEPT ![c_swindow] =
                        [win[c_swindow] EXCEPT !.variables = vs]]
    BY <1>8 DEF NewCohort
  <2> HIDE DEF vs
  <2>2. DOMAIN win' = DOMAIN win
    BY <2>1
  <2>3. ASSUME NEW x \in DOMAIN win
        PROVE  /\ {"prv", "nxt"} \subseteq DOMAIN win'[x]
               /\ win'[x].prv = win[x].prv /\ win'[x].nxt = win[x].nxt
    <3>1. win'[x] = win[x] \/ win'[x] = [win[x] EXCEPT !.variables = vs]
      BY <2>1
    <3>2. {"prv", "nxt"} \subseteq DOMAIN win[x]
      BY <1>0 DEF SameLinks
    <3> QED
      BY <3>1, <3>2
  <2>4. SameLinks(win')
    BY <2>2, <2>3 DEF SameLinks
  <2> QED
    BY <1>0, <2>1, <2>4, ContentStep
<1> QED
  BY <1>3, <1>4, <1>5, <1>6, <1>7, <1>8

\* What a window run does to the links.
LEMMA RunLinks ==
  ASSUME TypeInv, LinksFollowDocument, StreamInv',
         RunWindow \/ RetireWindow \/ StartPass \/ DelimitRule \/ EndRun
  PROVE  LinksFollowDocument'
<1>0. StreamInv /\ WinTyped
  BY DEF TypeInv
<1>1. CASE RunWindow \/ StartPass \/ EndRun
  BY <1>0, <1>1, QuietLinks DEF RunWindow, StartPass, EndRun
<1>2. CASE RetireWindow
  <2>1. previous # <<>> /\ FreeFirst
    BY <1>2, DriverAssumption DEF RetireWindow
  <2> QED
    BY <1>0, <2>1, FreeFirstLinks
<1>3. CASE DelimitRule
  <2>1. current # NoWin
    BY <1>3 DEF DelimitRule, TypeInv, RunningCurrent
  <2>2. PICK k : DelimitCurrent(k)
    BY <1>3 DEF DelimitRule
  <2> QED
    BY <1>0, <2>1, <2>2, DelimitCurrentLinks
<1> QED
  BY <1>1, <1>2, <1>3

\* What a flush and the end of the input do to the links.
LEMMA EndingLinks ==
  ASSUME TypeInv, FillInv, LinksFollowDocument, StreamInv',
         \/ DrainAll("flush", "flushprint") \/ DrainAll("eofdrain", "eofprint")
         \/ PrintFirst("flushprint") \/ PrintFirst("eofprint")
         \/ EndFlush \/ FinishInput \/ LastVariables \/ EndOutput
  PROVE  LinksFollowDocument'
<1>0. /\ StreamInv /\ WinTyped /\ received \in Nat /\ pending_var \in Deltas
      /\ SameLinks(win)
  BY OwnLinks DEF TypeInv, DriverTyped
<1>1. CASE DrainAll("flush", "flushprint") \/ DrainAll("eofdrain", "eofprint")
  BY <1>0, <1>1, ShuffleDownLinks DEF DrainAll
<1>2. CASE PrintFirst("flushprint") \/ PrintFirst("eofprint")
  BY <1>0, <1>2, FreeFirstLinks DEF PrintFirst
<1>3. CASE EndFlush \/ EndOutput
  BY <1>0, <1>3, QuietLinks DEF EndFlush, EndOutput
<1>4. CASE FinishInput
  <2>1. SameLinks(win') /\ UNCHANGED <<previous, current, next>>
    BY <1>0, <1>4, FinishCohortLinks DEF FinishInput, FinishCohort
  <2> QED
    BY <1>0, <2>1, ContentStep
<1>5. CASE LastVariables
  <2> DEFINE rec == [FreshWindow EXCEPT !.variables = pending_var]
  <2>1. pc = "eofvariables" /\ (AllocAppend(rec) \/ UNCHANGED stream)
    BY <1>5 DEF LastVariables
  <2>2. rec \in Window /\ rec.nxt = NoWin
    BY <1>0, FreshLinks
  <2> HIDE DEF rec
  <2>3. next = <<>> => Document = <<>>
    BY <2>1 DEF FillInv, Filling, Document, Running
  <2> QED
    BY <1>0, <2>1, <2>2, <2>3, AllocAppendLinks, QuietLinks
<1> QED
  BY <1>1, <1>2, <1>3, <1>4, <1>5

\* The links contextual tests follow across windows are always the order of
\* the document: whatever the input, the limits, the windows that are split,
\* printed and freed, and however far ahead the driver reads.
THEOREM LinksHold == Spec => []LinksFollowDocument
<1>1. Init => TypeInv /\ SpanInv /\ FillInv /\ LinksFollowDocument
  <2> SUFFICES ASSUME Init
               PROVE  TypeInv /\ SpanInv /\ FillInv /\ LinksFollowDocument
    OBVIOUS
  <2>1. TypeInv
    BY InitTypeInv
  <2>2. SpanInv
    BY Zenon DEF Init, SpanInv
  <2>3. previous = <<>> /\ current = NoWin /\ next = <<>>
    BY DEF Init, InitStream
  <2>4. FillInv
    BY <2>3 DEF FillInv
  <2>5. Document = <<>>
    BY <2>3 DEF Document, Running
  <2>6. LinksFollowDocument
    BY <2>5 DEF LinksFollowDocument
  <2> QED
    BY <2>1, <2>2, <2>4, <2>6
<1>2. TypeInv /\ [Next]_vars => TypeInv'
  BY TypeInvStep
<1>3. TypeInv /\ SpanInv /\ [Next]_vars => SpanInv'
  BY SpanInvStep
<1>4. TypeInv /\ SpanInv /\ FillInv /\ [Next]_vars => FillInv'
  BY FillInvStep
<1>5. TypeInv /\ FillInv /\ LinksFollowDocument /\ [Next]_vars => LinksFollowDocument'
  <2> SUFFICES ASSUME TypeInv, FillInv, LinksFollowDocument, [Next]_vars
               PROVE  LinksFollowDocument'
    OBVIOUS
  <2>0. StreamInv /\ WinTyped /\ StreamInv'
    BY TypeInvStep DEF TypeInv
  <2>1. CASE ReadLine
    BY <2>0, <2>1, ReadLineLinks
  <2>2. CASE HandleLine
    BY <2>0, <2>2, GatherLinks, RunLinks, EndingLinks DEF HandleLine
  <2>3. CASE Panic \/ UNCHANGED vars
    BY <2>0, <2>3, QuietLinks DEF Panic, vars
  <2> QED
    BY <2>1, <2>2, <2>3 DEF Next
<1> QED
  BY <1>1, <1>2, <1>3, <1>4, <1>5, PTL DEF Spec

-----------------------------------------------------------------------------
(* VariableOnTime: however far the driver reads ahead, the rules of a window  *)
(* see the variable as the input set it before the first cohort of that       *)
(* window.                                                                    *)

-----------------------------------------------------------------------------
(* The chain of values along the windows that wait: each one must see what    *)
(* the one before it must see, changed by its own deltas.                     *)

\* What the i-th window of a list d starts from, when the first starts from b.
ValueBefore(d, u, b, i) == IF i = 1 THEN b ELSE u[d[i - 1]]

Settles(d, f, u, b, n) ==
  \A i \in 1 .. n : u[d[i]] = Applied(f[d[i]].variables, ValueBefore(d, u, b, i))

Values(d, u, b, n) == ValueBefore(d, u, b, n + 1)

\* Two lists whose first n windows are the same, with the same deltas and values.
Agree(d, e, f, g, u, v, n) ==
  \A i \in 1 .. n :
    /\ e[i] = d[i] /\ v[d[i]] = u[d[i]]
    /\ g[d[i]].variables = f[d[i]].variables

\* The first n values depend on the first n windows alone.
LEMMA SettlesKept ==
  ASSUME NEW d, NEW e, NEW n \in Nat, NEW b, NEW f, NEW g, NEW u, NEW v,
         Settles(d, f, u, b, n), Agree(d, e, f, g, u, v, n)
  PROVE  Settles(e, g, v, b, n) /\ Values(e, v, b, n) = Values(d, u, b, n)
<1>1. ASSUME NEW i \in 1 .. n + 1
      PROVE  ValueBefore(e, v, b, i) = ValueBefore(d, u, b, i)
  <2>1. CASE i = 1
    BY <2>1 DEF ValueBefore
  <2>2. CASE i # 1
    <3>1. i - 1 \in 1 .. n
      BY <2>2
    <3> QED
      BY <2>2, <3>1 DEF ValueBefore, Agree
  <2> QED
    BY <2>1, <2>2
<1>2. ASSUME NEW i \in 1 .. n
      PROVE  v[e[i]] = Applied(g[e[i]].variables, ValueBefore(e, v, b, i))
  <2>1. i \in 1 .. n + 1
    OBVIOUS
  <2>2. u[d[i]] = Applied(f[d[i]].variables, ValueBefore(d, u, b, i))
    BY DEF Settles
  <2> QED
    BY <1>1, <2>1, <2>2 DEF Agree
<1>3. n + 1 \in 1 .. n + 1
  OBVIOUS
<1> QED
  BY <1>1, <1>2, <1>3 DEF Settles, Values

\* One more window settled.
LEMMA SettlesOneMore ==
  ASSUME NEW e, NEW n \in Nat, NEW b, NEW g, NEW v, Settles(e, g, v, b, n),
         v[e[n + 1]] = Applied(g[e[n + 1]].variables, Values(e, v, b, n))
  PROVE  Settles(e, g, v, b, n + 1) /\ Values(e, v, b, n + 1) = v[e[n + 1]]
<1>1. ASSUME NEW i \in 1 .. n + 1
      PROVE  v[e[i]] = Applied(g[e[i]].variables, ValueBefore(e, v, b, i))
  <2>1. CASE i = n + 1
    BY <2>1 DEF Values
  <2>2. CASE i \in 1 .. n
    BY <2>2 DEF Settles
  <2> QED
    BY <2>1, <2>2
<1>2. (n + 1) + 1 # 1 /\ ((n + 1) + 1) - 1 = n + 1
  OBVIOUS
<1> QED
  BY <1>1, <1>2 DEF Settles, Values, ValueBefore

\* The first window taken off: the next one starts from what it must see.
LEMMA SettlesTail ==
  ASSUME NEW d \in Seq(Handle), d # <<>>, NEW n \in Nat, n # 0, n <= Len(d),
         NEW b, NEW f, NEW u, Settles(d, f, u, b, n)
  PROVE  /\ Settles(Tail(d), f, u, u[Head(d)], n - 1)
         /\ Values(Tail(d), u, u[Head(d)], n - 1) = Values(d, u, b, n)
         /\ u[Head(d)] = Applied(f[Head(d)].variables, b)
<1> DEFINE e == Tail(d)
<1>1. /\ Len(d) \in Nat \ {0} /\ Head(d) = d[1]
      /\ \A i \in 1 .. Len(d) - 1 : e[i] = d[i + 1]
  BY HeadTailProperties
<1> HIDE DEF e
<1>3. ASSUME NEW i \in 1 .. n
      PROVE  ValueBefore(e, u, u[d[1]], i) = ValueBefore(d, u, b, i + 1)
  <2>1. i + 1 # 1 /\ (i + 1) - 1 = i
    OBVIOUS
  <2>2. CASE i = 1
    BY <2>1, <2>2 DEF ValueBefore
  <2>3. CASE i # 1
    <3>1. i - 1 \in 1 .. Len(d) - 1 /\ (i - 1) + 1 = i
      BY <1>1, <2>3
    <3>2. e[i - 1] = d[i]
      BY <1>1, <3>1
    <3> QED
      BY <2>1, <2>3, <3>2 DEF ValueBefore
  <2> QED
    BY <2>2, <2>3
<1>4. ASSUME NEW i \in 1 .. n - 1
      PROVE  u[e[i]] = Applied(f[e[i]].variables, ValueBefore(e, u, u[d[1]], i))
  <2>1. i \in 1 .. n /\ i + 1 \in 1 .. n /\ i \in 1 .. Len(d) - 1
    BY <1>1
  <2>2. u[d[i + 1]] = Applied(f[d[i + 1]].variables, ValueBefore(d, u, b, i + 1))
    BY <2>1 DEF Settles
  <2> QED
    BY <1>1, <1>3, <2>1, <2>2
<1>5. Values(e, u, u[d[1]], n - 1) = Values(d, u, b, n)
  <2>1. n \in 1 .. n /\ (n - 1) + 1 = n
    OBVIOUS
  <2> QED
    BY <1>3, <2>1 DEF Values
<1>6. u[d[1]] = Applied(f[d[1]].variables, b)
  <2>1. 1 \in 1 .. n
    OBVIOUS
  <2> QED
    BY <2>1 DEF Settles, ValueBefore
<1> QED
  BY <1>1, <1>4, <1>5, <1>6 DEF Settles, e

\* A window put first that hands on the value it starts from.
LEMMA SettlesCons ==
  ASSUME NEW d \in Seq(Handle), NEW id \in Handle, NEW n \in Nat, n <= Len(d),
         NEW b, NEW f, NEW g, NEW u, NEW v, Settles(d, f, u, b, n),
         v[id] = b, b = Applied(g[id].variables, b),
         Agree(d, d, f, g, u, v, n)
  PROVE  /\ Settles(<<id>> \o d, g, v, b, n + 1)
         /\ Values(<<id>> \o d, v, b, n + 1) = Values(d, u, b, n)
<1> DEFINE e == <<id>> \o d
<1>1. <<id>> \in Seq(Handle) /\ Len(<<id>>) = 1 /\ <<id>>[1] = id
  OBVIOUS
<1>2. Len(d) \in Nat
      /\ \A i \in 1 .. 1 + Len(d) : e[i] = IF i <= 1 THEN <<id>>[i] ELSE d[i - 1]
  BY <1>1, ConcatProperties
<1> HIDE DEF e
<1>3. e[1] = id /\ \A i \in 2 .. 1 + Len(d) : e[i] = d[i - 1]
  BY <1>1, <1>2
<1>4. ASSUME NEW i \in 2 .. n + 2
      PROVE  ValueBefore(e, v, b, i) = ValueBefore(d, u, b, i - 1)
  <2>1. i # 1
    OBVIOUS
  <2>2. CASE i = 2
    BY <1>3, <2>1, <2>2 DEF ValueBefore
  <2>3. CASE i # 2
    <3>1. i - 1 \in 2 .. 1 + Len(d) /\ (i - 1) - 1 \in 1 .. n /\ i - 1 # 1
      BY <1>2, <2>3
    <3>2. e[i - 1] = d[(i - 1) - 1]
      BY <1>3, <3>1
    <3> QED
      BY <2>1, <3>1, <3>2 DEF ValueBefore, Agree
  <2> QED
    BY <2>2, <2>3
<1>5. ASSUME NEW i \in 1 .. n + 1
      PROVE  v[e[i]] = Applied(g[e[i]].variables, ValueBefore(e, v, b, i))
  <2>1. CASE i = 1
    BY <1>3, <2>1 DEF ValueBefore
  <2>2. CASE i # 1
    <3>1. i \in 2 .. 1 + Len(d) /\ i \in 2 .. n + 2 /\ i - 1 \in 1 .. n
      BY <1>2, <2>2
    <3>2. u[d[i - 1]] =
            Applied(f[d[i - 1]].variables, ValueBefore(d, u, b, i - 1))
      BY <3>1 DEF Settles
    <3> QED
      BY <1>3, <1>4, <3>1, <3>2 DEF Agree
  <2> QED
    BY <2>1, <2>2
<1>6. Values(e, v, b, n + 1) = Values(d, u, b, n)
  <2>1. (n + 1) + 1 \in 2 .. n + 2 /\ ((n + 1) + 1) - 1 = n + 1
    OBVIOUS
  <2> QED
    BY <1>4, <2>1 DEF Values
<1> QED
  BY <1>5, <1>6 DEF Settles, e

-----------------------------------------------------------------------------
(* The invariant.                                                             *)

\* A window was opened for a cohort that has not taken the pending variables.
Unadopted ==
  /\ c_swindow # NoWin /\ c_cohort = NoCohort
  /\ win[c_swindow].cohorts = <<>>

\* How many waiting windows know the value their rules must see.
Settled == IF Unadopted THEN Len(next) - 1 ELSE Len(next)

\* What the first waiting window starts from.
Base == IF pc = "run" THEN due[current] ELSE variable

\* Each waiting window follows from the one before it, and what the input set
\* from the last one and the deltas that are still pending.
Chain ==
  /\ Settles(next, win, due, Base, Settled)
  /\ streamvar = Applied(pending_var, Values(next, due, Base, Settled))

\* The steps at which a cohort is in hand, and at which no window waits.
HoldInv ==
  /\ pc = "read" /\ c_swindow = NoWin => next = <<>>
  /\ pc = "flushprint" => next = <<>>
  /\ pc \in {"lookback", "soft", "hard"} /\ c_swindow # NoWin => c_cohort # NoCohort
  /\ pc \in {"drain", "newcohort", "run", "retire", "rules"} => c_cohort = NoCohort

\* A variable is never both set and removed.
FlowInv == HoldInv /\ pending_var \in {{}, {"set"}, {"rem"}}

ValueInv ==
  /\ Unadopted => win[c_swindow].variables = {}
  /\ pc = "run" => due[current] = Applied(win[current].variables, variable)
  /\ pc \in {"retire", "rules"} => variable = due[current]
  /\ Chain

\* What a line that is read leaves true of the cohort in hand.
LEMMA ReadLineHold ==
  ASSUME PlainStream, TypeInv, HandleInv, HoldInv, ReadLine
  PROVE  HoldInv'
<1>1. CASE CohortLine
  BY <1>1 DEF CohortLine, Goto, stream, Variables, HandleInv, HoldInv
<1>2. CASE DepBreak
  BY <1>2 DEF DepBreak, NewSWindow, HoldInv, TypeInv, StreamInv, NoWin
<1>3. CASE TextLine \/ DelimiterLine
  BY <1>3 DEF TextLine, DelimiterLine, NextItem, AttachText, Variables, HoldInv,
              PlainStream
<1>4. CASE SetvarLine \/ SetvarListLine \/ RemvarLine
  BY <1>4 DEF SetvarLine, SetvarListLine, RemvarLine, stream, HoldInv
<1>5. CASE FlushLine
  BY <1>5 DEF FlushLine, NextItem, Goto, Variables, HoldInv
<1>6. CASE ExitLine \/ EndOfFile
  BY <1>6 DEF ExitLine, EndOfFile, Goto, Variables, HoldInv
<1> QED
  BY <1>1, <1>2, <1>3, <1>4, <1>5, <1>6 DEF ReadLine

\* What the other steps leave true of it.
LEMMA HandleLineHold ==
  ASSUME PlainStream, TypeInv, HandleInv, HoldInv, HandleLine
  PROVE  HoldInv'
<1>1. CASE BinaryWindow
  BY <1>1 DEF BinaryWindow, HandleInv
<1>2. CASE SoftLookback
  <2>1. window_counter + 1 # NoWin
    BY DEF TypeInv, StreamInv, NoWin
  <2>2. c_swindow' # NoWin => c_swindow # NoWin
    BY <1>2, <2>1 DEF SoftLookback, LookbackDue
  <2> QED
    BY <1>2, <2>2 DEF SoftLookback, Goto, Variables, HoldInv
<1>3. CASE SoftBreak \/ HardBreak
  BY <1>3 DEF SoftBreak, HardBreak, CloseWindow, Goto, Variables, stream, HoldInv
<1>4. CASE OpenWindow \/ AttachCohort
  BY <1>4 DEF OpenWindow, AttachCohort, Goto, Variables, HoldInv
<1>5. CASE DrainOne
  BY <1>5 DEF DrainOne, Goto, Variables, HoldInv
<1>6. CASE NewCohort
  <2>1. c_swindow # NoWin
    BY <1>6 DEF NewCohort, Live, TypeInv, StreamInv
  <2> QED
    BY <1>6, <2>1 DEF NewCohort, Goto, HoldInv
<1>7. CASE RunWindow \/ RetireWindow \/ StartPass \/ DelimitRule
  BY <1>7 DEF RunWindow, RetireWindow, StartPass, DelimitRule, Goto, Variables,
              stream, HoldInv
<1>8. CASE EndRun
  BY <1>8 DEF EndRun, Goto, Variables, stream, HoldInv, TypeInv, DriverTyped
<1>9. CASE DrainAll("flush", "flushprint") \/ DrainAll("eofdrain", "eofprint")
  BY <1>9 DEF DrainAll, ShuffleDown, Goto, Variables, HandleInv, Draining, HoldInv
<1>10. CASE PrintFirst("flushprint") \/ PrintFirst("eofprint")
  BY <1>10 DEF PrintFirst, FreeFirst, Variables, HoldInv
<1>11. CASE EndFlush
  BY <1>11 DEF EndFlush, Goto, stream, HoldInv
<1>12. CASE FinishInput \/ LastVariables \/ EndOutput
  BY <1>12 DEF FinishInput, LastVariables, EndOutput, Goto, Variables, HoldInv,
               PlainStream
<1> QED
  BY <1>1, <1>2, <1>3, <1>4, <1>5, <1>6, <1>7, <1>8, <1>9, <1>10, <1>11, <1>12
  DEF HandleLine

\* Every step keeps what is known of the cohort in hand.
LEMMA HoldInvStep ==
  ASSUME PlainStream, TypeInv, HandleInv, HoldInv, [Next]_vars
  PROVE  HoldInv'
<1>1. CASE ReadLine
  BY <1>1, ReadLineHold
<1>2. CASE HandleLine
  BY <1>2, HandleLineHold
<1>3. CASE Panic
  BY <1>3, NoneStale DEF TypeInv
<1>4. CASE UNCHANGED vars
  BY <1>4 DEF vars, driver, stream, HoldInv
<1> QED
  BY <1>1, <1>2, <1>3, <1>4 DEF Next

\* No step leaves a variable both set and removed.
LEMMA PendingStep ==
  ASSUME PlainStream, pending_var \in {{}, {"set"}, {"rem"}}, [Next]_vars
  PROVE  pending_var' \in {{}, {"set"}, {"rem"}}
<1>1. CASE ReadLine
  BY <1>1 DEF ReadLine, CohortLine, DepBreak, TextLine, DelimiterLine, SetvarLine, SetvarListLine,
              RemvarLine, FlushLine, ExitLine, EndOfFile, Variables
<1>2. CASE HandleLine
  BY <1>2 DEF HandleLine, BinaryWindow, SoftLookback, SoftBreak, HardBreak, OpenWindow, AttachCohort,
              DrainOne, NewCohort, RunWindow, RetireWindow, StartPass, DelimitRule, EndRun, DrainAll,
              PrintFirst, EndFlush, FinishInput, LastVariables, EndOutput, Variables
<1>3. CASE Panic \/ UNCHANGED vars
  BY <1>3 DEF Panic, vars, driver, Variables
<1> QED
  BY <1>1, <1>2, <1>3 DEF Next

\* While lines are read, no window waits for the pending variables.
LEMMA ReadAdopted ==
  ASSUME HandleInv, pc \in {"read", "eof"} \/ Draining
  PROVE  ~Unadopted
  BY DEF HandleInv, Unadopted

\* How many windows can be settled.
LEMMA SettledRange ==
  ASSUME StreamInv, HandleInv
  PROVE  Settled \in Nat /\ Settled <= Len(next)
<1>1. Len(next) \in Nat /\ (next # <<>> => Len(next) # 0)
  BY EmptySeq DEF StreamInv
<1> QED
  BY <1>1 DEF Settled, Unadopted, HandleInv

\* A step that leaves the waiting windows, and what follows from them, alone.
LEMMA ChainKept ==
  ASSUME StreamInv, HandleInv, Chain, UNCHANGED <<next, streamvar, pending_var>>,
         Base' = Base, Settled' = Settled,
         \A x \in ToSet(next) :
           due'[x] = due[x] /\ win'[x].variables = win[x].variables
  PROVE  Chain'
<1>1. Settled \in Nat /\ Settled <= Len(next) /\ next \in Seq(Handle)
  BY SettledRange DEF StreamInv
<1>2. \A i \in 1 .. Settled : next[i] \in ToSet(next)
  BY <1>1, LenProperties DEF ToSet
<1>3. /\ Settles(next, win', due', Base, Settled)
      /\ Values(next, due', Base, Settled) = Values(next, due, Base, Settled)
  <2>1. Settles(next, win, due, Base, Settled)
    BY DEF Chain
  <2>2. Agree(next, next, win, win', due, due', Settled)
    BY <1>2 DEF Agree
  <2> HIDE DEF Base, Settled
  <2> QED
    BY <1>1, <2>1, <2>2, SettlesKept
<1> QED
  BY <1>3 DEF Chain

\* A step between two lines, or within one, that only changes what windows
\* hold besides their deltas.
LEMMA ReadingStep ==
  ASSUME StreamInv, HandleInv, ValueInv, ~Unadopted, ~Unadopted',
         pc # "run", pc' \notin {"run", "retire", "rules"},
         UNCHANGED <<next, variable, streamvar, pending_var>>,
         \A x \in ToSet(next) :
           due'[x] = due[x] /\ win'[x].variables = win[x].variables
  PROVE  ValueInv'
<1>1. Base' = Base
  BY DEF Base
<1>2. Settled' = Settled
  BY DEF Settled
<1>3. Chain'
  BY <1>1, <1>2, ChainKept DEF ValueInv
<1> QED
  BY <1>3 DEF ValueInv

\* A step that changes none of what the chain is about.
LEMMA SameStep ==
  ASSUME StreamInv, HandleInv, ValueInv,
         UNCHANGED <<stream, c_swindow, c_cohort, Variables, History>>,
         pc' = "run" <=> pc = "run",
         pc' \in {"retire", "rules"} => pc \in {"retire", "rules"}
  PROVE  ValueInv'
<1>1. UNCHANGED <<current, next, win, c_swindow, c_cohort, pending_var, variable,
                  streamvar, due>>
  BY DEF stream, Variables, History
<1>2. Base' = Base
  BY <1>1 DEF Base
<1>3. Unadopted' = Unadopted
  BY <1>1 DEF Unadopted
<1>4. Settled' = Settled
  BY <1>1, <1>3 DEF Settled
<1>5. Chain'
  BY <1>1, <1>2, <1>4, ChainKept DEF ValueInv
<1> QED
  BY <1>1, <1>3, <1>5 DEF ValueInv

-----------------------------------------------------------------------------
(* What the operations on the stream leave of the windows that wait.          *)

\* A waiting window is live, and has its number.
LEMMA WaitingLive ==
  ASSUME TypeInv, NEW x \in ToSet(next)
  PROVE  /\ x \in DOMAIN win /\ x \in Handle /\ x \in Handles /\ x # current
         /\ x \notin ToSet(previous) /\ x # window_counter + 1
         /\ win[x] \in Window
<1>1. x \in Handle /\ x \in DOMAIN win /\ x # current /\ x \notin ToSet(previous)
  BY HoldsHandles DEF TypeInv, StreamInv, Handle
<1>2. x \in Handles /\ x # window_counter + 1
  BY <1>1 DEF TypeInv, StreamInv, Handles, Handle, NoWin
<1> QED
  BY <1>1, <1>2 DEF TypeInv, WinTyped

\* What due says of the windows there are, when one is added.
LEMMA DueAppended ==
  ASSUME TypeInv, NEW v \in BOOLEAN, due' = Append(due, v)
  PROVE  /\ \A x \in Handles : due'[x] = due[x]
         /\ due'[window_counter + 1] = v
<1>1. window_counter \in Nat /\ due \in Seq(BOOLEAN) /\ Len(due) = window_counter
  BY DEF TypeInv, StreamInv, DriverTyped, Handles
<1> QED
  BY <1>1, AppendProperties DEF Handles

\* What windows hold besides their deltas may change.
SameDeltas(f) ==
  /\ DOMAIN f = DOMAIN win
  /\ \A x \in DOMAIN win :
       "variables" \in DOMAIN f[x] /\ f[x].variables = win[x].variables

LEMMA OwnDeltas ==
  ASSUME WinTyped
  PROVE  SameDeltas(win)
<1>1. \A x \in DOMAIN win : win[x] \in Window
  BY DEF WinTyped
<1> QED
  BY <1>1 DEF SameDeltas, Window

\* Putting a cohort into a window changes no deltas.
LEMMA AppendedDeltas ==
  ASSUME NEW f, SameDeltas(f), NEW w
  PROVE  SameDeltas(Appended(f, w))
<1> DEFINE g == Appended(f, w)
           held == Append(f[w].cohorts, c_cohort)
<1>1. g = [f EXCEPT ![w] = [f[w] EXCEPT !.cohorts = held]]
  BY DEF Appended
<1> HIDE DEF g, held
<1>2. DOMAIN g = DOMAIN f
  BY <1>1
<1>3. ASSUME NEW x \in DOMAIN f
      PROVE  g[x] = f[x] \/ g[x] = [f[x] EXCEPT !.cohorts = held]
  BY <1>1
<1>4. ASSUME NEW x \in DOMAIN f
      PROVE  "variables" \in DOMAIN g[x] /\ g[x].variables = f[x].variables
  <2>1. "variables" \in DOMAIN f[x]
    BY DEF SameDeltas
  <2> QED
    BY <1>3, <2>1
<1>5. SameDeltas(g)
  BY <1>2, <1>4 DEF SameDeltas
<1> QED
  BY <1>5 DEF g

\* Nor does a line of text.
LEMMA AttachTextDeltas ==
  ASSUME WinTyped, AttachText
  PROVE  SameDeltas(win')
<1> DEFINE post == Append(win[l_swindow].text_post, received')
           lead == Append(win[l_swindow].text, received')
<1>1. \/ win' = win
      \/ win' = [win EXCEPT ![l_swindow] = [win[l_swindow] EXCEPT !.text_post = post]]
      \/ win' = [win EXCEPT ![l_swindow] = [win[l_swindow] EXCEPT !.text = lead]]
  BY DEF AttachText
<1> HIDE DEF post, lead
<1>2. SameDeltas(win)
  BY OwnDeltas
<1>3. DOMAIN win' = DOMAIN win
  BY <1>1
<1>4. ASSUME NEW x \in DOMAIN win
      PROVE  "variables" \in DOMAIN win'[x] /\ win'[x].variables = win[x].variables
  <2>1. \/ win'[x] = win[x]
        \/ win'[x] = [win[x] EXCEPT !.text_post = post]
        \/ win'[x] = [win[x] EXCEPT !.text = lead]
    BY <1>1
  <2>2. "variables" \in DOMAIN win[x]
    BY <1>2 DEF SameDeltas
  <2> QED
    BY <2>1, <2>2
<1> QED
  BY <1>3, <1>4 DEF SameDeltas

\* Nor do a FLUSH that marks the last window and the cohort that ends it.
LEMMA FlushDeltas ==
  ASSUME WinTyped, NEW w, NEW n
  PROVE  SameDeltas([win EXCEPT ![w].flush_after = n])
<1> DEFINE g == [win EXCEPT ![w] = [win[w] EXCEPT !.flush_after = n]]
<1>1. DOMAIN g = DOMAIN win
  OBVIOUS
<1>2. ASSUME NEW x \in DOMAIN win
      PROVE  g[x] = win[x] \/ g[x] = [win[x] EXCEPT !.flush_after = n]
  OBVIOUS
<1> HIDE DEF g
<1>3. ASSUME NEW x \in DOMAIN win
      PROVE  "variables" \in DOMAIN g[x] /\ g[x].variables = win[x].variables
  <2>1. "variables" \in DOMAIN win[x]
    BY OwnDeltas DEF SameDeltas
  <2> QED
    BY <1>2, <2>1
<1>4. SameDeltas(g)
  BY <1>1, <1>3 DEF SameDeltas
<1> QED
  BY <1>4 DEF g

LEMMA FinishCohortDeltas ==
  ASSUME NEW f, SameDeltas(f), FinishCohort(f)
  PROVE  SameDeltas(win')
<1>1. SameDeltas(Appended(f, c_swindow))
  BY AppendedDeltas
<1> QED
  BY <1>1 DEF FinishCohort

\* Appending a window leaves the others their deltas.
LEMMA AllocAppendDeltas ==
  ASSUME TypeInv, NEW rec \in Window, AllocAppend(rec)
  PROVE  /\ \A x \in ToSet(next) : win'[x].variables = win[x].variables
         /\ win'[window_counter + 1].variables = rec.variables
         /\ win'[window_counter + 1].cohorts = rec.cohorts
<1> DEFINE id == window_counter + 1
           prv == IF next = <<>> THEN NoWin ELSE Last(next)
           linked == IF next = <<>> THEN win
                     ELSE [win EXCEPT ![prv] = [win[prv] EXCEPT !.nxt = id]]
           new == [rec EXCEPT !.prv = prv]
<1>1. win' = Extended(linked, id, new)
  BY DEF AllocAppend
<1>2. DOMAIN linked = DOMAIN win
  OBVIOUS
<1>3. ASSUME NEW x \in DOMAIN win
      PROVE  linked[x] = win[x] \/ linked[x] = [win[x] EXCEPT !.nxt = id]
  OBVIOUS
<1>4. new.variables = rec.variables /\ new.cohorts = rec.cohorts
  BY DEF Window
<1> HIDE DEF prv, linked, new
<1>5. win'[id] = new
  BY <1>1 DEF Extended
<1>6. ASSUME NEW x \in ToSet(next)
      PROVE  win'[x].variables = win[x].variables
  <2>1. x \in DOMAIN win /\ x # id /\ win[x] \in Window
    BY WaitingLive
  <2>2. win'[x] = linked[x]
    BY <1>1, <1>2, <2>1 DEF Extended
  <2> QED
    BY <1>3, <2>1, <2>2 DEF Window
<1> QED
  BY <1>4, <1>5, <1>6

\* shuffle_windows_down and free_swindow leave waiting windows as they are, but
\* for their links.
LEMMA ShuffleDownWaiting ==
  ASSUME TypeInv, NEW snapshot, ShuffleDown(snapshot), NEW x \in ToSet(next)
  PROVE  win'[x] = win[x]
<1>1. x \in DOMAIN win /\ x # current
  BY WaitingLive
<1> QED
  BY <1>1 DEF ShuffleDown

LEMMA FreeFirstWaiting ==
  ASSUME TypeInv, previous # <<>>, FreeFirst,
         NEW x \in DOMAIN win, x \notin ToSet(previous)
  PROVE  win'[x].variables = win[x].variables /\ win'[x].cohorts = win[x].cohorts
<1> DEFINE w == Head(previous)
           p == win[w].prv
           n == win[w].nxt
           others == [y \in DOMAIN win \ {w} |-> win[y]]
<1>1. win[x] \in Window
  BY DEF TypeInv, WinTyped
<1>2. w \in ToSet(previous)
  BY TailHolds DEF TypeInv, StreamInv
<1>3. x \in DOMAIN others /\ others[x] = win[x]
  BY <1>2
<1>4. win' = [y \in DOMAIN others |->
                IF y = n THEN [others[y] EXCEPT !.prv = p]
                ELSE IF y = p THEN [others[y] EXCEPT !.nxt = n]
                ELSE others[y]]
  BY DEF FreeFirst
<1> HIDE DEF w, p, n, others
<1>5. \/ win'[x] = win[x]
      \/ win'[x] = [win[x] EXCEPT !.prv = p]
      \/ win'[x] = [win[x] EXCEPT !.nxt = n]
  BY <1>3, <1>4
<1> QED
  BY <1>1, <1>5 DEF Window

\* delimit_at on the running window gives the tail no deltas.
LEMMA DelimitCurrentDeltas ==
  ASSUME TypeInv, NEW k \in Nat, DelimitCurrent(k)
  PROVE  /\ \A x \in ToSet(next) : /\ win'[x].variables = win[x].variables
                                   /\ win'[x].cohorts = win[x].cohorts
         /\ win'[window_counter + 1].variables = {}
<1> DEFINE id == window_counter + 1
           front == IF next = <<>> THEN NoWin ELSE Head(next)
           cut == [win EXCEPT ![current] = [Truncated(current, k) EXCEPT !.nxt = id]]
           linked == IF next = <<>> THEN cut
                     ELSE [cut EXCEPT ![front] = [cut[front] EXCEPT !.prv = id]]
           new == [Tailing(current, k) EXCEPT !.prv = current, !.nxt = front]
<1>1. win' = Extended(linked, id, new)
  BY DEF DelimitCurrent
<1>2. DOMAIN cut = DOMAIN win /\ \A x \in DOMAIN win : x # current => cut[x] = win[x]
  OBVIOUS
<1> HIDE DEF cut
<1>3. /\ DOMAIN linked = DOMAIN cut
      /\ \A x \in DOMAIN cut :
           linked[x] = cut[x] \/ linked[x] = [cut[x] EXCEPT !.prv = id]
  OBVIOUS
<1>4. new.variables = {}
  BY DEF Tailing, FreshWindow
<1> HIDE DEF front, linked, new
<1>5. win'[id] = new
  BY <1>1 DEF Extended
<1>6. ASSUME NEW x \in ToSet(next)
      PROVE  win'[x].variables = win[x].variables /\ win'[x].cohorts = win[x].cohorts
  <2>1. x \in DOMAIN win /\ x # id /\ x # current /\ win[x] \in Window
    BY WaitingLive
  <2>2. win'[x] = linked[x]
    BY <1>1, <1>2, <1>3, <2>1 DEF Extended
  <2>3. win'[x] = win[x] \/ win'[x] = [win[x] EXCEPT !.prv = id]
    BY <1>2, <1>3, <2>1, <2>2
  <2> QED
    BY <2>1, <2>3 DEF Window
<1> QED
  BY <1>4, <1>5, <1>6

\* Neither does delimit_at on the window being filled.
LEMMA DelimitNextDeltas ==
  ASSUME TypeInv, NEW w \in DOMAIN win, NEW k \in Nat, DelimitNext(w, k)
  PROVE  /\ \A x \in ToSet(next) : win'[x].variables = win[x].variables
         /\ win'[window_counter + 1].variables = {}
<1> DEFINE id == window_counter + 1
           cut == [win EXCEPT ![w] = Truncated(w, k)]
           f == Extended(cut, id, Tailing(w, k))
<1>1. PICK order : win' = Relinked(f, order)
  BY DEF DelimitNext
<1>2. f[id].variables = {} /\ {"prv", "nxt", "variables"} \subseteq DOMAIN f[id]
  BY DEF Extended, Tailing, FreshWindow
<1>3. ASSUME NEW x \in ToSet(next)
      PROVE  /\ f[x].variables = win[x].variables
             /\ {"prv", "nxt", "variables"} \subseteq DOMAIN f[x]
             /\ x \in DOMAIN f
  <2>1. x \in DOMAIN win /\ x # id /\ win[x] \in Window
    BY WaitingLive
  <2>2. f[x] = win[x] \/ f[x] = Truncated(x, k)
    BY <2>1 DEF Extended
  <2>3. /\ Truncated(x, k).variables = win[x].variables
        /\ DOMAIN Truncated(x, k) = DOMAIN win[x]
    BY <2>1 DEF Truncated, Window
  <2>4. {"prv", "nxt", "variables"} \subseteq DOMAIN win[x]
    BY <2>1 DEF Window
  <2> QED
    BY <2>1, <2>2, <2>3, <2>4 DEF Extended
<1>4. id \in DOMAIN f
  BY DEF Extended
<1> HIDE DEF f
<1>5. ASSUME NEW x \in DOMAIN f, {"prv", "nxt", "variables"} \subseteq DOMAIN f[x]
      PROVE  Relinked(f, order)[x].variables = f[x].variables
  <2>1. CASE \E i \in DOMAIN order : order[i] = x
    <3>1. PICK p, n : Relinked(f, order)[x] = [f[x] EXCEPT !.prv = p, !.nxt = n]
      BY <2>1 DEF Relinked
    <3> QED
      BY <1>5, <3>1
  <2>2. CASE ~ \E i \in DOMAIN order : order[i] = x
    BY <2>2 DEF Relinked
  <2> QED
    BY <2>1, <2>2
<1> QED
  BY <1>1, <1>2, <1>3, <1>4, <1>5

-----------------------------------------------------------------------------
(* What each step does to the values.                                         *)

\* Deltas that are empty, and those one SETVAR or one REMVAR leaves.
LEMMA AppliedValues ==
  ASSUME NEW v \in BOOLEAN
  PROVE  /\ Applied({}, v) = v
         /\ Applied({"set"}, v) = TRUE
         /\ Applied({"rem"}, v) = FALSE
  BY DEF Applied

\* The window being filled is one that waits.
LEMMA FilledWaits ==
  ASSUME StreamInv, HandleInv, c_swindow # NoWin
  PROVE  /\ c_swindow \in ToSet(next) /\ next # <<>>
         /\ c_swindow = next[Len(next)] /\ Len(next) \in Nat \ {0}
<1>1. next # <<>> /\ c_swindow = Last(next) /\ next \in Seq(Handle)
  BY DEF HandleInv, StreamInv
<1>2. Len(next) \in Nat \ {0} /\ Len(next) \in DOMAIN next
  BY <1>1, EmptySeq
<1> QED
  BY <1>1, <1>2 DEF Last, ToSet

\* The values are Booleans.
LEMMA ValuesTyped ==
  ASSUME TypeInv, HandleInv, pc # "run"
  PROVE  Values(next, due, Base, Settled) \in BOOLEAN
<1>1. Settled \in Nat /\ Settled <= Len(next) /\ next \in Seq(Handle)
  BY SettledRange DEF TypeInv, StreamInv
<1>2. variable \in BOOLEAN /\ due \in [Handles -> BOOLEAN]
  BY DEF TypeInv, DriverTyped
<1>3. CASE Settled = 0
  BY <1>2, <1>3 DEF Values, ValueBefore, Base
<1>4. CASE Settled # 0
  <2>1. Settled \in DOMAIN next
    BY <1>1, <1>4
  <2>2. next[Settled] \in ToSet(next)
    BY <2>1 DEF ToSet
  <2>3. next[Settled] \in Handles
    BY <2>2, WaitingLive
  <2>4. Settled + 1 # 1 /\ (Settled + 1) - 1 = Settled
    BY <1>1, <1>4
  <2> HIDE DEF Settled, Base
  <2> QED
    BY <1>2, <2>3, <2>4 DEF Values, ValueBefore
<1> QED
  BY <1>3, <1>4

\* A window put last, while every other one is settled.
LEMMA ChainGrows ==
  ASSUME TypeInv, HandleInv, Chain, ~Unadopted, Base' = Base,
         next' = Append(next, window_counter + 1),
         NEW v \in BOOLEAN, due' = Append(due, v),
         \A x \in ToSet(next) : win'[x].variables = win[x].variables
  PROVE  /\ Settles(next', win', due', Base', Len(next))
         /\ Values(next', due', Base', Len(next)) = Values(next, due, Base, Len(next))
         /\ streamvar = Applied(pending_var, Values(next, due, Base, Len(next)))
         /\ Len(next) \in Nat /\ Len(next') = Len(next) + 1
         /\ next'[Len(next) + 1] = window_counter + 1
         /\ due'[window_counter + 1] = v
<1>1. next \in Seq(Handle) /\ window_counter + 1 \in Handle
  BY FreshHandle DEF TypeInv, StreamInv
<1>2. /\ Len(next) \in Nat /\ Len(next') = Len(next) + 1
      /\ next'[Len(next) + 1] = window_counter + 1
      /\ \A i \in 1 .. Len(next) : next'[i] = next[i]
  BY <1>1, AppendProperties, LenProperties
<1>3. \A i \in 1 .. Len(next) : next[i] \in ToSet(next)
  BY <1>1, LenProperties DEF ToSet
<1>4. \A x \in ToSet(next) : due'[x] = due[x]
  BY DueAppended, WaitingLive
<1>5. due'[window_counter + 1] = v
  BY DueAppended
<1>6. Settled = Len(next)
  BY DEF Settled
<1>7. /\ Settles(next, win, due, Base, Len(next))
      /\ streamvar = Applied(pending_var, Values(next, due, Base, Len(next)))
  BY <1>6 DEF Chain
<1>8. /\ Settles(next', win', due', Base, Len(next))
      /\ Values(next', due', Base, Len(next)) = Values(next, due, Base, Len(next))
  <2>1. Agree(next, next', win, win', due, due', Len(next))
    BY <1>2, <1>3, <1>4 DEF Agree
  <2> HIDE DEF Base
  <2> QED
    BY <1>2, <1>7, <2>1, SettlesKept
<1> QED
  BY <1>2, <1>5, <1>7, <1>8

\* A window put last that is settled too.
LEMMA ChainSettles ==
  ASSUME TypeInv, HandleInv, Chain, ~Unadopted, Base' = Base, ~Unadopted',
         next' = Append(next, window_counter + 1),
         NEW v \in BOOLEAN, due' = Append(due, v),
         \A x \in ToSet(next) : win'[x].variables = win[x].variables,
         v = Applied(win'[window_counter + 1].variables,
                     Values(next, due, Base, Len(next))),
         streamvar' = Applied(pending_var', v)
  PROVE  Chain'
<1>1. /\ Settles(next', win', due', Base', Len(next))
      /\ Values(next', due', Base', Len(next)) = Values(next, due, Base, Len(next))
      /\ Len(next) \in Nat /\ Len(next') = Len(next) + 1
      /\ next'[Len(next) + 1] = window_counter + 1
      /\ due'[window_counter + 1] = v
  BY ChainGrows
<1>2. Settled' = Len(next) + 1
  BY <1>1 DEF Settled
<1>3. /\ Settles(next', win', due', Base', Len(next) + 1)
      /\ Values(next', due', Base', Len(next) + 1) = v
  <2> DEFINE e == next'
             g == win'
             u == due'
             b == Base'
             n == Len(next)
  <2>1. n \in Nat /\ Settles(e, g, u, b, n)
    BY <1>1
  <2>2. u[e[n + 1]] = v /\ v = Applied(g[e[n + 1]].variables, Values(e, u, b, n))
    BY <1>1
  <2> HIDE DEF e, g, u, b, n
  <2>3. Settles(e, g, u, b, n + 1) /\ Values(e, u, b, n + 1) = v
    BY <2>1, <2>2, SettlesOneMore
  <2> QED
    BY <2>3 DEF e, g, u, b, n
<1> QED
  BY <1>2, <1>3 DEF Chain

\* A --dep-delimit break opens a window that takes the pending variables.
LEMMA DepBreakValues ==
  ASSUME TypeInv, HandleInv, FlowInv, ValueInv, HandleInv', DepBreak
  PROVE  ValueInv'
<1>1. /\ pc = "read" /\ pc' = "read" /\ c_cohort # NoCohort /\ c_cohort' # NoCohort
      /\ UNCHANGED <<variable, streamvar>> /\ pending_var' = {}
      /\ due' = Append(due, streamvar)
  BY DEF DepBreak
<1>2. ~Unadopted /\ ~Unadopted' /\ Base' = Base
  BY <1>1 DEF Unadopted, Base
<1>3. [FreshWindow EXCEPT !.variables = pending_var] \in Window
  BY FreshTyped DEF TypeInv, StreamInv, DriverTyped
<1>4. [FreshWindow EXCEPT !.variables = pending_var].variables = pending_var
  BY DEF FreshWindow
<1>5. /\ \A x \in ToSet(next) : win'[x].variables = win[x].variables
      /\ win'[window_counter + 1].variables = pending_var
  BY <1>3, <1>4, AllocAppendDeltas DEF DepBreak
<1>6. next' = Append(next, window_counter + 1)
  BY DEF DepBreak, AllocAppend
<1>7. streamvar \in BOOLEAN
  BY DEF TypeInv, DriverTyped
<1>8. streamvar = Applied(pending_var, Values(next, due, Base, Len(next)))
  BY <1>2 DEF ValueInv, Chain, Settled
<1>9. Chain'
  <2>1. streamvar' = Applied(pending_var', streamvar)
    BY <1>1, <1>7, AppliedValues
  <2>2. Chain
    BY DEF ValueInv
  <2> QED
    BY <1>1, <1>2, <1>5, <1>6, <1>7, <1>8, <2>1, <2>2, ChainSettles
<1> QED
  BY <1>1, <1>2, <1>9 DEF ValueInv

\* A SETVAR or REMVAR line settles what the input says, whatever came before.
LEMMA SetvarValues ==
  ASSUME PlainStream, TypeInv, HandleInv, FlowInv, ValueInv,
         SetvarLine \/ SetvarListLine \/ RemvarLine
  PROVE  ValueInv'
<1>1. /\ pc = "read" /\ pc' = "read"
      /\ UNCHANGED <<current, next, win, c_swindow, c_cohort, due>>
      /\ c_swindow # NoWin => variable' = variable
      /\ variable' \in BOOLEAN
      /\ \/ pending_var' = {"set"} /\ streamvar' = TRUE
         \/ pending_var' = {"rem"} /\ streamvar' = FALSE
  BY DEF SetvarLine, SetvarListLine, RemvarLine, stream, PlainStream, TypeInv,
         DriverTyped
<1>2. ~Unadopted /\ ~Unadopted'
  <2>1. ~Unadopted
    BY <1>1, ReadAdopted
  <2> QED
    BY <1>1, <2>1 DEF Unadopted
<1>3. Settled = Len(next) /\ Settled' = Len(next) /\ Base = variable /\ Base' = variable'
  BY <1>1, <1>2 DEF Settled, Base
<1>4. next \in Seq(Handle) /\ Len(next) \in Nat
  BY DEF TypeInv, StreamInv
<1>5. Settles(next', win', due', Base', Settled')
  <2>1. CASE c_swindow # NoWin
    BY <1>1, <1>3, <2>1 DEF ValueInv, Chain
  <2>2. CASE c_swindow = NoWin
    <3>1. Len(next) = 0
      BY <1>1, <2>2, EmptySeq DEF FlowInv, HoldInv
    <3> QED
      BY <1>1, <1>3, <3>1 DEF Settles
  <2> QED
    BY <2>1, <2>2
<1>6. Values(next', due', Base', Settled') \in BOOLEAN
  <2>1. CASE c_swindow # NoWin
    BY <1>1, <1>3, <2>1, ValuesTyped
  <2>2. CASE c_swindow = NoWin
    <3>1. Len(next) = 0
      BY <1>1, <2>2, EmptySeq DEF FlowInv, HoldInv
    <3> QED
      BY <1>1, <1>3, <3>1 DEF Values, ValueBefore
  <2> QED
    BY <2>1, <2>2
<1>7. Chain'
  <2>1. streamvar' = Applied(pending_var', Values(next', due', Base', Settled'))
    BY <1>1, <1>6, AppliedValues
  <2> QED
    BY <1>5, <2>1 DEF Chain
<1> QED
  BY <1>1, <1>2, <1>7 DEF ValueInv

\* What a line that is read does to the values.
LEMMA ReadLineValues ==
  ASSUME PlainStream, TypeInv, HandleInv, FlowInv, ValueInv, HandleInv', ReadLine
  PROVE  ValueInv'
<1>0. StreamInv /\ WinTyped
  BY DEF TypeInv
<1>1. CASE CohortLine \/ ExitLine \/ EndOfFile
  BY <1>0, <1>1, SameStep DEF CohortLine, ExitLine, EndOfFile, Goto
<1>2. CASE DepBreak
  BY <1>2, DepBreakValues
<1>3. CASE SetvarLine \/ SetvarListLine \/ RemvarLine
  BY <1>3, SetvarValues
<1>4. CASE TextLine \/ DelimiterLine \/ FlushLine
  <2>1. /\ pc = "read" /\ pc' \in {"read", "flush"}
        /\ UNCHANGED <<next, variable, streamvar, pending_var, due>>
    BY <1>4 DEF TextLine, DelimiterLine, FlushLine, NextItem, AttachText, FinishCohort,
                Goto, Variables, History, PlainStream
  <2>2. SameDeltas(win')
    <3>1. CASE FlushLine
      <4>1. \A w : SameDeltas([win EXCEPT ![w].flush_after = received'])
        BY <1>0, FlushDeltas
      <4>2. SameDeltas(win)
        BY <1>0, OwnDeltas
      <4>3. PICK f : SameDeltas(f) /\ FinishCohort(f)
        BY <3>1, <4>1, <4>2 DEF FlushLine
      <4> QED
        BY <4>3, FinishCohortDeltas
    <3>2. CASE TextLine \/ DelimiterLine
      <4>1. AttachText
        BY <3>2 DEF TextLine, DelimiterLine, NextItem, PlainStream
      <4> QED
        BY <1>0, <4>1, AttachTextDeltas
    <3> QED
      BY <1>4, <3>1, <3>2
  <2>3. ~Unadopted
    BY <2>1, ReadAdopted
  <2>4. ~Unadopted'
    <3>1. (HandleInv /\ (pc \in {"read", "eof"} \/ Draining) => ~Unadopted)'
      BY ReadAdopted, PTL
    <3>2. (pc \in {"read", "eof"} \/ Draining)'
      BY <2>1 DEF Draining
    <3> QED
      BY <3>1, <3>2
  <2>5. \A x \in ToSet(next) :
          due'[x] = due[x] /\ win'[x].variables = win[x].variables
    BY <2>1, <2>2, WaitingLive DEF SameDeltas
  <2> QED
    BY <1>0, <2>1, <2>3, <2>4, <2>5, ReadingStep
<1> QED
  BY <1>1, <1>2, <1>3, <1>4 DEF ReadLine

\* Putting the read cohort into its window leaves that window with a cohort.
LEMMA AppendedHolds ==
  ASSUME TypeInv, c_cohort # NoCohort, Live(c_swindow)
  PROVE  Appended(win, c_swindow)[c_swindow].cohorts # <<>>
<1>1. win[c_swindow].cohorts \in Seq(Cohort) /\ c_cohort \in Cohort
  BY DEF TypeInv, WinTyped, DriverTyped, Live, Window
<1>2. Append(win[c_swindow].cohorts, c_cohort) # <<>>
  BY <1>1, LastAppended
<1>3. Appended(win, c_swindow)[c_swindow] =
        [win[c_swindow] EXCEPT !.cohorts = Append(win[c_swindow].cohorts, c_cohort)]
  BY DEF Appended, Live
<1>4. win[c_swindow] \in Window
  BY DEF TypeInv, WinTyped, Live
<1> QED
  BY <1>2, <1>3, <1>4 DEF Window

\* A soft break in the past: the second half of the window being filled is put
\* after it, without deltas, and must see what the first half must see.
LEMMA LookbackValues ==
  ASSUME TypeInv, HandleInv, FlowInv, ValueInv,
         SoftLookback, LookbackDue, SoftCohorts # {}
  PROVE  ValueInv'
<1>1. /\ pc = "lookback" /\ pc' = "soft" /\ c_swindow # NoWin /\ Live(c_swindow)
      /\ UNCHANGED <<variable, streamvar, pending_var, c_cohort>>
      /\ due' = Append(due, due[c_swindow])
  BY DEF SoftLookback, LookbackDue, Goto, Variables
<1>2. PICK k \in SoftCohorts :
        DelimitNext(c_swindow, k) /\ c_swindow' = window_counter + 1
  BY DEF SoftLookback
<1>3. c_swindow \in DOMAIN win /\ k \in Nat
  <2>1. win[c_swindow].cohorts \in Seq(Cohort)
    BY <1>1 DEF TypeInv, WinTyped, Live, Window
  <2> QED
    BY <1>1, <2>1 DEF Live, SoftCohorts
<1>4. /\ \A x \in ToSet(next) : win'[x].variables = win[x].variables
      /\ win'[window_counter + 1].variables = {}
  BY <1>2, <1>3, DelimitNextDeltas
<1>5. /\ c_swindow \in ToSet(next) /\ c_swindow = next[Len(next)]
      /\ Len(next) \in Nat \ {0} /\ next \in Seq(Handle) /\ IsInjective(next)
  BY <1>1, FilledWaits DEF TypeInv, StreamInv
<1>6. next' = Append(next, window_counter + 1)
  <2>1. PICK pos \in DOMAIN next :
          /\ next[pos] = c_swindow
          /\ next' = InsertAt(next, pos + 1, window_counter + 1)
    BY <1>2 DEF DelimitNext
  <2>2. pos = Len(next) /\ (Len(next) + 1) - 1 = Len(next)
    BY <1>5, <2>1 DEF IsInjective
  <2>3. /\ SubSeq(next, 1, Len(next)) = next
        /\ SubSeq(next, Len(next) + 1, Len(next)) = <<>>
    BY <1>5, SubSeqFull, SubSeqEmpty
  <2>4. window_counter + 1 \in Handle
    BY FreshHandle DEF TypeInv
  <2>5. next \o <<window_counter + 1>> = Append(next, window_counter + 1)
    BY <1>5, <2>4, ConcatOne
  <2>6. Append(next, window_counter + 1) \in Seq(Handle)
    BY <1>5, <2>4, AppendProperties
  <2>7. InsertAt(next, pos + 1, window_counter + 1) =
          next \o <<window_counter + 1>> \o <<>>
    BY <2>2, <2>3 DEF InsertAt
  <2> QED
    BY <2>1, <2>5, <2>6, <2>7, ConcatEmptySeq
<1>7. ~Unadopted /\ ~Unadopted' /\ Base' = Base
  <2>1. c_cohort # NoCohort
    BY <1>1 DEF FlowInv, HoldInv
  <2> QED
    BY <1>1, <2>1 DEF Unadopted, Base
<1>8. due[c_swindow] \in BOOLEAN
  BY <1>5, WaitingLive DEF TypeInv, DriverTyped
<1>9. Values(next, due, Base, Len(next)) = due[c_swindow]
  <2>1. Len(next) + 1 # 1 /\ (Len(next) + 1) - 1 = Len(next)
    BY <1>5
  <2> QED
    BY <1>5, <2>1 DEF Values, ValueBefore
<1>10. streamvar = Applied(pending_var, Values(next, due, Base, Len(next))) /\ Chain
  BY <1>7 DEF ValueInv, Chain, Settled
<1>11. Chain'
  <2>1. due[c_swindow] = Applied({}, due[c_swindow])
    BY <1>8, AppliedValues
  <2>2. due[c_swindow] = Applied(win'[window_counter + 1].variables,
                                 Values(next, due, Base, Len(next)))
    BY <1>4, <1>9, <2>1
  <2>3. streamvar' = Applied(pending_var', due[c_swindow])
    BY <1>1, <1>9, <1>10
  <2> QED
    BY <1>1, <1>4, <1>6, <1>7, <1>8, <1>10, <2>2, <2>3, ChainSettles
<1> QED
  BY <1>1, <1>7, <1>11 DEF ValueInv

\* A window is opened: its value waits for its first cohort.
LEMMA OpenWindowValues ==
  ASSUME TypeInv, HandleInv, FlowInv, ValueInv, OpenWindow, c_swindow = NoWin
  PROVE  ValueInv'
<1>1. /\ pc = "open" /\ pc' = "attach" /\ c_cohort' = NoCohort
      /\ c_swindow' = window_counter + 1 /\ AllocAppend(FreshWindow)
      /\ UNCHANGED <<variable, streamvar, pending_var>>
      /\ due' = Append(due, streamvar) /\ streamvar \in BOOLEAN
  BY DEF OpenWindow, NewSWindow, Goto, Variables, TypeInv, DriverTyped
<1>2. FreshWindow \in Window
  <2>1. /\ <<>> \in Seq(Items) /\ <<>> \in Seq(Cohort) /\ {} \in Deltas
        /\ 0 \in 0 .. received /\ 0 \in 0 .. window_counter
    BY DEF Deltas, TypeInv, StreamInv, DriverTyped
  <2> QED
    BY <2>1 DEF FreshWindow, Window, NoWin
<1>3. /\ \A x \in ToSet(next) : win'[x].variables = win[x].variables
      /\ win'[window_counter + 1].variables = {}
      /\ win'[window_counter + 1].cohorts = <<>>
  <2>1. FreshWindow.variables = {} /\ FreshWindow.cohorts = <<>>
    BY DEF FreshWindow
  <2> QED
    BY <1>1, <1>2, <2>1, AllocAppendDeltas
<1>4. next' = Append(next, window_counter + 1)
  BY <1>1 DEF AllocAppend
<1>5. ~Unadopted /\ Unadopted' /\ Base' = Base
  <2>1. window_counter + 1 # NoWin
    BY DEF TypeInv, StreamInv, NoWin
  <2> QED
    BY <1>1, <1>3, <2>1 DEF Unadopted, Base
<1>6. Chain
  BY DEF ValueInv
<1>7. /\ Settles(next', win', due', Base', Len(next))
      /\ Values(next', due', Base', Len(next)) = Values(next, due, Base, Len(next))
      /\ streamvar = Applied(pending_var, Values(next, due, Base, Len(next)))
      /\ Len(next) \in Nat /\ Len(next') = Len(next) + 1
  BY <1>1, <1>3, <1>4, <1>5, <1>6, ChainGrows
<1>8. Settled' = Len(next)
  BY <1>5, <1>7 DEF Settled
<1>9. Chain'
  BY <1>1, <1>7, <1>8 DEF Chain
<1> QED
  BY <1>1, <1>3, <1>5, <1>9 DEF ValueInv

\* The first waiting window is taken to be run: its deltas make of the variable
\* what its rules must see.
LEMMA DrainValues ==
  ASSUME TypeInv, HandleInv, ValueInv, pc # "run", pc' = "run",
         ShuffleDown(Snapshot), next # <<>>, Settled # 0,
         UNCHANGED <<c_swindow, c_cohort, pending_var, variable, streamvar, due>>
  PROVE  ValueInv'
<1>1. next \in Seq(Handle) /\ Settled \in Nat /\ Settled <= Len(next)
  BY SettledRange DEF TypeInv, StreamInv
<1>2. /\ current' = Head(next) /\ next' = Tail(next) /\ Head(next) \in ToSet(next)
      /\ ToSet(Tail(next)) \subseteq ToSet(next)
      /\ Len(Tail(next)) = Len(next) - 1 /\ Len(next) \in Nat \ {0}
      /\ \A i \in 1 .. Len(next) - 1 : Tail(next)[i] \in ToSet(Tail(next))
  <2>1. IsInjective(next)
    BY DEF TypeInv, StreamInv
  <2>2. /\ Head(next) \in ToSet(next)
        /\ ToSet(Tail(next)) \subseteq ToSet(next)
    BY <1>1, <2>1, TailHolds
  <2>3. /\ Len(Tail(next)) = Len(next) - 1 /\ Len(next) \in Nat \ {0}
        /\ Tail(next) \in Seq(Handle)
    BY <1>1, HeadTailProperties, EmptySeq
  <2>4. \A i \in 1 .. Len(next) - 1 : Tail(next)[i] \in ToSet(Tail(next))
    BY <2>3, LenProperties DEF ToSet
  <2> QED
    BY <2>2, <2>3, <2>4 DEF ShuffleDown
<1>3. \A x \in ToSet(next) : win'[x] = win[x]
  BY ShuffleDownWaiting
<1>4. Base = variable /\ Base' = due[Head(next)]
  BY <1>2 DEF Base
<1>5. Unadopted' = Unadopted /\ (c_swindow # NoWin => win'[c_swindow] = win[c_swindow])
  <2>1. c_swindow # NoWin => c_swindow \in ToSet(next)
    BY FilledWaits DEF TypeInv
  <2> QED
    BY <1>3, <2>1 DEF Unadopted
<1>6. Settled' = Settled - 1
  BY <1>2, <1>5 DEF Settled
<1>7. /\ Settles(Tail(next), win, due, due[Head(next)], Settled - 1)
      /\ Values(Tail(next), due, due[Head(next)], Settled - 1) =
           Values(next, due, Base, Settled)
      /\ due[Head(next)] = Applied(win[Head(next)].variables, Base)
  <2>1. Settles(next, win, due, Base, Settled)
    BY DEF ValueInv, Chain
  <2> HIDE DEF Settled, Base
  <2> QED
    BY <1>1, <2>1, SettlesTail
<1>8. Agree(Tail(next), Tail(next), win, win', due, due', Settled - 1)
  BY <1>1, <1>2, <1>3 DEF Agree
<1>9. /\ Settles(Tail(next), win', due', due[Head(next)], Settled - 1)
      /\ Values(Tail(next), due', due[Head(next)], Settled - 1) =
           Values(next, due, Base, Settled)
  <2>1. Settled - 1 \in Nat
    BY <1>1
  <2> HIDE DEF Settled, Base
  <2> QED
    BY <1>7, <1>8, <2>1, SettlesKept
<1>10. Chain'
  <2>1. streamvar = Applied(pending_var, Values(next, due, Base, Settled))
    BY DEF ValueInv, Chain
  <2>2. Settles(next', win', due', Base', Settled')
    BY <1>2, <1>4, <1>6, <1>9
  <2>3. Values(next', due', Base', Settled') = Values(next, due, Base, Settled)
    BY <1>2, <1>4, <1>6, <1>9
  <2> QED
    BY <2>1, <2>2, <2>3 DEF Chain
<1>11. due'[current'] = Applied(win'[current'].variables, variable')
  BY <1>2, <1>3, <1>4, <1>7
<1>12. Unadopted' => win'[c_swindow'].variables = {}
  <2>1. Unadopted => win[c_swindow].variables = {}
    BY DEF ValueInv
  <2>2. Unadopted => c_swindow # NoWin
    BY DEF Unadopted
  <2> QED
    BY <1>5, <2>1, <2>2
<1> QED
  BY <1>10, <1>11, <1>12, Zenon DEF ValueInv

\* The first cohort of a window gives it the pending deltas: what it must see is
\* what the input says so far.
LEMMA AdoptValues ==
  ASSUME TypeInv, HandleInv, FlowInv, ValueInv, NewCohort, CohortCount(c_swindow) = 1
  PROVE  ValueInv'
<1>1. /\ pc = "newcohort" /\ pc' = "read" /\ Live(c_swindow) /\ c_cohort = NoCohort
      /\ win' = [win EXCEPT ![c_swindow] =
                   [win[c_swindow] EXCEPT !.variables = @ \cup pending_var]]
      /\ due' = [due EXCEPT ![c_swindow] = streamvar]
      /\ pending_var' = {} /\ c_cohort'.id = received' /\ received' # 0
      /\ UNCHANGED <<next, c_swindow, variable, streamvar>>
  BY DEF NewCohort, FlowInv, HoldInv, Goto, TypeInv, DriverTyped
<1>2. c_swindow # NoWin /\ win[c_swindow] \in Window /\ c_swindow \in DOMAIN win
  BY <1>1 DEF TypeInv, WinTyped, StreamInv, Live
<1>3. /\ c_swindow \in ToSet(next) /\ c_swindow = next[Len(next)]
      /\ Len(next) \in Nat \ {0} /\ next \in Seq(Handle) /\ IsInjective(next)
  BY <1>2, FilledWaits DEF TypeInv, StreamInv
<1>4. Unadopted /\ ~Unadopted'
  <2>1. win[c_swindow].cohorts \in Seq(Cohort)
    BY <1>2 DEF Window
  <2>2. win[c_swindow].cohorts = <<>>
    BY <2>1, EmptySeq DEF CohortCount
  <2>3. c_cohort' # NoCohort
    BY <1>1 DEF NoCohort
  <2> QED
    BY <1>1, <1>2, <2>2, <2>3 DEF Unadopted
<1>5. win'[c_swindow].variables = pending_var
  <2>1. win[c_swindow].variables = {}
    BY <1>4 DEF ValueInv
  <2> QED
    BY <1>1, <1>2, <2>1 DEF Window
<1>6. c_swindow \in Handles /\ due \in [Handles -> BOOLEAN] /\ streamvar \in BOOLEAN
  BY <1>3, WaitingLive DEF TypeInv, DriverTyped
<1>7. due'[c_swindow] = streamvar
  BY <1>1, <1>6
<1> DEFINE n == Len(next) - 1
<1>8. n \in Nat /\ n + 1 = Len(next) /\ Settled = n /\ Settled' = n + 1
  BY <1>1, <1>3, <1>4 DEF Settled
<1>9. Agree(next, next, win, win', due, due', n)
  <2> SUFFICES ASSUME NEW i \in 1 .. n
               PROVE  /\ due'[next[i]] = due[next[i]]
                      /\ win'[next[i]].variables = win[next[i]].variables
    BY DEF Agree
  <2>1. i \in DOMAIN next /\ Len(next) \in DOMAIN next /\ i # Len(next)
    BY <1>3
  <2>2. next[i] # c_swindow /\ next[i] \in ToSet(next)
    BY <1>3, <2>1 DEF IsInjective, ToSet
  <2>3. next[i] \in DOMAIN win /\ next[i] \in Handles
    BY <2>2, WaitingLive
  <2> QED
    BY <1>1, <1>6, <2>2, <2>3
<1> HIDE DEF n
<1>10. Base = variable /\ Base' = variable
  BY <1>1 DEF Base
<1>11. /\ Settles(next, win, due, variable, n)
       /\ streamvar = Applied(pending_var, Values(next, due, variable, n))
  BY <1>8, <1>10 DEF ValueInv, Chain
<1>12. /\ Settles(next, win', due', variable, n)
       /\ Values(next, due', variable, n) = Values(next, due, variable, n)
  BY <1>8, <1>9, <1>11, SettlesKept
<1>13. next[n + 1] = c_swindow
  BY <1>3, <1>8
<1>14. /\ Settles(next, win', due', variable, n + 1)
       /\ Values(next, due', variable, n + 1) = streamvar
  <2>1. due'[next[n + 1]] =
          Applied(win'[next[n + 1]].variables, Values(next, due', variable, n))
    BY <1>5, <1>7, <1>11, <1>12, <1>13
  <2> QED
    BY <1>7, <1>8, <1>12, <1>13, <2>1, SettlesOneMore
<1>15. Chain'
  <2>1. streamvar' = Applied(pending_var', streamvar)
    BY <1>1, <1>6, AppliedValues
  <2> QED
    BY <1>1, <1>8, <1>10, <1>14, <2>1 DEF Chain
<1> QED
  BY <1>1, <1>4, <1>15 DEF ValueInv

\* What the steps of the line handler, up to a window run, do to the values.
LEMMA GatherValues ==
  ASSUME PlainStream, TypeInv, HandleInv, FlowInv, ValueInv,
         \/ BinaryWindow \/ SoftLookback \/ SoftBreak \/ HardBreak
         \/ OpenWindow \/ AttachCohort \/ DrainOne \/ NewCohort
  PROVE  ValueInv'
<1>0. StreamInv /\ WinTyped
  BY DEF TypeInv
<1>1. CASE BinaryWindow
  BY <1>1 DEF BinaryWindow, HandleInv
<1>2. CASE SoftLookback
  <2>1. CASE LookbackDue /\ SoftCohorts # {}
    BY <1>2, <2>1, LookbackValues
  <2>2. CASE ~(LookbackDue /\ SoftCohorts # {})
    BY <1>0, <1>2, <2>2, SameStep DEF SoftLookback, Goto, History
  <2> QED
    BY <2>1, <2>2
<1>3. CASE SoftBreak \/ HardBreak
  <2>1. CASE CloseWindow /\ c_cohort # NoCohort
    <3>1. /\ pc \in {"soft", "hard"} /\ pc' \in {"hard", "open"}
          /\ UNCHANGED <<next, variable, streamvar, pending_var, due>>
      BY <1>3, <2>1 DEF SoftBreak, HardBreak, CloseWindow, Goto, Variables, History
    <3>2. ~Unadopted /\ ~Unadopted'
      BY <2>1 DEF CloseWindow, Unadopted
    <3>3. SameDeltas(win')
      BY <1>0, <2>1, OwnDeltas, AppendedDeltas DEF CloseWindow
    <3>4. \A x \in ToSet(next) :
            due'[x] = due[x] /\ win'[x].variables = win[x].variables
      BY <3>1, <3>3, WaitingLive DEF SameDeltas
    <3> QED
      BY <1>0, <3>1, <3>2, <3>4, ReadingStep
  <2>2. CASE ~(CloseWindow /\ c_cohort # NoCohort)
    BY <1>0, <1>3, <2>2, SameStep DEF SoftBreak, HardBreak, Goto
  <2> QED
    BY <2>1, <2>2
<1>4. CASE OpenWindow
  <2>1. CASE c_swindow = NoWin
    BY <1>4, <2>1, OpenWindowValues
  <2>2. CASE c_swindow # NoWin
    BY <1>0, <1>4, <2>2, SameStep DEF OpenWindow, Goto, History
  <2> QED
    BY <2>1, <2>2
<1>5. CASE AttachCohort
  <2>1. CASE c_cohort = NoCohort
    BY <1>0, <1>5, <2>1, SameStep DEF AttachCohort, Goto, stream
  <2>2. CASE c_cohort # NoCohort
    <3>1. /\ pc = "attach" /\ pc' \in {"drain", "newcohort"} /\ Live(c_swindow)
          /\ win' = Appended(win, c_swindow)
          /\ UNCHANGED <<next, c_swindow, variable, streamvar, pending_var, due>>
      BY <1>5, <2>2 DEF AttachCohort, Goto, Variables, History
    <3>2. ~Unadopted /\ ~Unadopted'
      BY <2>2, <3>1, AppendedHolds DEF Unadopted
    <3>3. SameDeltas(win')
      BY <1>0, <3>1, OwnDeltas, AppendedDeltas
    <3>4. \A x \in ToSet(next) :
            due'[x] = due[x] /\ win'[x].variables = win[x].variables
      BY <3>1, <3>3, WaitingLive DEF SameDeltas
    <3> QED
      BY <1>0, <3>1, <3>2, <3>4, ReadingStep
  <2> QED
    BY <2>1, <2>2
<1>6. CASE DrainOne
  <2>1. /\ pc = "drain" /\ pc' = "run" /\ ShuffleDown(Snapshot)
        /\ UNCHANGED <<c_swindow, c_cohort, pending_var, variable, streamvar, due>>
    BY <1>6 DEF DrainOne, Goto, Variables, History
  <2>2. Len(next) > NumWindows + 1 /\ Len(next) \in Nat /\ NumWindows \in Nat
    BY <1>0, <2>1, DriverAssumption DEF HandleInv, StreamInv
  <2>3. next # <<>>
    BY <2>2, EmptySeq
  <2>4. Len(next) # 0 /\ Len(next) - 1 # 0
    <3>1. \A l, m \in Nat : l > m + 1 => l # 0 /\ l - 1 # 0
      OBVIOUS
    <3> QED
      BY <2>2, <3>1
  <2>5. Settled # 0
    BY <2>4 DEF Settled
  <2> QED
    BY <2>1, <2>3, <2>5, DrainValues
<1>7. CASE NewCohort
  <2>1. CASE CohortCount(c_swindow) = 1
    BY <1>7, <2>1, AdoptValues
  <2>2. CASE CohortCount(c_swindow) # 1
    <3>1. /\ pc = "newcohort" /\ pc' = "read" /\ c_swindow \in DOMAIN win
          /\ c_cohort'.id = received' /\ received' # 0
          /\ UNCHANGED <<next, win, c_swindow, variable, streamvar, pending_var, due>>
      BY <1>7, <2>2 DEF NewCohort, Goto, Live, TypeInv, DriverTyped
    <3>2. ~Unadopted
      BY <2>2, <3>1 DEF CohortCount, Unadopted
    <3>3. ~Unadopted'
      BY <3>1 DEF Unadopted, NoCohort
    <3> QED
      BY <1>0, <3>1, <3>2, <3>3, ReadingStep
  <2> QED
    BY <2>1, <2>2
<1> QED
  BY <1>1, <1>2, <1>3, <1>4, <1>5, <1>6, <1>7

\* The oldest window leaves: no waiting window changes.
LEMMA FreedValues ==
  ASSUME TypeInv, HandleInv, ValueInv, previous # <<>>, FreeFirst, pc # "run",
         UNCHANGED <<pc, c_swindow, c_cohort, pending_var, variable, streamvar, due>>
  PROVE  ValueInv'
<1>0. StreamInv
  BY DEF TypeInv
<1>1. UNCHANGED <<current, next>>
  BY DEF FreeFirst
<1>2. \A x \in ToSet(next) :
        /\ due'[x] = due[x] /\ win'[x].variables = win[x].variables
        /\ win'[x].cohorts = win[x].cohorts
  BY WaitingLive, FreeFirstWaiting
<1>3. /\ Unadopted' = Unadopted
      /\ c_swindow # NoWin => win'[c_swindow].variables = win[c_swindow].variables
  <2>1. c_swindow # NoWin => c_swindow \in ToSet(next)
    BY <1>0, FilledWaits
  <2> QED
    BY <1>2, <2>1 DEF Unadopted
<1>4. Settled' = Settled /\ Base' = Base
  BY <1>1, <1>3 DEF Settled, Base
<1>5. Chain'
  BY <1>0, <1>1, <1>2, <1>4, ChainKept DEF ValueInv
<1>6. Unadopted' => win'[c_swindow'].variables = {}
  BY <1>3 DEF ValueInv, Unadopted
<1>7. pc' \in {"retire", "rules"} => variable' = due'[current']
  BY <1>1 DEF ValueInv
<1>8. pc' # "run"
  OBVIOUS
<1> QED
  BY <1>5, <1>6, <1>7, <1>8 DEF ValueInv

\* A window run starts: its deltas become the global variable.
LEMMA RunWindowValues ==
  ASSUME TypeInv, HandleInv, ValueInv, RunWindow
  PROVE  ValueInv'
<1>0. StreamInv
  BY DEF TypeInv
<1>1. /\ pc = "run" /\ pc' = "retire"
      /\ variable' = Applied(win[current].variables, variable)
      /\ UNCHANGED <<current, next, win, c_swindow, c_cohort, pending_var, streamvar, due>>
  BY DEF RunWindow, Goto, stream, History
<1>2. variable' = due[current]
  BY <1>1 DEF ValueInv
<1>3. Unadopted' = Unadopted
  BY <1>1 DEF Unadopted
<1>4. Settled' = Settled /\ Base' = Base
  BY <1>1, <1>2, <1>3 DEF Settled, Base
<1>5. Chain'
  BY <1>0, <1>1, <1>4, ChainKept DEF ValueInv
<1>6. Unadopted' => win'[c_swindow'].variables = {}
  BY <1>1, <1>3 DEF ValueInv
<1>7. variable' = due'[current'] /\ pc' # "run"
  BY <1>1, <1>2
<1> QED
  BY <1>5, <1>6, <1>7 DEF ValueInv

\* DELIMIT: the tail waits first, without deltas, and must see what the window
\* it was cut from sees.
LEMMA DelimitValues ==
  ASSUME TypeInv, HandleInv, ValueInv, DelimitRule
  PROVE  ValueInv'
<1>0. StreamInv
  BY DEF TypeInv
<1> DEFINE id == window_counter + 1
<1>1. /\ pc = "rules" /\ pc' = "retire"
      /\ due' = Append(due, due[current])
      /\ UNCHANGED <<c_swindow, c_cohort, pending_var, variable, streamvar>>
  BY DEF DelimitRule, Goto, Variables
<1>2. PICK k \in 1 .. Len(win[current].cohorts) - 1 : DelimitCurrent(k)
  BY DEF DelimitRule
<1>3. /\ \A x \in ToSet(next) : /\ win'[x].variables = win[x].variables
                                /\ win'[x].cohorts = win[x].cohorts
      /\ win'[id].variables = {}
  <2>1. k \in Nat
    BY <1>2
  <2> QED
    BY <1>2, <2>1, DelimitCurrentDeltas
<1>4. next' = <<id>> \o next /\ current' = current
  BY <1>2 DEF DelimitCurrent
<1>5. variable = due[current] /\ variable \in BOOLEAN
  BY <1>1 DEF ValueInv, TypeInv, DriverTyped
<1>6. /\ \A x \in Handles : due'[x] = due[x]
      /\ due'[id] = variable
  BY <1>1, <1>5, DueAppended
<1>7. current \in Handles
  <2>1. current # NoWin
    BY <1>1 DEF TypeInv, RunningCurrent
  <2> QED
    BY <2>1 DEF TypeInv, StreamInv, Handles, NoWin
<1>8. /\ Unadopted' = Unadopted
      /\ c_swindow # NoWin => win'[c_swindow].variables = win[c_swindow].variables
  <2>1. c_swindow # NoWin => c_swindow \in ToSet(next)
    BY <1>0, FilledWaits
  <2> QED
    BY <1>1, <1>3, <2>1 DEF Unadopted
<1>9. /\ next \in Seq(Handle) /\ id \in Handle
      /\ Settled \in Nat /\ Settled <= Len(next) /\ Len(next) \in Nat
  BY <1>0, SettledRange, FreshHandle DEF StreamInv
<1>10. Settled' = Settled + 1
  <2>1. Len(<<id>>) = 1 /\ <<id>> \in Seq(Handle)
    BY <1>9
  <2>2. Len(<<id>> \o next) = 1 + Len(next)
    BY <1>9, <2>1, ConcatProperties
  <2> QED
    BY <1>4, <1>8, <1>9, <2>2 DEF Settled
<1>11. Base = variable /\ Base' = variable
  BY <1>1 DEF Base
<1>12. Agree(next, next, win, win', due, due', Settled)
  <2>1. \A i \in 1 .. Settled : next[i] \in ToSet(next)
    BY <1>9, LenProperties DEF ToSet
  <2>2. \A x \in ToSet(next) : x \in Handles
    BY WaitingLive
  <2> QED
    BY <1>3, <1>6, <2>1, <2>2 DEF Agree
<1>13. /\ Settles(next, win, due, variable, Settled)
       /\ streamvar = Applied(pending_var, Values(next, due, variable, Settled))
  BY <1>11 DEF ValueInv, Chain
<1>14. /\ Settles(<<id>> \o next, win', due', variable, Settled + 1)
       /\ Values(<<id>> \o next, due', variable, Settled + 1) =
            Values(next, due, variable, Settled)
  <2>1. variable = Applied(win'[id].variables, variable)
    BY <1>3, <1>5, AppliedValues
  <2> HIDE DEF id, Settled
  <2> QED
    BY <1>6, <1>9, <1>12, <1>13, <2>1, SettlesCons
<1>15. Chain'
  <2>1. Settles(next', win', due', Base', Settled')
    BY <1>4, <1>10, <1>11, <1>14
  <2>2. streamvar' = Applied(pending_var', Values(next', due', Base', Settled'))
    BY <1>1, <1>4, <1>10, <1>11, <1>13, <1>14
  <2> QED
    BY <2>1, <2>2 DEF Chain
<1>16. Unadopted' => win'[c_swindow'].variables = {}
  BY <1>1, <1>8 DEF ValueInv, Unadopted
<1>17. variable' = due'[current'] /\ pc' # "run"
  BY <1>1, <1>4, <1>5, <1>6, <1>7
<1> QED
  BY <1>15, <1>16, <1>17 DEF ValueInv

\* What a window run does to the values.
LEMMA RunValues ==
  ASSUME PlainStream, TypeInv, HandleInv, FlowInv, ValueInv,
         RunWindow \/ RetireWindow \/ StartPass \/ DelimitRule \/ EndRun
  PROVE  ValueInv'
<1>0. StreamInv
  BY DEF TypeInv
<1>1. CASE RunWindow
  BY <1>1, RunWindowValues
<1>2. CASE RetireWindow
  <2>1. /\ pc # "run" /\ FreeFirst
        /\ UNCHANGED <<pc, c_swindow, c_cohort, pending_var, variable, streamvar, due>>
    BY <1>2 DEF RetireWindow, Variables, History
  <2>2. previous # <<>>
    <3>1. Len(previous) > NumWindows /\ NumWindows \in Nat
      BY <1>2, DriverAssumption DEF RetireWindow
    <3> QED
      BY <3>1
  <2> QED
    BY <2>1, <2>2, FreedValues
<1>3. CASE StartPass
  BY <1>0, <1>3, SameStep DEF StartPass, Goto
<1>4. CASE DelimitRule
  BY <1>4, DelimitValues
<1>5. CASE EndRun
  <2>1. /\ pc' \in {"newcohort", "flush", "eofdrain"} /\ pc \in {"rules", "retire"}
        /\ UNCHANGED <<stream, c_swindow, c_cohort, Variables, History>>
    BY <1>5 DEF EndRun, Goto, TypeInv, DriverTyped
  <2> QED
    BY <1>0, <2>1, SameStep
<1> QED
  BY <1>1, <1>2, <1>3, <1>4, <1>5

\* Every window that waits is taken to be run, or there is none.
LEMMA DrainAllValues ==
  ASSUME TypeInv, HandleInv, ValueInv,
         DrainAll("flush", "flushprint") \/ DrainAll("eofdrain", "eofprint")
  PROVE  ValueInv'
<1>0. StreamInv
  BY DEF TypeInv
<1>1. /\ pc \in {"flush", "eofdrain"} /\ ShuffleDown(Snapshot)
      /\ UNCHANGED <<c_swindow, c_cohort, pending_var, variable, streamvar, due>>
  BY DEF DrainAll, Variables, History
<1>2. c_swindow = NoWin /\ ~Unadopted /\ ~Unadopted'
  BY <1>1 DEF HandleInv, Draining, Unadopted
<1>3. CASE next = <<>>
  <2>1. pc' \in {"flushprint", "eofprint"} /\ UNCHANGED next
    BY <1>3 DEF DrainAll, ShuffleDown, Goto
  <2>2. \A x \in ToSet(next) :
          due'[x] = due[x] /\ win'[x].variables = win[x].variables
    BY <1>1, ShuffleDownWaiting
  <2>3. pc # "run" /\ pc' \notin {"run", "retire", "rules"}
    BY <1>1, <2>1
  <2> QED
    BY <1>0, <1>1, <1>2, <2>1, <2>2, <2>3, ReadingStep
<1>4. CASE next # <<>>
  <2>1. pc # "run" /\ pc' = "run"
    BY <1>1, <1>4 DEF DrainAll, Goto
  <2>2. Len(next) # 0
    BY <1>0, <1>4, EmptySeq DEF StreamInv
  <2>3. Settled # 0
    BY <1>2, <2>2 DEF Settled
  <2> QED
    BY <1>1, <1>4, <2>1, <2>3, DrainValues
<1> QED
  BY <1>3, <1>4

\* A FLUSH forgets the variables; what is still pending is all the input says.
LEMMA EndFlushValues ==
  ASSUME TypeInv, HandleInv, FlowInv, ValueInv, EndFlush
  PROVE  ValueInv'
<1>1. /\ pc = "flushprint" /\ pc' = "read" /\ next = <<>>
      /\ variable' = FALSE /\ streamvar' = (streamvar /\ pending_var # {})
      /\ UNCHANGED <<next, win, c_swindow, c_cohort, pending_var, due>>
  BY DEF EndFlush, Goto, stream, FlowInv, HoldInv
<1>2. ~Unadopted /\ ~Unadopted'
  BY <1>1 DEF HandleInv, Draining, Unadopted
<1>3. Len(next) = 0
  BY <1>1, EmptySeq
<1>4. /\ Settled = 0 /\ Settled' = 0 /\ Base = variable /\ Base' = FALSE
  BY <1>1, <1>2, <1>3 DEF Settled, Base
<1>5. streamvar = Applied(pending_var, variable) /\ variable \in BOOLEAN
  <2>1. streamvar = Applied(pending_var, Values(next, due, variable, 0))
    BY <1>4 DEF ValueInv, Chain
  <2>2. Values(next, due, variable, 0) = variable
    BY DEF Values, ValueBefore
  <2> QED
    BY <2>1, <2>2 DEF TypeInv, DriverTyped
<1>6. streamvar' = Applied(pending_var, FALSE)
  <2>1. CASE pending_var = {}
    <3>1. streamvar' = FALSE
      BY <1>1, <2>1
    <3> QED
      BY <2>1, <3>1, AppliedValues
  <2>2. CASE pending_var = {"set"}
    <3>1. streamvar = TRUE
      BY <1>5, <2>2, AppliedValues
    <3>2. streamvar' = TRUE
      BY <1>1, <2>2, <3>1
    <3> QED
      BY <2>2, <3>2, AppliedValues
  <2>3. CASE pending_var = {"rem"}
    <3>1. streamvar = FALSE
      BY <1>5, <2>3, AppliedValues
    <3>2. streamvar' = FALSE
      BY <1>1, <3>1
    <3> QED
      BY <2>3, <3>2, AppliedValues
  <2> QED
    BY <2>1, <2>2, <2>3 DEF FlowInv, HoldInv
<1>7. Chain'
  <2>1. Settles(next', win', due', FALSE, 0)
    BY DEF Settles
  <2>2. Values(next', due', FALSE, 0) = FALSE
    BY DEF Values, ValueBefore
  <2> QED
    BY <1>1, <1>4, <1>6, <2>1, <2>2 DEF Chain
<1> QED
  BY <1>1, <1>2, <1>7 DEF ValueInv

\* What a flush and the end of the input do to the values.
LEMMA EndingValues ==
  ASSUME PlainStream, TypeInv, HandleInv, FlowInv, ValueInv, HandleInv',
         \/ DrainAll("flush", "flushprint") \/ DrainAll("eofdrain", "eofprint")
         \/ PrintFirst("flushprint") \/ PrintFirst("eofprint")
         \/ EndFlush \/ FinishInput \/ LastVariables \/ EndOutput
  PROVE  ValueInv'
<1>0. StreamInv /\ WinTyped
  BY DEF TypeInv
<1>1. CASE DrainAll("flush", "flushprint") \/ DrainAll("eofdrain", "eofprint")
  BY <1>1, DrainAllValues
<1>2. CASE PrintFirst("flushprint") \/ PrintFirst("eofprint")
  <2>1. /\ pc # "run" /\ FreeFirst /\ previous # <<>>
        /\ UNCHANGED <<pc, c_swindow, c_cohort, pending_var, variable, streamvar, due>>
    BY <1>2 DEF PrintFirst, Variables, History
  <2> QED
    BY <2>1, FreedValues
<1>3. CASE EndFlush
  BY <1>3, EndFlushValues
<1>4. CASE FinishInput
  <2>1. /\ pc = "eof" /\ pc' = "eofvariables" /\ FinishCohort(win)
        /\ UNCHANGED <<next, variable, streamvar, pending_var, due>>
    BY <1>4 DEF FinishInput, FinishCohort, Goto, Variables, History
  <2>2. ~Unadopted
    BY <2>1, ReadAdopted
  <2>3. ~Unadopted'
    <3>1. (HandleInv /\ (pc \in {"read", "eof"} \/ Draining) => ~Unadopted)'
      BY ReadAdopted, PTL
    <3>2. (pc \in {"read", "eof"} \/ Draining)'
      BY <2>1 DEF Draining
    <3> QED
      BY <3>1, <3>2
  <2>4. SameDeltas(win')
    BY <1>0, <2>1, OwnDeltas, FinishCohortDeltas
  <2>5. \A x \in ToSet(next) :
          due'[x] = due[x] /\ win'[x].variables = win[x].variables
    BY <2>1, <2>4, WaitingLive DEF SameDeltas
  <2> QED
    BY <1>0, <2>1, <2>2, <2>3, <2>5, ReadingStep
<1>5. CASE LastVariables \/ EndOutput
  <2>1. /\ pc' \in {"eofdrain", "done"} /\ pc \in {"eofvariables", "eofprint"}
        /\ UNCHANGED <<stream, c_swindow, c_cohort, Variables, History>>
    BY <1>5 DEF LastVariables, EndOutput, Goto, Variables, History, PlainStream
  <2> QED
    BY <1>0, <2>1, SameStep
<1> QED
  BY <1>1, <1>2, <1>3, <1>4, <1>5

\* The values of the first state: nothing waits and nothing is set.
LEMMA InitValues ==
  ASSUME PlainStream, Init
  PROVE  FlowInv /\ ValueInv
<1>1. /\ pc = "read" /\ next = <<>> /\ c_swindow = NoWin /\ c_cohort = NoCohort
      /\ pending_var = {} /\ variable = FALSE /\ streamvar = FALSE
  BY DEF Init, InitStream, PlainStream
<1>2. FlowInv
  BY <1>1 DEF FlowInv, HoldInv
<1>3. ~Unadopted /\ Base = FALSE
  BY <1>1 DEF Unadopted, Base
<1>4. Settled = 0
  BY <1>1, <1>3, EmptySeq DEF Settled
<1>5. Settles(next, win, due, FALSE, 0) /\ Values(next, due, FALSE, 0) = FALSE
  BY DEF Settles, Values, ValueBefore
<1>6. Chain
  <2>1. streamvar = Applied(pending_var, FALSE)
    BY <1>1, AppliedValues
  <2> QED
    BY <1>3, <1>4, <1>5, <2>1 DEF Chain
<1> QED
  BY <1>1, <1>2, <1>3, <1>6 DEF ValueInv

\* Every step keeps the invariant.
LEMMA FlowInvStep ==
  ASSUME PlainStream, TypeInv, HandleInv, FlowInv, [Next]_vars
  PROVE  FlowInv'
  BY HoldInvStep, PendingStep DEF FlowInv

LEMMA ValueInvStep ==
  ASSUME PlainStream, TypeInv, HandleInv, FlowInv, ValueInv, HandleInv', [Next]_vars
  PROVE  ValueInv'
<1>1. CASE ReadLine
  BY <1>1, ReadLineValues
<1>2. CASE HandleLine
  BY <1>2, GatherValues, RunValues, EndingValues DEF HandleLine
<1>3. CASE Panic
  BY <1>3, NoneStale DEF TypeInv
<1>4. CASE UNCHANGED vars
  <2>1. UNCHANGED <<stream, c_swindow, c_cohort, Variables, History>> /\ UNCHANGED pc
    BY <1>4 DEF vars, driver, Variables, History
  <2> QED
    BY <2>1, SameStep DEF TypeInv
<1> QED
  BY <1>1, <1>2, <1>3, <1>4 DEF Next

\* However far ahead the driver reads, the rules of a window see the variable as
\* the input set it before the first cohort of that window: for every limit,
\* number of windows, grammar with DELIMIT and sequence of cohorts, SETVAR (with
\* a value or a list of variables too), REMVAR, FLUSH and EXIT lines.
THEOREM VariableOnTimeHolds ==
  ASSUME PlainStream
  PROVE  Spec => []VariableOnTime
<1>1. Init => TypeInv /\ HandleInv /\ FlowInv /\ ValueInv
  BY InitTypeInv, InitHandles, InitValues
<1>2. TypeInv /\ [Next]_vars => TypeInv'
  BY TypeInvStep
<1>3. TypeInv /\ HandleInv /\ [Next]_vars => HandleInv'
  BY HandleInvStep
<1>4. TypeInv /\ HandleInv /\ FlowInv /\ [Next]_vars => FlowInv'
  BY FlowInvStep
<1>5. TypeInv /\ HandleInv /\ FlowInv /\ ValueInv /\ HandleInv' /\ [Next]_vars
        => ValueInv'
  BY ValueInvStep
<1>6. ValueInv => VariableOnTime
  BY DEF ValueInv, VariableOnTime
<1> QED
  BY <1>1, <1>2, <1>3, <1>4, <1>5, <1>6, PTL DEF Spec
=============================================================================
