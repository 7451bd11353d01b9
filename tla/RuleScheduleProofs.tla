-------------------------- MODULE RuleScheduleProofs --------------------------
(* PassCoversRules of RuleSchedule for every grammar: the cursor of a pass     *)
(* passes over no rule that is valid, whatever the rules and those nested in   *)
(* them by WITH do to the set of valid rules and to the cursor itself.         *)
EXTENDS RuleSchedule, ListProofs, SequenceTheorems, TLAPS

-----------------------------------------------------------------------------
(* Numbers and rules.                                                      *)

LEMMA SmallestIsLeast ==
  ASSUME NEW T, T \subseteq Nat, T # {}
  PROVE  SmallestOf(T) \in T /\ \A m \in T : SmallestOf(T) <= m
BY LeastNatural DEF SmallestOf

\* The rules of a grammar are numbered from 1, and those in a WITH come before it.
LEMMA GrammarShape ==
  ASSUME NEW g \in Grammars
  PROVE  /\ DOMAIN g \subseteq Nat
         /\ \A r \in DOMAIN g :
              /\ \A n \in 1 .. r : n \in DOMAIN g
              /\ g[r].teaches \subseteq DOMAIN g
              /\ g[r].subs \in Seq(Nat)
              /\ \A i \in 1 .. Len(g[r].subs) : g[r].subs[i] \in 1 .. r - 1
<1>1. g \in Seq(Rule)
  BY ScheduleAssumption
<1>2. DOMAIN g = 1 .. Len(g) /\ Len(g) \in Nat
  BY <1>1
<1>3. ASSUME NEW r \in DOMAIN g
      PROVE  g[r].subs \in Seq(Nat) /\ DOMAIN g[r].subs = 1 .. Len(g[r].subs)
  <2>1. g[r] \in Rule
    BY <1>1, <1>2
  <2>2. g[r].subs \in Seq(Nat)
    BY <2>1 DEF Rule
  <2> QED
    BY <2>2
<1>4. \A r \in DOMAIN g :
        g[r].teaches \subseteq DOMAIN g /\ \A i \in DOMAIN g[r].subs : g[r].subs[i] \in 1 .. r - 1
  BY ScheduleAssumption
<1> QED
  BY <1>2, <1>3, <1>4

-----------------------------------------------------------------------------
(* The loops running: a rule of a WITH has a lower number than the WITH, so    *)
(* none of them is of a rule beyond the cursor.                                *)

IsLoop(f, n) == {"rule", "subs"} \subseteq DOMAIN f /\ f.rule \in 1 .. n /\ f.subs \in Nat

LoopsBelow(fs, n) ==
  /\ Len(fs) \in Nat /\ DOMAIN fs = 1 .. Len(fs) /\ fs \in Seq({fs[i] : i \in DOMAIN fs})
  /\ \A i \in DOMAIN fs : IsLoop(fs[i], n)

LEMMA LoopsFrom ==
  ASSUME NEW n, NEW fs, NEW k \in Nat, DOMAIN fs = 1 .. k, fs = [i \in 1 .. k |-> fs[i]],
         \A i \in 1 .. k : IsLoop(fs[i], n)
  PROVE  LoopsBelow(fs, n) /\ Len(fs) = k
<1> DEFINE S == {fs[i] : i \in DOMAIN fs}
<1>1. fs \in [1 .. k -> S]
  OBVIOUS
<1>2. fs \in Seq(S)
  BY <1>1, IsASeq, SMTT(60)
<1>3. Len(fs) = k
  BY <1>2, LenProperties
<1> QED
  BY <1>2, <1>3 DEF LoopsBelow

LEMMA LoopsPop ==
  ASSUME NEW n, NEW fs, LoopsBelow(fs, n), fs # <<>>
  PROVE  LoopsBelow(Front(fs), n)
<1> DEFINE S == {fs[i] : i \in DOMAIN fs}
           gs == Front(fs)
<1>1. fs \in Seq(S) /\ Len(fs) \in Nat /\ Len(fs) # 0
  BY EmptySeq DEF LoopsBelow
<1>2. /\ DOMAIN gs = 1 .. Len(fs) - 1 /\ gs = [i \in 1 .. Len(fs) - 1 |-> gs[i]]
      /\ \A i \in 1 .. Len(fs) - 1 : gs[i] = fs[i]
  BY <1>1, SubSeqProperties DEF Front
<1> HIDE DEF gs
<1>3. \A i \in 1 .. Len(fs) - 1 : IsLoop(gs[i], n)
  BY <1>1, <1>2 DEF LoopsBelow
<1>4. Len(fs) - 1 \in Nat
  BY <1>1
<1>5. LoopsBelow(gs, n)
  BY <1>2, <1>3, <1>4, LoopsFrom
<1> QED
  BY <1>5 DEF gs

LEMMA LoopsPush ==
  ASSUME NEW n, NEW fs, LoopsBelow(fs, n), NEW f, IsLoop(f, n)
  PROVE  LoopsBelow(Append(fs, f), n)
<1> DEFINE S == {fs[i] : i \in DOMAIN fs} \cup {f}
           gs == Append(fs, f)
<1>1. fs \in Seq(S) /\ Len(fs) \in Nat
  BY SeqMonotonic DEF LoopsBelow
<1>2. /\ gs \in Seq(S) /\ Len(gs) = Len(fs) + 1
      /\ \A i \in 1 .. Len(fs) : gs[i] = fs[i]
      /\ gs[Len(fs) + 1] = f
  BY <1>1, AppendProperties
<1>3. DOMAIN gs = 1 .. Len(fs) + 1 /\ gs = [i \in 1 .. Len(fs) + 1 |-> gs[i]]
  BY <1>2, LenProperties
<1> HIDE DEF gs
<1>4. ASSUME NEW i \in 1 .. Len(fs) + 1
      PROVE  IsLoop(gs[i], n)
  <2>1. CASE i \in 1 .. Len(fs)
    BY <2>1, <1>2 DEF LoopsBelow
  <2>2. CASE i = Len(fs) + 1
    BY <2>2, <1>2
  <2> QED
    BY <2>1, <2>2, <1>1
<1>5. Len(fs) + 1 \in Nat
  BY <1>1
<1>6. LoopsBelow(gs, n)
  BY <1>3, <1>4, <1>5, LoopsFrom
<1> QED
  BY <1>6 DEF gs

\* The last loop exchanged for another of a rule not beyond n.
LEMMA LoopsReplace ==
  ASSUME NEW n, NEW fs, LoopsBelow(fs, n), NEW gs, DOMAIN gs = DOMAIN fs,
         gs = [i \in DOMAIN fs |-> gs[i]], \A i \in DOMAIN fs : IsLoop(gs[i], n)
  PROVE  LoopsBelow(gs, n) /\ Len(gs) = Len(fs)
<1>1. DOMAIN fs = 1 .. Len(fs) /\ Len(fs) \in Nat
  BY DEF LoopsBelow
<1> QED
  BY <1>1, LoopsFrom

LEMMA LoopsPut ==
  ASSUME NEW n, NEW fs, LoopsBelow(fs, n), NEW i \in DOMAIN fs, NEW f, IsLoop(f, n)
  PROVE  LoopsBelow([fs EXCEPT ![i] = f], n) /\ Len([fs EXCEPT ![i] = f]) = Len(fs)
<1> DEFINE gs == [fs EXCEPT ![i] = f]
<1>1. DOMAIN gs = DOMAIN fs /\ gs = [j \in DOMAIN fs |-> gs[j]]
  OBVIOUS
<1>2. \A j \in DOMAIN fs : IsLoop(gs[j], n)
  BY DEF LoopsBelow
<1> HIDE DEF gs
<1>3. LoopsBelow(gs, n) /\ Len(gs) = Len(fs)
  BY <1>1, <1>2, LoopsReplace
<1> QED
  BY <1>3 DEF gs

LEMMA LoopsNone == \A n : LoopsBelow(<<>>, n)
BY LoopsFrom, EmptySeq DEF LoopsBelow

-----------------------------------------------------------------------------
(* The invariant.                                                          *)

IndexShape ==
  /\ {"sets", "valid", "intersects"} \subseteq DOMAIN index
  /\ index.intersects \subseteq Numbers

StateShape ==
  {"rules", "iter_val", "readings_changed", "should_repeat", "should_bail", "delimited",
   "do_sort"} \subseteq DOMAIN st

AtShape == {"section", "pass", "counter", "something", "result"} \subseteq DOMAIN at

\* Every valid rule before the cursor has had its turn or waits for the next pass.
Behindhand == \A r \in index.intersects : r < cur => r \in ran \cup late

\* While a rule runs, what it does to the cursor can only move it back, unless it jumps.
Running ==
  /\ cur \in ran /\ st.iter_val \in Numbers
  /\ LoopsBelow(frames, cur)
  /\ ~jumped => ~st.should_repeat /\ st.iter_val <= cur

PassInv ==
  /\ grammar \in Grammars /\ IndexShape /\ StateShape /\ AtShape
  /\ pc \in {"rule", "cohort"} => cur \in Numbers /\ (~jumped => Behindhand)
  /\ pc = "cohort" => Running
  /\ PassCoversRules

\* What a step of the loops may do to the pass.
LoopStep ==
  /\ pc = "cohort" /\ UNCHANGED <<grammar, cur, ran, at, pc>>
  /\ IndexShape' /\ StateShape'
  /\ late \subseteq late'
  /\ \A r \in index'.intersects \ index.intersects : r <= cur => r \in late'
  /\ st'.iter_val \in Numbers
  /\ LoopsBelow(frames', cur)
  /\ jumped => jumped'
  /\ ~jumped' => ~st'.should_repeat /\ st'.iter_val <= cur

LEMMA LoopStepKeeps == PassInv /\ LoopStep => PassInv'
<1> SUFFICES ASSUME PassInv, LoopStep
             PROVE  PassInv'
  OBVIOUS
<1> USE DEF LoopStep
<1>1. grammar' \in Grammars /\ IndexShape' /\ StateShape' /\ AtShape' /\ pc' = "cohort"
  BY DEF PassInv, AtShape
<1>2. cur' \in Numbers'
  BY DEF PassInv, Numbers
<1>3. ASSUME ~jumped', NEW r \in index'.intersects, r < cur
      PROVE  r \in ran' \cup late'
  <2>1. ~jumped
    BY <1>3
  <2>2. CASE r \in index.intersects
    BY <1>3, <2>1, <2>2 DEF PassInv, Behindhand
  <2>3. CASE r \notin index.intersects
    <3>1. r <= cur
      BY <1>3, GrammarShape DEF PassInv, IndexShape, Numbers
    <3> QED
      BY <2>3, <3>1
  <2> QED
    BY <2>2, <2>3
<1>4. Running'
  BY DEF PassInv, Running, Numbers
<1>5. PassCoversRules'
  BY <1>1 DEF PassCoversRules
<1>6. ~jumped' => Behindhand'
  BY <1>3 DEF Behindhand
<1> QED
  BY <1>1, <1>2, <1>4, <1>5, <1>6 DEF PassInv

-----------------------------------------------------------------------------
(* The innermost loop.                                                     *)

LEMMA TopLoop ==
  ASSUME PassInv, pc = "cohort", frames # <<>>
  PROVE  /\ Len(frames) \in DOMAIN frames /\ Top = frames[Len(frames)]
         /\ IsLoop(Top, cur) /\ Top.rule \in Numbers /\ Top.rule <= cur /\ cur \in Nat
         /\ TheRule.teaches \subseteq Numbers /\ TheRule.subs \in Seq(Nat)
         /\ \A i \in 1 .. Len(TheRule.subs) : TheRule.subs[i] \in 1 .. cur
<1>1. LoopsBelow(frames, cur) /\ cur \in Numbers /\ grammar \in Grammars
  BY DEF PassInv, Running
<1>2. Len(frames) \in DOMAIN frames
  BY <1>1, EmptySeq DEF LoopsBelow
<1>3. Top = frames[Len(frames)] /\ IsLoop(Top, cur)
  BY <1>1, <1>2 DEF LoopsBelow, Top, Last
<1>4. cur \in Nat /\ Top.rule \in 1 .. cur
  BY <1>1, <1>3, GrammarShape DEF Numbers, IsLoop
<1>5. Top.rule \in Numbers
  BY <1>1, <1>4, GrammarShape DEF Numbers
<1>6. /\ TheRule.teaches \subseteq Numbers /\ TheRule.subs \in Seq(Nat)
      /\ \A i \in 1 .. Len(TheRule.subs) : TheRule.subs[i] \in 1 .. Top.rule - 1
  BY <1>1, <1>5, GrammarShape DEF Numbers, TheRule
<1> QED
  BY <1>2, <1>3, <1>4, <1>5, <1>6

\* Only the fields of the last loop that are not its rule change.
LEMMA SteppedLoops ==
  ASSUME PassInv, Looping
  PROVE  LoopsBelow(Stepped, cur) /\ Len(Stepped) = Len(frames) /\ DOMAIN Stepped = DOMAIN frames
<1> DEFINE gs == Stepped
<1>1. LoopsBelow(frames, cur)
  BY DEF PassInv, Running, Looping
<1>2. DOMAIN gs = DOMAIN frames /\ gs = [i \in DOMAIN frames |-> gs[i]]
  BY DEF Stepped
<1>3. \A i \in DOMAIN frames : IsLoop(gs[i], cur)
  BY <1>1 DEF LoopsBelow, IsLoop, Stepped
<1> HIDE DEF gs
<1>4. LoopsBelow(gs, cur) /\ Len(gs) = Len(frames)
  BY <1>1, <1>2, <1>3, LoopsReplace
<1> QED
  BY <1>2, <1>4 DEF gs

LEMMA ReseatedLoops ==
  ASSUME NEW n, NEW fs, LoopsBelow(fs, n), NEW v, NEW w
  PROVE  LoopsBelow([fs EXCEPT ![Len(fs)].nested = v, ![Len(fs)].rocit = w], n)
<1> DEFINE gs == [fs EXCEPT ![Len(fs)].nested = v, ![Len(fs)].rocit = w]
<1>1. DOMAIN gs = DOMAIN fs /\ gs = [i \in DOMAIN fs |-> gs[i]]
  OBVIOUS
<1>2. \A i \in DOMAIN fs : IsLoop(gs[i], n)
  BY DEF LoopsBelow, IsLoop
<1> HIDE DEF gs
<1>3. LoopsBelow(gs, n)
  BY <1>1, <1>2, LoopsReplace
<1> QED
  BY <1>3 DEF gs

\* The loop goes on with other cursors, after an insertion or an indexing anew.
LEMMA MarkedLoops ==
  ASSUME NEW n, NEW fs, LoopsBelow(fs, n), NEW k, NEW a, NEW s
  PROVE  LoopsBelow([fs EXCEPT ![k].at = a, ![k].seen = @ \cup s], n)
<1> DEFINE gs == [fs EXCEPT ![k].at = a, ![k].seen = @ \cup s]
<1>1. DOMAIN gs = DOMAIN fs /\ gs = [i \in DOMAIN fs |-> gs[i]]
  OBVIOUS
<1>2. \A i \in DOMAIN fs : IsLoop(gs[i], n)
  BY DEF LoopsBelow, IsLoop
<1> HIDE DEF gs
<1>3. LoopsBelow(gs, n)
  BY <1>1, <1>2, LoopsReplace
<1> QED
  BY <1>3 DEF gs

LEMMA TaughtLoops ==
  ASSUME PassInv, Looping, NEW c, NEW full, NEW a, NEW s
  PROVE  LoopsBelow([Taught(c, full).frames EXCEPT ![Len(frames)].rocit = @ + 1,
                       ![Len(frames)].seen = @ \cup s, ![Len(frames)].at = a], cur)
<1> DEFINE fs == Taught(c, full).frames
           gs == [fs EXCEPT ![Len(frames)].rocit = @ + 1,
                            ![Len(frames)].seen = @ \cup s, ![Len(frames)].at = a]
<1>1. LoopsBelow(frames, cur)
  BY DEF PassInv, Running, Looping
<1>2. DOMAIN fs = DOMAIN frames /\ fs = [i \in DOMAIN frames |-> fs[i]]
  BY DEF Taught
<1>3. ASSUME NEW f, IsLoop(f, cur), NEW old, NEW new
      PROVE  IsLoop(Moved(f, old, new, full), cur)
  BY <1>3 DEF IsLoop, Moved
<1>4. ASSUME NEW i \in DOMAIN frames
      PROVE  IsLoop(fs[i], cur)
  <2>1. IsLoop(frames[i], cur)
    BY <1>1 DEF LoopsBelow
  <2> QED
    BY <2>1, <1>3 DEF Taught
<1> HIDE DEF fs
<1>5. DOMAIN gs = DOMAIN frames /\ gs = [i \in DOMAIN frames |-> gs[i]]
  BY <1>2
<1>6. \A i \in DOMAIN frames : IsLoop(gs[i], cur)
  BY <1>2, <1>4 DEF IsLoop
<1> HIDE DEF gs
<1>7. LoopsBelow(gs, cur)
  BY <1>1, <1>5, <1>6, LoopsReplace
<1> QED
  BY <1>7 DEF gs, fs

LEMMA ReindexedLoops ==
  ASSUME PassInv, Looping, NEW cs, NEW can
  PROVE  LoopsBelow(Reindexed(cs, can).frames, cur)
<1> DEFINE fs == Reindexed(cs, can).frames
<1>1. LoopsBelow(frames, cur)
  BY DEF PassInv, Running, Looping
<1>2. DOMAIN fs = DOMAIN frames /\ fs = [i \in DOMAIN frames |-> fs[i]]
  BY DEF Reindexed
<1>3. \A i \in DOMAIN frames : IsLoop(fs[i], cur)
  BY <1>1 DEF LoopsBelow, IsLoop, Reindexed
<1> HIDE DEF fs
<1>4. LoopsBelow(fs, cur)
  BY <1>1, <1>2, <1>3, LoopsReplace
<1> QED
  BY <1>4 DEF fs

-----------------------------------------------------------------------------
(* The steps of the loops, one by one.                                     *)

\* What a step keeps that leaves the cursor and the valid rules alone.
LEMMA QuietLoopStep ==
  ASSUME PassInv, pc = "cohort", UNCHANGED <<grammar, cur, ran, at, pc, late, jumped>>,
         IndexShape', index'.intersects = index.intersects, LoopsBelow(frames', cur), StateShape',
         st'.iter_val = st.iter_val, st'.should_repeat = st.should_repeat
  PROVE  LoopStep
BY DEF PassInv, Running, LoopStep, IndexShape, Numbers

LEMMA SameIndex == PassInv /\ UNCHANGED <<grammar, index>> => IndexShape'
BY DEF PassInv, IndexShape, Numbers

LEMMA PassOverStep == PassInv /\ PassOver => LoopStep
<1> SUFFICES ASSUME PassInv, PassOver
             PROVE  LoopStep
  OBVIOUS
<1>1. pc = "cohort" /\ LoopsBelow(frames', cur)
  BY SteppedLoops DEF PassOver, Ready, Looping
<1>2. UNCHANGED <<grammar, cur, ran, at, pc, index, late, jumped, st>>
  BY DEF PassOver, quiet
<1>3. StateShape'
  BY <1>2 DEF PassInv, StateShape
<1>4. IndexShape' /\ index' = index
  BY SameIndex DEF PassOver, quiet
<1> QED
  BY <1>1, <1>2, <1>3, <1>4, QuietLoopStep

LEMMA DropStep == PassInv /\ Drop => LoopStep
<1> SUFFICES ASSUME PassInv, Drop
             PROVE  LoopStep
  OBVIOUS
<1>1. pc = "cohort" /\ Looping /\ Top.rocit = Top.rocit
  BY DEF Drop, Ready, Looping
<1>2. LoopsBelow(Stepped, cur) /\ DOMAIN Stepped = DOMAIN frames /\ Len(Stepped) = Len(frames)
  BY <1>1, SteppedLoops
<1>3. LoopsBelow(frames', cur)
  <2> DEFINE fs == Stepped
             gs == [fs EXCEPT ![Len(frames)].rocit = Top.rocit]
  <2> HIDE DEF fs
  <2>1. DOMAIN gs = DOMAIN fs /\ gs = [i \in DOMAIN fs |-> gs[i]]
    OBVIOUS
  <2>2. LoopsBelow(fs, cur)
    BY <1>2 DEF fs
  <2>3. \A i \in DOMAIN fs : IsLoop(gs[i], cur)
    BY <2>2 DEF LoopsBelow, IsLoop
  <2> HIDE DEF gs
  <2>4. LoopsBelow(gs, cur)
    BY <2>1, <2>2, <2>3, LoopsReplace
  <2> QED
    BY <2>4 DEF gs, fs, Drop
<1>4. UNCHANGED <<grammar, cur, ran, at, pc, late, jumped, st>>
  BY DEF Drop, quiet
<1>5. IndexShape' /\ index'.intersects = index.intersects
  BY <1>4 DEF PassInv, IndexShape, Drop, Numbers
<1>6. StateShape'
  BY <1>4 DEF PassInv, StateShape
<1> QED
  BY <1>1, <1>3, <1>4, <1>5, <1>6, QuietLoopStep

LEMMA PopStep == PassInv /\ Pop => LoopStep
<1> SUFFICES ASSUME PassInv, Pop
             PROVE  LoopStep
  OBVIOUS
<1>1. pc = "cohort" /\ frames # <<>> /\ frames' = Front(frames)
  BY DEF Pop, Looping
<1>2. LoopsBelow(frames', cur)
  BY <1>1, LoopsPop DEF PassInv, Running
<1>3. UNCHANGED <<grammar, cur, ran, at, pc, index, late, jumped, st>>
  BY DEF Pop, quiet
<1>4. StateShape' /\ IndexShape'
  BY <1>3, SameIndex DEF PassInv, StateShape
<1> QED
  BY <1>1, <1>2, <1>3, <1>4, QuietLoopStep

LEMMA FireChangeStep == PassInv /\ FireChange => LoopStep
<1> SUFFICES ASSUME PassInv, FireChange
             PROVE  LoopStep
  OBVIOUS
<1>1. pc = "cohort" /\ Looping
  BY DEF FireChange, Fires, Ready, Looping
<1>2. LoopsBelow(frames', cur)
  BY <1>1, SteppedLoops DEF FireChange, Goes
<1>3. UNCHANGED <<grammar, cur, ran, at, pc, index, late, jumped>>
  BY DEF FireChange, Fires
<1>4. StateShape' /\ st'.iter_val = st.iter_val /\ st'.should_repeat = st.should_repeat
  BY DEF PassInv, StateShape, FireChange
<1> QED
  BY <1>1, <1>2, <1>3, <1>4, SameIndex, QuietLoopStep

\* The rules that become valid behind the cursor are remembered in late.
LEMMA FireTagStep == PassInv /\ FireTag => LoopStep
<1> SUFFICES ASSUME PassInv, FireTag
             PROVE  LoopStep
  OBVIOUS
<1>1. pc = "cohort" /\ Looping /\ frames # <<>>
  BY DEF FireTag, Fires, Ready, Looping
<1>2. PICK full \in BOOLEAN :
        LET x == Taught(TheCohort, full)
        IN  /\ index' = x.index /\ late' = Behind(x.index)
            /\ frames' = [x.frames EXCEPT ![Len(frames)].rocit = @ + 1,
                             ![Len(frames)].seen = @ \cup {TheCohort},
                             ![Len(frames)].at = TheCohort]
            /\ st' = [st EXCEPT !.readings_changed = TRUE,
                                !.iter_val = IF x.index.intersects = index.intersects THEN @
                                             ELSE Top.rule]
  BY DEF FireTag, Goes
<1>3. LoopsBelow(frames', cur)
  BY <1>1, <1>2, TaughtLoops
<1>4. UNCHANGED <<grammar, cur, ran, at, pc, jumped>>
  BY DEF FireTag, Fires
<1>5. Top.rule \in Numbers /\ Top.rule <= cur /\ TheRule.teaches \subseteq Numbers
  BY <1>1, TopLoop
<1>6. /\ DOMAIN index' = {"sets", "valid", "intersects"}
      /\ index'.intersects \subseteq index.intersects \cup Numbers
  BY <1>2 DEF Taught
<1>7. IndexShape'
  BY <1>4, <1>6 DEF PassInv, IndexShape, Numbers
<1>8. /\ StateShape' /\ st'.should_repeat = st.should_repeat
      /\ st'.iter_val = st.iter_val \/ st'.iter_val = Top.rule
  BY <1>2 DEF PassInv, StateShape
<1>9. st'.iter_val \in Numbers /\ (~jumped => ~st'.should_repeat /\ st'.iter_val <= cur)
  BY <1>1, <1>5, <1>8 DEF PassInv, Running
<1>10. late' = late \cup {r \in index'.intersects \ index.intersects : r <= cur}
  BY <1>2 DEF Behind
<1> QED
  BY <1>1, <1>3, <1>4, <1>7, <1>8, <1>9, <1>10 DEF LoopStep

LEMMA TakeOutStep ==
  ASSUME PassInv, Looping, NEW S, TakeOut(S), UNCHANGED <<grammar, at, cur, ran>>
  PROVE  LoopStep
<1>1. pc = "cohort"
  BY DEF Looping
<1>2. LoopsBelow(Stepped, cur)
  BY SteppedLoops
<1>3. \E v, w : frames' = [Stepped EXCEPT ![Len(Stepped)].nested = v, ![Len(Stepped)].rocit = w]
  BY DEF TakeOut, Reseat
<1>4. LoopsBelow(frames', cur)
  <2> DEFINE fs == Stepped
  <2>1. PICK v, w : frames' = [fs EXCEPT ![Len(fs)].nested = v, ![Len(fs)].rocit = w]
    BY <1>3
  <2>2. LoopsBelow(fs, cur)
    BY <1>2
  <2> HIDE DEF fs
  <2> QED
    BY <2>1, <2>2, ReseatedLoops
<1>5. UNCHANGED <<late, jumped, pc>>
  BY DEF TakeOut
<1>6. IndexShape' /\ index'.intersects = index.intersects
  BY DEF PassInv, IndexShape, TakeOut, Erased, Numbers
<1>7. StateShape' /\ st'.iter_val = st.iter_val /\ st'.should_repeat = st.should_repeat
  BY DEF PassInv, StateShape, TakeOut
<1> QED
  BY <1>1, <1>4, <1>5, <1>6, <1>7, QuietLoopStep

LEMMA FireRemovalStep == PassInv /\ (FireRemCohort \/ FireRemTree) => LoopStep
BY TakeOutStep DEF FireRemCohort, FireRemTree, Fires, Ready

LEMMA FireAddCohortStep == PassInv /\ FireAddCohort => LoopStep
<1> SUFFICES ASSUME PassInv, FireAddCohort
             PROVE  LoopStep
  OBVIOUS
<1>1. pc = "cohort" /\ Looping
  BY DEF FireAddCohort, Fires, Ready, Looping
<1>2. PICK cs, can, nums :
        /\ index' = Reindexed(cs, can).index
        /\ Reseat([Reindexed(cs, can).frames EXCEPT ![Len(frames)].at = TheCohort,
                                                    ![Len(frames)].seen = @ \cup {TheCohort}],
                  Reindexed(cs, can).index, cs, nums, TheCohort)
  BY DEF FireAddCohort
<1>3. LoopsBelow(frames', cur)
  <2> DEFINE fs == [Reindexed(cs, can).frames EXCEPT ![Len(frames)].at = TheCohort,
                                                     ![Len(frames)].seen = @ \cup {TheCohort}]
  <2>1. LoopsBelow(fs, cur)
    BY <1>1, ReindexedLoops, MarkedLoops
  <2>2. PICK v, w : frames' = [fs EXCEPT ![Len(fs)].nested = v, ![Len(fs)].rocit = w]
    BY <1>2 DEF Reseat
  <2> HIDE DEF fs
  <2> QED
    BY <2>1, <2>2, ReseatedLoops
<1>4. UNCHANGED <<grammar, at, cur, ran, late, jumped, pc>>
  BY DEF FireAddCohort, Fires
<1>5. IndexShape' /\ index'.intersects = index.intersects
  BY <1>2, <1>4 DEF PassInv, IndexShape, Reindexed, Numbers
<1>6. StateShape' /\ st'.iter_val = st.iter_val /\ st'.should_repeat = st.should_repeat
  BY DEF PassInv, StateShape, FireAddCohort
<1> QED
  BY <1>1, <1>3, <1>4, <1>5, <1>6, QuietLoopStep

\* EXTERNAL finds the valid rules anew: the new ones behind the cursor are late.
LEMMA FireExternalStep == PassInv /\ FireExternal => LoopStep
<1> SUFFICES ASSUME PassInv, FireExternal
             PROVE  LoopStep
  OBVIOUS
<1> DEFINE x == Reindexed(cohorts, possible)
           idx == [x.index EXCEPT !.intersects = x.index.valid \cap st.rules]
<1>1. pc = "cohort" /\ Looping /\ frames # <<>>
  BY DEF FireExternal, Fires, Ready, Looping
<1>2. /\ index' = idx /\ late' = Behind(idx)
      /\ st' = [st EXCEPT !.readings_changed = TRUE,
                          !.iter_val = IF Top.rule \in idx.intersects THEN Top.rule ELSE @]
      /\ Reseat([x.frames EXCEPT ![Len(frames)].at = TheCohort,
                                 ![Len(frames)].seen = @ \cup {TheCohort}],
                idx, cohorts, number, TheCohort)
  BY DEF FireExternal
<1>3. LoopsBelow(frames', cur)
  <2> DEFINE fs == [x.frames EXCEPT ![Len(frames)].at = TheCohort,
                                    ![Len(frames)].seen = @ \cup {TheCohort}]
  <2>1. LoopsBelow(fs, cur)
    BY <1>1, ReindexedLoops, MarkedLoops
  <2>2. PICK v, w : frames' = [fs EXCEPT ![Len(fs)].nested = v, ![Len(fs)].rocit = w]
    BY <1>2 DEF Reseat
  <2> HIDE DEF fs
  <2> QED
    BY <2>1, <2>2, ReseatedLoops
<1>4. UNCHANGED <<grammar, at, cur, ran, jumped, pc>>
  BY DEF FireExternal, Fires
<1>5. {"sets", "valid", "intersects"} \subseteq DOMAIN idx /\ idx.intersects \subseteq Numbers
  BY DEF PassInv, IndexShape, Reindexed
<1>6. IndexShape'
  BY <1>2, <1>4, <1>5 DEF IndexShape, Numbers
<1>7. Top.rule \in Numbers /\ Top.rule <= cur
  BY <1>1, TopLoop
<1>8. late' = late \cup {r \in index'.intersects \ index.intersects : r <= cur}
  BY <1>2 DEF Behind
<1> HIDE DEF idx
<1>9. /\ StateShape' /\ st'.should_repeat = st.should_repeat
      /\ st'.iter_val = st.iter_val \/ st'.iter_val = Top.rule
  BY <1>2 DEF PassInv, StateShape
<1>10. st'.iter_val \in Numbers /\ (~jumped => ~st'.should_repeat /\ st'.iter_val <= cur)
  BY <1>1, <1>7, <1>9 DEF PassInv, Running
<1> QED
  BY <1>1, <1>3, <1>4, <1>6, <1>8, <1>9, <1>10 DEF LoopStep

\* A JUMP goes to one of the rules valid now, or nowhere.
LEMMA FireJumpStep == PassInv /\ FireJump => LoopStep
<1> SUFFICES ASSUME PassInv, FireJump
             PROVE  LoopStep
  OBVIOUS
<1> DEFINE ahead == {r \in index.intersects : r >= TheRule.dest}
<1>1. pc = "cohort" /\ frames # <<>> /\ frames' = Front(frames)
  BY DEF FireJump, Fires, Ready, Looping, Leave
<1>2. LoopsBelow(frames', cur)
  BY <1>1, LoopsPop DEF PassInv, Running
<1>3. UNCHANGED <<grammar, cur, ran, at, pc, index, late>> /\ jumped'
  BY DEF FireJump, Fires
<1>4. IndexShape'
  BY <1>3, SameIndex
<1>5. index.intersects \subseteq Numbers /\ Numbers \subseteq Nat
  BY GrammarShape DEF PassInv, IndexShape, Numbers
<1>6. ahead # {} => SmallestOf(ahead) \in Numbers
  BY <1>5, SmallestIsLeast
<1>7. st' = [st EXCEPT !.should_repeat = TRUE,
                       !.iter_val = IF ahead = {} THEN @ ELSE SmallestOf(ahead)]
  BY DEF FireJump
<1> HIDE DEF ahead
<1>8. StateShape' /\ st'.iter_val \in Numbers
  BY <1>1, <1>6, <1>7 DEF PassInv, StateShape, Running
<1> QED
  BY <1>1, <1>2, <1>3, <1>4, <1>8 DEF LoopStep

LEMMA FireDelimitStep == PassInv /\ FireDelimit => LoopStep
<1> SUFFICES ASSUME PassInv, FireDelimit
             PROVE  LoopStep
  OBVIOUS
<1>1. pc = "cohort" /\ Looping
  BY DEF FireDelimit, Fires, Ready, Looping
<1>2. LoopsBelow(frames', cur)
  BY <1>1, SteppedLoops DEF FireDelimit, Goes
<1>3. UNCHANGED <<grammar, cur, ran, at, pc, index, late, jumped>>
  BY DEF FireDelimit, Fires
<1>4. StateShape' /\ st'.iter_val = st.iter_val /\ st'.should_repeat = st.should_repeat
  BY DEF PassInv, StateShape, FireDelimit
<1> QED
  BY <1>1, <1>2, <1>3, <1>4, SameIndex, QuietLoopStep

LEMMA FireMoveStep == PassInv /\ FireMove => LoopStep
<1> SUFFICES ASSUME PassInv, FireMove
             PROVE  LoopStep
  OBVIOUS
<1>1. pc = "cohort" /\ Looping /\ frames # <<>>
  BY DEF FireMove, Fires, Ready, Looping
<1>2. frames' = Front(frames) \/ frames' = Stepped
  BY DEF FireMove, Goes, Leave
<1>3. LoopsBelow(frames', cur)
  BY <1>1, <1>2, SteppedLoops, LoopsPop DEF PassInv, Running
<1>4. UNCHANGED <<grammar, cur, ran, at, pc, index, late, jumped>>
  BY DEF FireMove, Fires
<1>5. \/ st' = [st EXCEPT !.should_bail = TRUE]
      \/ st' = [st EXCEPT !.readings_changed = TRUE, !.do_sort = TRUE]
  BY DEF FireMove
<1>6. StateShape' /\ st'.iter_val = st.iter_val /\ st'.should_repeat = st.should_repeat
  BY <1>5 DEF PassInv, StateShape
<1> QED
  BY <1>1, <1>3, <1>4, <1>6, SameIndex, QuietLoopStep

LEMMA FireWordformStep == PassInv /\ FireWordform => LoopStep
<1> SUFFICES ASSUME PassInv, FireWordform
             PROVE  LoopStep
  OBVIOUS
<1>1. pc = "cohort" /\ Looping /\ frames # <<>>
  BY DEF FireWordform, Fires, Ready, Looping
<1>2. LoopsBelow(frames', cur)
  BY <1>1, SteppedLoops DEF FireWordform, Goes
<1>3. UNCHANGED <<grammar, cur, ran, at, pc, jumped>>
  BY DEF FireWordform, Fires
<1>4. Top.rule \in Numbers /\ Top.rule <= cur /\ TheRule.teaches \subseteq Numbers
  BY <1>1, TopLoop
<1>5. late' = late \cup {r \in index'.intersects \ index.intersects : r <= cur}
  BY DEF FireWordform, Behind
<1>6. IndexShape'
  BY <1>3, <1>4 DEF PassInv, IndexShape, FireWordform, Numbers
<1>7. StateShape' /\ st'.iter_val = Top.rule /\ st'.should_repeat = st.should_repeat
  BY DEF PassInv, StateShape, FireWordform
<1>8. ~jumped => ~st'.should_repeat /\ st'.iter_val <= cur
  BY <1>1, <1>4, <1>7 DEF PassInv, Running
<1> QED
  BY <1>1, <1>2, <1>3, <1>4, <1>5, <1>6, <1>7, <1>8 DEF LoopStep

\* The call of a rule of a WITH, with the loop of the WITH marked.
LEMMA CallsLoops ==
  ASSUME NEW n \in Nat, NEW fs, LoopsBelow(fs, n), NEW i \in DOMAIN fs, NEW k \in Nat, NEW v,
         NEW r \in 1 .. n, NEW isNested, NEW set
  PROVE  LoopsBelow(Append([fs EXCEPT ![i].subs = k, ![i].any = v], Frame(r, isNested, set)), n)
<1> DEFINE gs == [fs EXCEPT ![i].subs = k, ![i].any = v]
<1>1. DOMAIN gs = DOMAIN fs /\ gs = [j \in DOMAIN fs |-> gs[j]]
  OBVIOUS
<1>2. \A j \in DOMAIN fs : IsLoop(gs[j], n)
  BY DEF LoopsBelow, IsLoop
<1> HIDE DEF gs
<1>3. LoopsBelow(gs, n)
  BY <1>1, <1>2, LoopsReplace
<1>4. IsLoop(Frame(r, isNested, set), n)
  BY DEF IsLoop, Frame
<1>5. LoopsBelow(Append(gs, Frame(r, isNested, set)), n)
  BY <1>3, <1>4, LoopsPush
<1> QED
  BY <1>5 DEF gs

LEMMA FireWithStep == PassInv /\ FireWith => LoopStep
<1> SUFFICES ASSUME PassInv, FireWith
             PROVE  LoopStep
  OBVIOUS
<1>1. pc = "cohort" /\ Looping /\ frames # <<>>
  BY DEF FireWith, Fires, Ready, Looping
<1>2. /\ cur \in Nat /\ Len(frames) \in DOMAIN frames /\ TheRule.subs \in Seq(Nat)
      /\ \A i \in 1 .. Len(TheRule.subs) : TheRule.subs[i] \in 1 .. cur
  BY <1>1, TopLoop
<1>3. TheRule.subs[1] \in 1 .. cur
  BY <1>2, EmptySeq DEF FireWith
<1>4. PICK isNested, set :
        frames' = Append([Stepped EXCEPT ![Len(frames)].subs = 1, ![Len(frames)].any = FALSE],
                         Frame(TheRule.subs[1], isNested, set))
  BY DEF FireWith, Calls
<1>5. LoopsBelow(frames', cur)
  <2> DEFINE fs == Stepped
  <2>1. LoopsBelow(fs, cur) /\ Len(frames) \in DOMAIN fs
    BY <1>1, <1>2, SteppedLoops
  <2>2. frames' = Append([fs EXCEPT ![Len(frames)].subs = 1, ![Len(frames)].any = FALSE],
                         Frame(TheRule.subs[1], isNested, set))
    BY <1>4
  <2> HIDE DEF fs
  <2> QED
    BY <1>2, <1>3, <2>1, <2>2, CallsLoops
<1>6. UNCHANGED <<grammar, cur, ran, at, pc, index, late, jumped>>
  BY DEF FireWith, Fires
<1>7. StateShape' /\ st'.iter_val = st.iter_val /\ st'.should_repeat = st.should_repeat
  BY DEF PassInv, StateShape, FireWith
<1> QED
  BY <1>1, <1>5, <1>6, <1>7, SameIndex, QuietLoopStep

LEMMA NextSubStep == PassInv /\ NextSub => LoopStep
<1> SUFFICES ASSUME PassInv, NextSub
             PROVE  LoopStep
  OBVIOUS
<1>1. pc = "cohort" /\ frames # <<>> /\ Top.subs # 0
  BY DEF NextSub
<1>2. /\ cur \in Nat /\ Len(frames) \in DOMAIN frames /\ IsLoop(Top, cur)
      /\ \A i \in 1 .. Len(TheRule.subs) : TheRule.subs[i] \in 1 .. cur
  BY <1>1, TopLoop
<1>3. PICK next \in {Top.subs, Top.subs + 1} :
        /\ next <= Len(TheRule.subs)
        /\ \E v, isNested, set :
             frames' = Append([frames EXCEPT ![Len(frames)].subs = next, ![Len(frames)].any = v],
                              Frame(TheRule.subs[next], isNested, set))
  <2> DEFINE again == st.readings_changed /\ "repeat" \in grammar[TheRule.subs[Top.subs]].flags
             step == IF again THEN Top.subs ELSE Top.subs + 1
  <2>1. step \in {Top.subs, Top.subs + 1}
    OBVIOUS
  <2>2. /\ step <= Len(TheRule.subs)
        /\ \E contexts \in SomeContexts :
             Calls([frames EXCEPT ![Len(frames)].subs = step,
                                  ![Len(frames)].any = @ \/ st.readings_changed],
                   TheRule.subs[step], contexts)
    BY DEF NextSub
  <2> HIDE DEF step
  <2>3. PICK v : v = ([frames EXCEPT ![Len(frames)].subs = step][Len(frames)].any \/ st.readings_changed)
    OBVIOUS
  <2>4. [frames EXCEPT ![Len(frames)].subs = step, ![Len(frames)].any = @ \/ st.readings_changed]
        = [frames EXCEPT ![Len(frames)].subs = step, ![Len(frames)].any = v]
    BY <2>3
  <2>5. PICK isNested, set :
          frames' = Append([frames EXCEPT ![Len(frames)].subs = step, ![Len(frames)].any = v],
                           Frame(TheRule.subs[step], isNested, set))
    BY <2>2, <2>4 DEF Calls
  <2> QED
    BY <2>1, <2>2, <2>5
<1>4. next \in 1 .. Len(TheRule.subs) /\ next \in Nat
  BY <1>1, <1>2, <1>3 DEF IsLoop
<1>5. LoopsBelow(frames', cur)
  <2>1. PICK v, isNested, set :
          frames' = Append([frames EXCEPT ![Len(frames)].subs = next, ![Len(frames)].any = v],
                           Frame(TheRule.subs[next], isNested, set))
    BY <1>3
  <2> QED
    BY <1>1, <1>2, <1>4, <2>1, CallsLoops DEF PassInv, Running
<1>6. UNCHANGED <<grammar, cur, ran, at, pc, index, late, jumped>>
  BY DEF NextSub, quiet
<1>7. StateShape' /\ st'.iter_val = st.iter_val /\ st'.should_repeat = st.should_repeat
  BY DEF PassInv, StateShape, NextSub
<1> QED
  BY <1>1, <1>5, <1>6, <1>7, SameIndex, QuietLoopStep

LEMMA EndWithStep == PassInv /\ EndWith => LoopStep
<1> SUFFICES ASSUME PassInv, EndWith
             PROVE  LoopStep
  OBVIOUS
<1> DEFINE fs == [frames EXCEPT ![Len(frames)].subs = 0]
<1>1. pc = "cohort" /\ frames # <<>>
  BY DEF EndWith
<1>2. LoopsBelow(frames, cur)
  BY <1>1 DEF PassInv, Running
<1>3. LoopsBelow(fs, cur)
  <2>1. DOMAIN fs = DOMAIN frames /\ fs = [j \in DOMAIN frames |-> fs[j]]
    OBVIOUS
  <2>2. \A j \in DOMAIN frames : IsLoop(fs[j], cur)
    BY <1>2 DEF LoopsBelow, IsLoop
  <2> HIDE DEF fs
  <2> QED
    BY <1>2, <2>1, <2>2, LoopsReplace
<1>4. \/ frames' = Front(frames) \/ frames' = fs
      \/ \E v, w : frames' = [fs EXCEPT ![Len(fs)].nested = v, ![Len(fs)].rocit = w]
  BY DEF EndWith
<1> HIDE DEF fs
<1>5. LoopsBelow(frames', cur)
  <2>1. CASE frames' = Front(frames)
    BY <1>1, <1>2, <2>1, LoopsPop
  <2>2. CASE frames' = fs
    BY <1>3, <2>2
  <2>3. ASSUME NEW v, NEW w, frames' = [fs EXCEPT ![Len(fs)].nested = v, ![Len(fs)].rocit = w]
        PROVE  LoopsBelow(frames', cur)
    BY <1>3, <2>3, ReseatedLoops
  <2> QED
    BY <1>4, <2>1, <2>2, <2>3
<1>6. UNCHANGED <<grammar, cur, ran, at, pc, index, late, jumped>>
  BY DEF EndWith, quiet
<1>7. StateShape' /\ st'.iter_val = st.iter_val /\ st'.should_repeat = st.should_repeat
  BY DEF PassInv, StateShape, EndWith
<1> QED
  BY <1>1, <1>5, <1>6, <1>7, SameIndex, QuietLoopStep

-----------------------------------------------------------------------------
(* The steps of the cursor.                                                *)

\* Where the cursor goes from n: every valid rule it leaves behind is not beyond n.
LEMMA TurnPastStep ==
  ASSUME NEW n \in Nat, NEW rules, rules \subseteq Nat, Turn(NextAfter(n, rules))
  PROVE  \/ pc' = "passed" /\ cur' = 0 /\ \A r \in rules : r <= n
         \/ pc' = "rule" /\ cur' \in rules /\ \A r \in rules : r < cur' => r <= n
<1> DEFINE S == NextAfter(n, rules)
<1>1. S \subseteq Nat /\ S \subseteq rules
  BY DEF NextAfter
<1>2. ASSUME NEW r \in rules
      PROVE  r \in Nat /\ (r \in S \/ r <= n)
  <2>1. r \in Nat
    OBVIOUS
  <2> QED
    BY <2>1 DEF NextAfter
<1>3. CASE S = {}
  BY <1>2, <1>3 DEF Turn
<1>4. CASE S # {}
  <2>1. SmallestOf(S) \in S /\ \A m \in S : SmallestOf(S) <= m
    BY <1>1, <1>4, SmallestIsLeast
  <2>2. pc' = "rule" /\ cur' = SmallestOf(S)
    BY <1>4 DEF Turn
  <2> HIDE DEF S
  <2>3. cur' \in Nat /\ cur' \in rules /\ \A m \in S : m \in Nat /\ cur' <= m
    BY <1>1, <2>1, <2>2
  <2>4. ASSUME NEW r \in rules, r < cur'
        PROVE  r <= n
    BY <1>2, <2>3, <2>4
  <2> QED
    BY <2>2, <2>3, <2>4
<1> QED
  BY <1>3, <1>4

\* Both outcomes keep the invariant when the rules up to n have had their turn.
LEMMA TurnStep ==
  ASSUME PassInv, NEW n \in Nat, Turn(NextAfter(n, index.intersects)),
         IndexShape', StateShape', AtShape', grammar' = grammar,
         index'.intersects = index.intersects, jumped' = jumped,
         ~jumped => \A r \in index.intersects : r <= n => r \in ran' \cup late'
  PROVE  PassInv'
<1>1. index.intersects \subseteq Numbers /\ Numbers \subseteq Nat
  BY GrammarShape DEF PassInv, IndexShape, Numbers
<1>2. \/ pc' = "passed" /\ cur' = 0 /\ \A r \in index.intersects : r <= n
      \/ /\ pc' = "rule" /\ cur' \in index.intersects
         /\ \A r \in index.intersects : r < cur' => r <= n
  BY <1>1, TurnPastStep
<1>3. pc' # "cohort" /\ (pc' = "rule" => cur' \in Numbers')
  BY <1>1, <1>2 DEF Numbers
<1>4. ~jumped' /\ pc' = "rule" => Behindhand'
  BY <1>2 DEF Behindhand
<1>5. PassCoversRules'
  BY <1>2 DEF PassCoversRules
<1>6. grammar' \in Grammars
  BY DEF PassInv
<1> QED
  BY <1>3, <1>4, <1>5, <1>6 DEF PassInv

LEMMA SkipRuleStep == PassInv /\ SkipRule => PassInv'
<1> SUFFICES ASSUME PassInv, SkipRule
             PROVE  PassInv'
  OBVIOUS
<1>1. cur \in Nat
  BY GrammarShape DEF PassInv, SkipRule, Numbers
<1>2. /\ Turn(NextAfter(cur, index.intersects)) /\ ran' = ran \cup {cur}
      /\ UNCHANGED <<grammar, index, st, at, late, jumped>>
  BY DEF SkipRule, UNCHANGED_window
<1>3. IndexShape' /\ StateShape' /\ AtShape'
  BY <1>2, SameIndex DEF PassInv, StateShape, AtShape
<1>4. index.intersects \subseteq Nat
  BY GrammarShape DEF PassInv, IndexShape, Numbers
<1>5. ~jumped => \A r \in index.intersects : r <= cur => r \in ran' \cup late'
  BY <1>1, <1>2, <1>4 DEF PassInv, Behindhand, SkipRule
<1> QED
  BY <1>1, <1>2, <1>3, <1>5, TurnStep

LEMMA StartRuleStep == PassInv /\ StartRule => PassInv'
<1> SUFFICES ASSUME PassInv, StartRule
             PROVE  PassInv'
  OBVIOUS
<1>1. cur \in Numbers /\ cur \in Nat /\ (~jumped => Behindhand)
  BY GrammarShape DEF PassInv, StartRule, Numbers
<1>2. /\ pc' = "cohort" /\ ran' = ran \cup {cur}
      /\ UNCHANGED <<grammar, index, at, late, jumped, cur>>
  BY DEF StartRule, UNCHANGED_window
<1>3. IndexShape' /\ AtShape' /\ grammar' \in Grammars
  BY <1>2, SameIndex DEF PassInv, AtShape
<1>4. StateShape' /\ st'.iter_val = cur /\ ~st'.should_repeat
  BY DEF PassInv, StateShape, StartRule
<1>5. LoopsBelow(frames', cur)
  <2>1. frames' = <<Frame(cur, loop.in_nested, index.sets[cur])>>
    BY DEF StartRule
  <2>2. IsLoop(Frame(cur, loop.in_nested, index.sets[cur]), cur)
    BY <1>1, GrammarShape DEF IsLoop, Frame, PassInv, Numbers
  <2>3. frames' = [i \in 1 .. 1 |-> frames'[i]] /\ DOMAIN frames' = 1 .. 1
    BY <2>1
  <2>4. \A i \in 1 .. 1 : IsLoop(frames'[i], cur)
    BY <2>1, <2>2
  <2> HIDE DEF StartRule
  <2> QED
    BY <2>3, <2>4, LoopsFrom
<1>6. Running'
  BY <1>1, <1>2, <1>4, <1>5 DEF Running, Numbers
<1>7. ~jumped' => Behindhand'
  BY <1>1, <1>2 DEF Behindhand
<1>8. cur' \in Numbers' /\ PassCoversRules'
  BY <1>1, <1>2 DEF Numbers, PassCoversRules
<1> QED
  BY <1>2, <1>3, <1>4, <1>6, <1>7, <1>8 DEF PassInv

\* The rule just run had its turn, and without a JUMP the cursor goes on from it
\* or from a rule before it.
LEMMA EndRuleStep == PassInv /\ EndRule => PassInv'
<1> SUFFICES ASSUME PassInv, EndRule
             PROVE  PassInv'
  OBVIOUS
<1> DEFINE goes == IF st.readings_changed /\ ~st.should_bail THEN cur ELSE st.iter_val
<1>1. /\ cur \in Numbers /\ cur \in Nat /\ cur \in ran /\ (~jumped => Behindhand)
      /\ st.iter_val \in Numbers /\ st.iter_val \in Nat
      /\ (~jumped => ~st.should_repeat /\ st.iter_val <= cur)
  BY GrammarShape DEF PassInv, Running, EndRule, Numbers
<1>2. UNCHANGED <<grammar, late, ran, jumped>>
  BY DEF EndRule, UNCHANGED_window
<1>3. PICK did, traced :
        /\ at' = [at EXCEPT !.something = did, !.result = IF traced THEN "traced" ELSE @]
        /\ \/ st.should_repeat /\ pc' = "rule" /\ cur' = st.iter_val /\ UNCHANGED <<index, st>>
           \/ pc' = "rule" /\ UNCHANGED <<index, st, cur>>
           \/ /\ index' = SortedSets /\ st' = [st EXCEPT !.do_sort = FALSE, !.iter_val = goes]
              /\ IF (~st.should_bail /\ st.delimited) \/ traced THEN pc' = "passed" /\ cur' = 0
                 ELSE Turn(NextAfter(goes, index.intersects))
  BY DEF EndRule
<1>4. AtShape' /\ (traced => at'.result = "traced")
  BY <1>3 DEF PassInv, AtShape
<1>5. grammar' \in Grammars
  BY <1>2 DEF PassInv
<1>6. CASE /\ pc' = "rule" /\ UNCHANGED <<index, st>>
           /\ \/ st.should_repeat /\ cur' = st.iter_val
              \/ UNCHANGED cur
  <2>1. IndexShape' /\ StateShape'
    BY <1>2, <1>6, SameIndex DEF PassInv, StateShape
  <2>2. cur' \in Numbers'
    BY <1>1, <1>2, <1>6 DEF Numbers
  <2>3. ~jumped' => Behindhand'
    BY <1>1, <1>2, <1>6 DEF Behindhand
  <2> QED
    BY <1>4, <1>5, <1>6, <2>1, <2>2, <2>3 DEF PassInv, PassCoversRules
<1>7. CASE /\ index' = SortedSets /\ st' = [st EXCEPT !.do_sort = FALSE, !.iter_val = goes]
           /\ IF (~st.should_bail /\ st.delimited) \/ traced THEN pc' = "passed" /\ cur' = 0
              ELSE Turn(NextAfter(goes, index.intersects))
  <2>1. IndexShape' /\ index'.intersects = index.intersects
    BY <1>2, <1>7 DEF PassInv, IndexShape, SortedSets, Numbers
  <2>2. StateShape' /\ st'.delimited = st.delimited
    BY <1>7 DEF PassInv, StateShape
  <2>3. CASE (~st.should_bail /\ st.delimited) \/ traced
    <3>1. pc' = "passed" /\ (st'.delimited \/ at'.result = "traced")
      BY <1>4, <1>7, <2>2, <2>3
    <3> QED
      BY <1>4, <1>5, <2>1, <2>2, <3>1 DEF PassInv, PassCoversRules
  <2>4. CASE ~((~st.should_bail /\ st.delimited) \/ traced)
    <3>1. Turn(NextAfter(goes, index.intersects))
      BY <1>7, <2>4
    <3>2. goes \in Nat /\ (~jumped => goes <= cur)
      BY <1>1
    <3> HIDE DEF goes
    <3>3. index.intersects \subseteq Nat
      BY GrammarShape DEF PassInv, IndexShape, Numbers
    <3>4. ASSUME ~jumped, NEW r \in index.intersects, r <= goes
          PROVE  r \in ran' \cup late'
      <4>1. r \in Nat /\ r <= cur
        BY <1>1, <3>2, <3>3, <3>4
      <4>2. r < cur \/ r = cur
        BY <1>1, <4>1
      <4> QED
        BY <1>1, <1>2, <3>4, <4>2 DEF Behindhand
    <3> QED
      BY <1>2, <1>4, <2>1, <2>2, <3>1, <3>2, <3>4, TurnStep
  <2> QED
    BY <2>3, <2>4
<1> HIDE DEF goes
<1> QED
  BY <1>3, <1>6, <1>7

LEMMA BeginPassStep == PassInv /\ BeginPass => PassInv'
<1> SUFFICES ASSUME PassInv, BeginPass
             PROVE  PassInv'
  OBVIOUS
<1> DEFINE rules == SectionRules(at.section)
           S == index.valid \cap rules
<1>1. rules \subseteq Numbers /\ Numbers \subseteq Nat
  BY GrammarShape DEF SectionRules, PassInv, Numbers
<1>2. /\ st' = RuleState(rules) /\ index' = [index EXCEPT !.intersects = S] /\ Turn(S)
      /\ at' = [at EXCEPT !.something = FALSE]
      /\ grammar' = grammar
  BY DEF BeginPass, UNCHANGED_window
<1>3. AtShape'
  BY <1>2 DEF PassInv, AtShape
<1>4. StateShape'
  BY <1>2 DEF StateShape, RuleState
<1> HIDE DEF rules
<1>5. IndexShape' /\ index'.intersects = S
  BY <1>1, <1>2 DEF PassInv, IndexShape, Numbers
<1>6. grammar' \in Grammars
  BY <1>2 DEF PassInv
<1>7. S \subseteq Nat /\ S \subseteq Numbers
  BY <1>1
<1> HIDE DEF S
<1>8. CASE S = {}
  BY <1>2, <1>3, <1>4, <1>5, <1>6, <1>8 DEF PassInv, PassCoversRules, Turn
<1>9. CASE S # {}
  <2>1. pc' = "rule" /\ cur' \in S /\ \A r \in S : cur' <= r
    BY <1>2, <1>7, <1>9, SmallestIsLeast DEF Turn
  <2>2. cur' \in Numbers'
    BY <1>2, <1>7, <2>1 DEF Numbers
  <2>3. \A r \in S : ~ (r < cur')
    BY <1>7, <2>1
  <2>4. Behindhand'
    BY <1>5, <2>3 DEF Behindhand
  <2> QED
    BY <1>3, <1>4, <1>5, <1>6, <2>1, <2>2, <2>4 DEF PassInv, PassCoversRules
<1> QED
  BY <1>8, <1>9

LEMMA SectionStep == PassInv /\ (SectionUsedUp \/ EndPass \/ EndSections) => PassInv'
<1> SUFFICES ASSUME PassInv, SectionUsedUp \/ EndPass \/ EndSections
             PROVE  PassInv'
  OBVIOUS
<1>1. UNCHANGED <<grammar, index, st>> /\ pc' \notin {"rule", "cohort", "passed"}
  BY DEF SectionUsedUp, EndPass, EndSections, UNCHANGED_window
<1>2. AtShape'
  BY DEF PassInv, AtShape, SectionUsedUp, EndPass, EndSections, NextSection, AfterPass
<1>3. IndexShape' /\ StateShape' /\ grammar' \in Grammars
  BY <1>1, SameIndex DEF PassInv, StateShape
<1> QED
  BY <1>1, <1>2, <1>3 DEF PassInv, PassCoversRules

-----------------------------------------------------------------------------
(* The theorem.                                                            *)

LEMMA PassInvInit == Init => PassInv
<1> SUFFICES ASSUME Init
             PROVE  PassInv
  OBVIOUS
<1>1. /\ grammar \in Grammars /\ pc = "section" /\ st = RuleState({})
      /\ index = [sets |-> [r \in Numbers |-> IF grammar[r].starts THEN cohorts ELSE <<>>],
                  valid |-> {r \in Numbers : grammar[r].starts}, intersects |-> {}]
      /\ at = [section |-> 0, pass |-> 0, counter |-> [s \in 1 .. 2 |-> 0],
               something |-> FALSE, result |-> "none"]
  BY DEF Init
<1>2. IndexShape /\ StateShape /\ AtShape
  BY <1>1 DEF IndexShape, StateShape, AtShape, RuleState
<1> QED
  BY <1>1, <1>2 DEF PassInv, PassCoversRules

LEMMA PassInvStep == PassInv /\ [Next]_vars => PassInv'
<1> SUFFICES ASSUME PassInv, [Next]_vars
             PROVE  PassInv'
  OBVIOUS
<1>1. CASE BeginPass
  BY <1>1, BeginPassStep
<1>2. CASE SectionUsedUp \/ EndPass \/ EndSections
  BY <1>2, SectionStep
<1>3. CASE SkipRule
  BY <1>3, SkipRuleStep
<1>4. CASE StartRule
  BY <1>4, StartRuleStep
<1>5. CASE EndRule
  BY <1>5, EndRuleStep
<1>6. CASE PassOver \/ Drop \/ Pop
  BY <1>6, PassOverStep, DropStep, PopStep, LoopStepKeeps
<1>7. CASE FireChange \/ FireTag \/ FireRemCohort \/ FireRemTree \/ FireAddCohort
  BY <1>7, FireChangeStep, FireTagStep, FireRemovalStep, FireAddCohortStep, LoopStepKeeps
<1>8. CASE FireExternal \/ FireJump \/ FireDelimit \/ FireMove \/ FireWordform
  BY <1>8, FireExternalStep, FireJumpStep, FireDelimitStep, FireMoveStep, FireWordformStep,
     LoopStepKeeps
<1>9. CASE FireWith \/ NextSub \/ EndWith
  BY <1>9, FireWithStep, NextSubStep, EndWithStep, LoopStepKeeps
<1>10. CASE Done \/ UNCHANGED vars
  <2>1. UNCHANGED vars
    BY <1>10 DEF Done
  <2>2. IndexShape' /\ StateShape' /\ AtShape' /\ PassCoversRules'
    BY <2>1, SameIndex DEF vars, PassInv, StateShape, AtShape, PassCoversRules
  <2>3. (Behindhand => Behindhand') /\ (Running => Running') /\ Numbers' = Numbers
    BY <2>1 DEF vars, Behindhand, Running, Numbers
  <2> QED
    BY <2>1, <2>2, <2>3 DEF vars, PassInv
<1> QED
  BY <1>1, <1>2, <1>3, <1>4, <1>5, <1>6, <1>7, <1>8, <1>9, <1>10 DEF Next

\* A pass over a section gives every rule that is valid its turn, for every
\* grammar: only a JUMP passes over rules (run_rules_on_single_window).
THEOREM PassCoversRulesHolds == Spec => []PassCoversRules
<1>1. PassInv => PassCoversRules
  BY DEF PassInv
<1> QED
  BY <1>1, PassInvInit, PassInvStep, PTL DEF Spec
===============================================================================
