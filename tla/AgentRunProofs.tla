--------------------------- MODULE AgentRunProofs ---------------------------
(***************************************************************************)
(* Inv of AgentRun is inductive: for any action lists, budgets, settings   *)
(* and number of calls and restores, success rests on an answer, executed  *)
(* work is recorded, step numbers are distinct and the controls hold.      *)
(***************************************************************************)
EXTENDS AgentRun, SequenceTheorems, WellFoundedInduction, TLAPS

-----------------------------------------------------------------------------
(* Largest and least of sets of numbers *)

\* A nonempty set of naturals has a least element (the order is well founded).
LEMMA NonemptyHasLeast ==
    ASSUME NEW T, T \subseteq Nat, T # {}
    PROVE  \E x \in T : \A y \in T : x <= y
<1> DEFINE R == {ss \in Nat \X Nat : ss[1] < ss[2]}
<1>0. IsWellFoundedOn(R, Nat)
  BY NatLessThanWellFounded, Zenon DEF OpToRel
<1>1. PICK x \in T : \A y \in T : ~(<<y, x>> \in R)
  <2> HIDE DEF R
  <2> QED BY <1>0, WFMin
<1>2. \A y \in T : ~(y < x)
  BY <1>1
<1> QED
  BY <1>2

\* A bounded nonempty set of naturals has its maximum in it.
LEMMA MaxOfBounded ==
    ASSUME NEW S, S \subseteq Nat, S # {}, NEW b \in Nat, \A x \in S : x <= b
    PROVE  Max(S) \in S /\ \A x \in S : x <= Max(S)
<1> DEFINE T == {n \in Nat : \A x \in S : x <= n}
<1>1. PICK m \in T : \A n \in T : m <= n
  <2>1. T \subseteq Nat /\ b \in T
    OBVIOUS
  <2> QED
    BY <2>1, NonemptyHasLeast
<1>2. m \in S
  <2>1. SUFFICES ASSUME m \notin S PROVE FALSE
    OBVIOUS
  <2>2. PICK s \in S : TRUE
    OBVIOUS
  <2>3. m \in Nat /\ \A x \in S : x \in Nat /\ x < m
    BY <1>1, <2>1
  <2>4. m - 1 \in T
    BY <2>2, <2>3
  <2> QED
    BY <1>1, <2>3, <2>4
<1>3. \A x \in S : m >= x
  BY <1>1
<1> QED
  BY <1>2, <1>3 DEF Max

\* The lesser of two numbers is one of them and above neither.
LEMMA MinOfTwo ==
    ASSUME NEW a \in Nat, NEW b \in Nat
    PROVE  /\ Min({a, b}) \in {a, b}
           /\ Min({a, b}) <= a /\ Min({a, b}) <= b
<1> DEFINE S == {a, b}
<1>1. \E x \in S : \A y \in S : x <= y
  <2>1. CASE a <= b
    BY <2>1
  <2>2. CASE ~(a <= b)
    BY <2>2
  <2> QED
    BY <2>1, <2>2
<1>2. Min(S) \in S /\ \A y \in S : Min(S) <= y
  BY <1>1 DEF Min
<1> QED
  BY <1>2

-----------------------------------------------------------------------------
(* The history and its largest step number *)

\* The latest step number of a history is at least that of each of its items.
LEMMA LatestOf ==
    ASSUME NEW items \in Seq(Items), NEW b \in Nat,
           \A i \in 1..Len(items) : items[i].step <= b
    PROVE  /\ Latest(items) \in Nat /\ Latest(items) <= b
           /\ \A i \in 1..Len(items) : items[i].step <= Latest(items)
           /\ Latest(items) = 0
              \/ \E i \in 1..Len(items) : items[i].step = Latest(items)
<1> DEFINE S == {0} \cup {items[i].step : i \in 1..Len(items)}
<1>1. \A i \in 1..Len(items) : items[i] \in Items
  BY ElementOfSeq
<1>2. S \subseteq Nat /\ S # {} /\ \A x \in S : x <= b
  BY <1>1, SMTT(30) DEF Items
<1>3. Max(S) \in S /\ \A x \in S : x <= Max(S)
  <2> HIDE DEF S
  <2> QED BY <1>2, MaxOfBounded
<1>4. Latest(items) = Max(S)
  BY DEF Latest
<1> HIDE DEF S
<1>5. Latest(items) \in S /\ Latest(items) \in Nat /\ Latest(items) <= b
  BY <1>2, <1>3, <1>4
<1> USE DEF S
<1>6. \A i \in 1..Len(items) : items[i].step <= Latest(items)
  BY <1>3, <1>4
<1> QED
  BY <1>5, <1>6

\* A memory stays sound when an item with a newer number is added.
LEMMA AppendSound ==
    ASSUME NEW items, NEW executed, NEW clock, SoundMemory(items, executed, clock),
           NEW n \in Nat, NEW actions \in Seq(Kinds), NEW outcome \in Seq(Results),
           Has(Item(n, actions, outcome), "done") => Len(outcome) = 1,
           \/ n > Latest(items)
           \/ n = 0 /\ executed /\ \A i \in 1..Len(items) : items[i].step > 0
    PROVE  LET longer == Append(items, Item(n, actions, outcome))
           IN  /\ SoundMemory(longer, executed, clock)
               /\ longer # <<>> /\ longer[Len(longer)] = Item(n, actions, outcome)
               /\ n > Latest(items) => Latest(longer) = n
<1> DEFINE item == Item(n, actions, outcome)
           longer == Append(items, item)
           L == Len(items)
<1>0. /\ items \in Seq(Items) /\ executed \in BOOLEAN /\ clock \in Nat
      /\ Latest(items) \in Nat
      /\ \A i \in 1..L :
             /\ items[i].step <= Latest(items)
             /\ Has(items[i], "done") => Len(items[i].results) = 1
             /\ ~executed => items[i].step > 0
             /\ \A j \in 1..L : items[i].step = items[j].step => i = j
      /\ KeepLast > 0 => clock <= Latest(items)
  BY DEF SoundMemory
<1>1. item \in Items /\ item.step = n /\ item.results = outcome
  BY DEF Item, Items
<1> HIDE DEF item
<1>2. /\ longer \in Seq(Items) /\ Len(longer) = L + 1 /\ L \in Nat
      /\ \A i \in 1..L : longer[i] = items[i]
      /\ longer[L + 1] = item
  BY <1>0, <1>1, AppendProperties, LenProperties
<1>3. \A i \in 1..Len(longer) :
          (i \in 1..L /\ longer[i] = items[i]) \/ (i = L + 1 /\ longer[i] = item)
  BY <1>2
<1>4. \A i \in 1..L : items[i].step \in Nat
  <2>1. \A i \in 1..L : items[i] \in Items
    BY <1>0, ElementOfSeq
  <2> QED
    BY <2>1 DEF Items
<1> HIDE DEF longer, L
<1>5. \A i, j \in 1..Len(longer) : longer[i].step = longer[j].step => i = j
  <2>1. ASSUME NEW i \in 1..L
        PROVE  items[i].step # n
    <3>1. items[i].step \in Nat /\ items[i].step <= Latest(items)
      BY <1>0, <1>4
    <3>2. n = 0 => items[i].step > 0
      BY <1>0 DEF L
    <3> QED
      BY <1>0, <3>1, <3>2
  <2> QED
    BY <1>0, <1>1, <1>3, <2>1
<1> DEFINE top == IF n > Latest(items) THEN n ELSE Latest(items)
<1>6. top \in Nat /\ \A i \in 1..Len(longer) : longer[i].step <= top
  BY <1>0, <1>1, <1>3, <1>4, SMTT(30)
<1> HIDE DEF top
<1>7. /\ Latest(longer) \in Nat /\ Latest(longer) <= top
      /\ \A i \in 1..Len(longer) : longer[i].step <= Latest(longer)
  BY <1>2, <1>6, LatestOf
<1>8. Latest(items) <= Latest(longer)
  <2>1. Latest(items) = 0 \/ \E i \in 1..L : items[i].step = Latest(items)
    BY <1>0, LatestOf DEF L
  <2>2. \A i \in 1..L : i \in 1..Len(longer) /\ longer[i] = items[i]
    BY <1>2
  <2> QED
    BY <1>0, <1>7, <2>1, <2>2, SMTT(30)
<1>9. n > Latest(items) => Latest(longer) = n
  <2>1. L + 1 \in 1..Len(longer)
    BY <1>2
  <2> QED
    BY <1>0, <1>1, <1>2, <1>7, <2>1 DEF top
<1>10. longer # <<>> /\ longer[Len(longer)] = item
  BY <1>2, EmptySeq
<1>11. \A i \in 1..Len(longer) :
           /\ Has(longer[i], "done") => Len(longer[i].results) = 1
           /\ ~executed => longer[i].step > 0
  BY <1>0, <1>1, <1>3 DEF item
<1>12. KeepLast > 0 => clock <= Latest(longer)
  BY <1>0, <1>7, <1>8
<1>13. SoundMemory(longer, executed, clock)
  BY <1>0, <1>2, <1>5, <1>7, <1>11, <1>12 DEF SoundMemory
<1> QED
  BY <1>9, <1>10, <1>13 DEF longer, item

\* Compaction keeps some of the items, in order, and the newest unless
\* keep_last_items is zero.
LEMMA RetainedItems ==
    ASSUME NEW items \in Seq(Items), items # <<>>
    PROVE  LET kept == Retained(items)
               From(k) == IF Len(items) <= KeepLast + 1 \/ k = 1 THEN k
                          ELSE Len(items) - KeepLast + k - 1
           IN  /\ kept \in Seq(Items) /\ kept # <<>>
               /\ \A k \in 1..Len(kept) :
                      From(k) \in 1..Len(items) /\ kept[k] = items[From(k)]
               /\ \A j, k \in 1..Len(kept) : From(j) = From(k) => j = k
               /\ KeepLast > 0 => kept[Len(kept)] = items[Len(items)]
               /\ ~(Len(items) <= KeepLast + 1) => Len(kept) = KeepLast + 1
<1> DEFINE L == Len(items)
           newest == SubSeq(items, L - KeepLast + 1, L)
<1>1. L \in Nat /\ L >= 1 /\ KeepLast \in Nat
  BY EmptySeq, LenProperties, AgentAssumption
<1>2. CASE L <= KeepLast + 1
  BY <1>1, <1>2 DEF Retained
<1>3. CASE ~(L <= KeepLast + 1)
  <2> DEFINE first == <<items[1]>>
             kept == first \o newest
  <2>1. L - KeepLast + 1 \in 3..L + 1 /\ L \in Int
    BY <1>1, <1>3
  <2>2. /\ newest \in Seq(Items) /\ Len(newest) = KeepLast
        /\ \A i \in 1..KeepLast : newest[i] = items[L - KeepLast + i]
    <3>1. \A i \in (L - KeepLast + 1)..L : items[i] \in Items
      BY <2>1, ElementOfSeq
    <3>2. /\ newest \in Seq(Items)
          /\ Len(newest) = IF L - KeepLast + 1 <= L THEN L - (L - KeepLast + 1) + 1 ELSE 0
          /\ \A i \in 1..(L - (L - KeepLast + 1) + 1) :
                 newest[i] = items[(L - KeepLast + 1) + i - 1]
      <4> HIDE DEF L
      <4> QED BY <2>1, <3>1, SubSeqProperties, SMTT(30)
    <3> HIDE DEF L, newest
    <3>3. L - (L - KeepLast + 1) + 1 = KeepLast
      BY <1>1
    <3>4. \A i \in Nat : (L - KeepLast + 1) + i - 1 = L - KeepLast + i
      BY <1>1
    <3> QED
      BY <1>1, <3>2, <3>3, <3>4
  <2>3. first \in Seq(Items) /\ Len(first) = 1 /\ first[1] = items[1]
    BY <1>1, ElementOfSeq
  <2> HIDE DEF first, newest
  <2>4. /\ kept \in Seq(Items) /\ Len(kept) = KeepLast + 1
        /\ \A k \in 1..(KeepLast + 1) :
               kept[k] = IF k <= 1 THEN first[k] ELSE newest[k - 1]
    <3>1. Len(first) + Len(newest) = KeepLast + 1
      BY <1>1, <2>2, <2>3
    <3>2. /\ kept \in Seq(Items) /\ Len(kept) = Len(first) + Len(newest)
          /\ \A k \in 1..(Len(first) + Len(newest)) :
                 kept[k] = IF k <= Len(first) THEN first[k]
                           ELSE newest[k - Len(first)]
      BY <2>2, <2>3, ConcatProperties
    <3> QED
      BY <2>3, <3>1, <3>2
  <2>5. Retained(items) = kept
    BY <1>3 DEF Retained, first, newest
  <2> HIDE DEF kept, L
  <2>6. \A k \in 1..Len(kept) :
            kept[k] = items[IF k = 1 THEN k ELSE L - KeepLast + k - 1]
    <3> SUFFICES ASSUME NEW k \in 1..(KeepLast + 1)
                 PROVE  kept[k] = items[IF k = 1 THEN k ELSE L - KeepLast + k - 1]
      BY <2>4
    <3>1. CASE k = 1
      BY <1>1, <2>3, <2>4, <3>1
    <3>2. CASE k # 1
      <4>1. k - 1 \in 1..KeepLast /\ ~(k <= 1)
        BY <1>1, <3>2
      <4>2. kept[k] = newest[k - 1] /\ newest[k - 1] = items[L - KeepLast + (k - 1)]
        BY <2>2, <2>4, <4>1
      <4>3. L - KeepLast + (k - 1) = L - KeepLast + k - 1
        BY <1>1
      <4> QED  BY <3>2, <4>2, <4>3
    <3> QED  BY <3>1, <3>2
  <2>7. kept # <<>>
    BY <1>1, <2>4, EmptySeq
  <2>8. KeepLast > 0 => kept[Len(kept)] = items[L]
    BY <1>1, <2>4, <2>6
  <2>9. ~(L <= KeepLast + 1) /\ L = Len(items)
    BY <1>3 DEF L
  <2> QED
    BY <1>1, <2>1, <2>4, <2>5, <2>6, <2>7, <2>8, <2>9, SMTT(30)
<1> QED
  BY <1>2, <1>3

\* And when compaction keeps its first and its last items.
LEMMA RetainedSound ==
    ASSUME NEW items, NEW executed, NEW clock, SoundMemory(items, executed, clock),
           items # <<>>, items[Len(items)].step = Latest(items)
    PROVE  /\ SoundMemory(Retained(items), executed, Latest(items))
           /\ Retained(items) # <<>>
           /\ KeepLast > 0 =>
                  Retained(items)[Len(Retained(items))] = items[Len(items)]
<1> DEFINE kept == Retained(items)
           From(k) == IF Len(items) <= KeepLast + 1 \/ k = 1 THEN k
                      ELSE Len(items) - KeepLast + k - 1
<1>0. items \in Seq(Items) /\ Latest(items) \in Nat
  BY DEF SoundMemory
<1>1. /\ kept \in Seq(Items) /\ kept # <<>>
      /\ \A k \in 1..Len(kept) :
             From(k) \in 1..Len(items) /\ kept[k] = items[From(k)]
      /\ \A j, k \in 1..Len(kept) : From(j) = From(k) => j = k
      /\ KeepLast > 0 => kept[Len(kept)] = items[Len(items)]
  BY <1>0, RetainedItems
<1> HIDE DEF kept, From
<1>2. /\ Latest(kept) \in Nat /\ Latest(kept) <= Latest(items)
      /\ \A i \in 1..Len(kept) : kept[i].step <= Latest(kept)
  <2>1. \A i \in 1..Len(kept) : kept[i].step <= Latest(items)
    BY <1>1 DEF SoundMemory
  <2> QED
    BY <1>0, <1>1, <2>1, LatestOf
<1>3. \A i \in 1..Len(kept) :
          /\ Has(kept[i], "done") => Len(kept[i].results) = 1
          /\ ~executed => kept[i].step > 0
          /\ \A j \in 1..Len(kept) : kept[i].step = kept[j].step => i = j
  <2>1. \A i \in 1..Len(items) :
            /\ Has(items[i], "done") => Len(items[i].results) = 1
            /\ ~executed => items[i].step > 0
            /\ \A j \in 1..Len(items) : items[i].step = items[j].step => i = j
    BY DEF SoundMemory
  <2>2. ASSUME NEW i \in 1..Len(kept), NEW j \in 1..Len(kept),
               kept[i].step = kept[j].step
        PROVE  i = j
    <3>1. \A k, l \in 1..Len(items) : items[k].step = items[l].step => k = l
      BY <2>1
    <3>2. /\ From(i) \in 1..Len(items) /\ kept[i] = items[From(i)]
          /\ From(j) \in 1..Len(items) /\ kept[j] = items[From(j)]
      BY <1>1
    <3>3. From(i) = From(j)
      BY <2>2, <3>1, <3>2, Zenon
    <3> QED
      BY <1>1, <3>3
  <2>3. ASSUME NEW i \in 1..Len(kept)
        PROVE  /\ Has(kept[i], "done") => Len(kept[i].results) = 1
               /\ ~executed => kept[i].step > 0
    BY <1>1, <2>1
  <2> QED
    BY <2>2, <2>3
<1>4. KeepLast > 0 => Latest(items) <= Latest(kept)
  <2>1. Len(kept) \in 1..Len(kept)
    BY <1>1, EmptySeq
  <2> QED
    BY <1>1, <1>2, <2>1
<1>5. SoundMemory(kept, executed, Latest(items))
  BY <1>0, <1>1, <1>2, <1>3, <1>4 DEF SoundMemory
<1> QED
  BY <1>1, <1>5 DEF kept

-----------------------------------------------------------------------------
(* The model's answer, cut to max_actions_per_step *)

\* An answer cut to max_actions_per_step is a list of actions, and the same
\* one if it was done alone.
LEMMA CutAnswer ==
    ASSUME NEW answer \in Seq(Kinds)
    PROVE  LET cut == SubSeq(answer, 1, Min({MaxActions, Len(answer)}))
           IN  /\ cut \in Seq(Kinds)
               /\ answer = <<"done">> =>
                      /\ \A i \in 1..Len(cut) : cut[i] = "done"
                      /\ MaxActions > 0 => cut # <<>>
<1> DEFINE n == Min({MaxActions, Len(answer)})
           cut == SubSeq(answer, 1, n)
<1>1. MaxActions \in Nat /\ Len(answer) \in Nat
  BY AgentAssumption, LenProperties
<1>2. n \in {MaxActions, Len(answer)} /\ n <= Len(answer)
  BY <1>1, MinOfTwo
<1>3. n \in Int /\ n >= 0
  BY <1>1, <1>2
<1> HIDE DEF n
<1>4. \A i \in 1..n : answer[i] \in Kinds
  BY <1>1, <1>2, <1>3, ElementOfSeq
<1>5. /\ cut \in Seq(Kinds)
      /\ Len(cut) = IF 1 <= n THEN n - 1 + 1 ELSE 0
      /\ \A i \in 1..(n - 1 + 1) : cut[i] = answer[1 + i - 1]
  BY <1>3, <1>4, SubSeqProperties
<1> HIDE DEF cut
<1>6. Len(cut) = n /\ \A i \in 1..n : cut[i] = answer[i]
  BY <1>3, <1>5
<1>7. ASSUME answer = <<"done">>
      PROVE  /\ \A i \in 1..Len(cut) : cut[i] = "done"
             /\ MaxActions > 0 => cut # <<>>
  <2>1. Len(answer) = 1 /\ answer[1] = "done"
    BY <1>7
  <2>2. \A i \in 1..n : i = 1
    BY <1>2, <1>3, <2>1
  <2>3. MaxActions > 0 => Len(cut) # 0
    BY <1>1, <1>2, <1>6, <2>1
  <2> QED
    BY <1>5, <1>6, <2>1, <2>2, <2>3, EmptySeq
<1> QED
  BY <1>5, <1>7 DEF cut, n

-----------------------------------------------------------------------------
(* The two ways a step of the loop ends: the call returns, or an item is      *)
(* recorded.                                                                  *)

\* A call that returns keeps the invariant: what it may leave unrecorded is
\* what its verdict says.
LEMMA ReturnKeeps ==
    ASSUME Inv, NEW outcome \in Verdicts, Return(outcome),
           UNCHANGED <<memory, host>>,
           {stopped', paused', fallbackLlm', usingFallback', unseen'} \subseteq BOOLEAN,
           started > 0 => outcome \in {"stopped", "interrupted", "callback", "stepTimedOut"}
    PROVE  Inv'
<1>1. TypeOK'
  BY AgentAssumption DEF Inv, TypeOK, Return, memory, host, Phases, Purposes
<1>2. /\ SoundMemory(history', initialExecuted', compactedAt')
      /\ SavedFits'
  BY DEF Inv, SavedFits, memory, host
<1>3. PurposeFits' /\ HistoryFits' /\ SequenceFits'
  BY DEF Inv, TypeOK, PurposeFits, HistoryFits, SequenceFits, InSequence, Return
<1>4. BudgetFits' /\ WorkIsRecorded' /\ BudgetEndsInError'
  BY DEF BudgetFits, WorkIsRecorded, BudgetEndsInError, InSequence, Return
<1> QED
  BY <1>1, <1>2, <1>3, <1>4 DEF Inv

\* A step that records what it executed keeps the invariant.
LEMMA RecordKeeps ==
    ASSUME Inv, NEW actions \in Seq(Kinds), NEW outcome \in Seq(Results),
           Record(actions, outcome), unseen' \in BOOLEAN,
           InSequence \/ phase \in {"ask", "told"},
           Has(Item(0, actions, outcome), "done") => Len(outcome) = 1,
           MaxActions > 0 /\ purpose = "last" =>
               \E i \in 1..Len(outcome) : outcome[i] \in {"done", "error"}
    PROVE  Inv'
<1> DEFINE n == IF purpose = "initial" THEN 0 ELSE LatestStep + 1
           item == Item(n, actions, outcome)
<1>0. /\ TypeOK /\ SoundMemory(history, initialExecuted, compactedAt)
      /\ PurposeFits /\ HistoryFits /\ BudgetFits
  BY DEF Inv
<1>1. /\ LatestStep = Latest(history) /\ Latest(history) \in Nat
      /\ n \in Nat
      /\ history' = Append(history, item)
  BY <1>0 DEF Record, LatestStep, SoundMemory
<1>2. Has(item, "done") => Len(outcome) = 1
  BY DEF Has, Item
<1>3. \/ n > Latest(history)
      \/ n = 0 /\ initialExecuted /\ \A i \in 1..Len(history) : history[i].step > 0
  BY <1>0, <1>1 DEF HistoryFits, PurposeFits, InSequence
<1> HIDE DEF n
<1>4. /\ SoundMemory(history', initialExecuted, compactedAt)
      /\ history' # <<>> /\ history'[Len(history')] = item
      /\ n > Latest(history) => Latest(history') = n
  BY <1>0, <1>1, <1>2, <1>3, AppendSound
<1>5. /\ phase' = (IF purpose = "single" THEN "idle" ELSE "recorded")
      /\ purpose' = (IF purpose = "single" THEN "none" ELSE purpose)
      /\ verdict' = (IF purpose = "single" THEN "ok" ELSE verdict)
      /\ plan' = <<>> /\ results' = <<>> /\ started' = 0
      /\ UNCHANGED <<compactedAt, initialExecuted, controls, models, budget, host>>
  BY DEF Record
<1>6. purpose # "none"
  BY <1>0 DEF PurposeFits
<1>7. TypeOK'
  BY <1>0, <1>4, <1>5 DEF TypeOK, SoundMemory, controls, models, budget, host,
                          Phases, Purposes, Verdicts
<1>8. SoundMemory(history', initialExecuted', compactedAt') /\ SavedFits'
  BY <1>4, <1>5 DEF Inv, SavedFits, host
<1>9. PurposeFits'
  BY <1>0, <1>5, <1>6 DEF PurposeFits, InSequence, controls, TypeOK, Purposes
<1>10. HistoryFits'
  <2>1. n # 0 => Latest(history') = n
    BY <1>1, <1>3, <1>4
  <2>2. purpose # "initial" => n = Latest(history) + 1
    BY <1>1 DEF n
  <2>3. item.step = n
    BY DEF Item
  <2> QED
    BY <1>1, <1>4, <1>5, <2>1, <2>2, <2>3 DEF HistoryFits, InSequence, Final, LatestStep
<1>11. SequenceFits' /\ WorkIsRecorded'
  BY <1>5 DEF SequenceFits, WorkIsRecorded, InSequence
<1>12. BudgetFits'
  <2>1. phase' = "recorded" /\ MaxActions > 0 /\ purpose' = "last"
            => Has(Final', "done") \/ Has(Final', "error")
    BY <1>4, <1>5 DEF Final, Has, Item
  <2> QED
    BY <1>0, <1>5, <2>1 DEF BudgetFits, InSequence, budget
<1>13. BudgetEndsInError'
  BY <1>5 DEF BudgetEndsInError
<1> QED
  BY <1>7, <1>8, <1>9, <1>10, <1>11, <1>12, <1>13 DEF Inv

-----------------------------------------------------------------------------
(* The steps outside a call, and into one *)

\* What the host does between calls keeps the invariant.
LEMMA HostKeeps ==
    ASSUME Inv, Host
    PROVE  Inv'
<1> USE AgentAssumption DEF Inv, TypeOK, SavedFits, PurposeFits, HistoryFits,
        SequenceFits, BudgetFits, WorkIsRecorded, BudgetEndsInError, InSequence,
        memory, controls, models, sequence, budget, host, Final, LatestStep,
        Phases, Purposes
<1>1. CASE CallRun
  BY <1>1, SMTT(30) DEF CallRun, Verdicts
<1>2. CASE CallStep
  BY <1>2, SMTT(30) DEF CallStep, Verdicts
<1>3. CASE Stop
  BY <1>3 DEF Stop
<1>4. CASE Pause
  BY <1>4 DEF Pause
<1>5. CASE Resume
  BY <1>5 DEF Resume
<1>6. CASE AddNewTask
  BY <1>6 DEF AddNewTask
<1>7. CASE SetFallbackLlm
  BY <1>7 DEF SetFallbackLlm
<1>8. CASE Checkpoint
  BY <1>8 DEF Checkpoint, Checkpointed
<1>9. CASE FromCheckpoint
  <2>1. /\ saved.history \in Seq(Items) /\ saved.initialExecuted \in BOOLEAN
        /\ saved.compactedAt \in Nat
    BY DEF SoundMemory
  <2>2. TypeOK'
    <3>1. {saved.stopped, saved.paused, saved.unseen} \subseteq BOOLEAN
      OBVIOUS
    <3>2. history' \in Seq(Items) /\ compactedAt' \in Nat
      BY <1>9, <2>1 DEF FromCheckpoint
    <3>3. {initialExecuted', stopped', paused', fallbackLlm', usingFallback', unseen'}
              \subseteq BOOLEAN
      BY <1>9, <2>1, <3>1 DEF FromCheckpoint
    <3>4. /\ phase' \in Phases /\ purpose' \in Purposes /\ verdict' \in Verdicts
          /\ plan' \in Seq(Kinds) /\ results' \in Seq(Results) /\ started' \in Nat
      BY <1>9, SMTT(30) DEF FromCheckpoint, Verdicts
    <3>5. /\ maxSteps' \in 0..MaxSteps /\ stepsUsed' \in 0..maxSteps' /\ failures' \in Nat
          /\ calls' \in 0..MaxCalls /\ restores' \in 0..MaxRestores
      BY <1>9, SMTT(30) DEF FromCheckpoint
    <3> QED
      BY <3>2, <3>3, <3>4, <3>5
  <2>3. SoundMemory(history', initialExecuted', compactedAt') /\ SavedFits'
    BY <1>9, SMTT(30) DEF FromCheckpoint
  <2> QED
    BY <1>9, <2>2, <2>3 DEF FromCheckpoint
<1> QED
  BY <1>1, <1>2, <1>3, <1>4, <1>5, <1>6, <1>7, <1>8, <1>9 DEF Host

\* A check that refuses ends the call.
LEMMA RefusalKeeps ==
    ASSUME Inv, CheckRefuses, phase # "idle"
    PROVE  Inv'
<1>1. PICK outcome \in {"stopped", "callback", "interrupted", "paused"} :
          Return(outcome) /\ (outcome = "paused" => paused) /\ stopped' \in BOOLEAN
  <2>1. stopped' \in BOOLEAN
    BY DEF CheckRefuses, Inv, TypeOK
  <2>2. \/ Return("stopped") \/ Return("callback") \/ Return("interrupted")
        \/ paused /\ Return("paused")
    BY DEF CheckRefuses
  <2> QED
    BY <2>1, <2>2
<1>2. started > 0 => outcome # "paused"
  BY <1>1 DEF Inv, PurposeFits, SequenceFits, WorkIsRecorded, InSequence
<1>3. UNCHANGED <<memory, host>>
      /\ {stopped', paused', fallbackLlm', usingFallback', unseen'} \subseteq BOOLEAN
  BY <1>1 DEF CheckRefuses, models, Inv, TypeOK
<1> QED
  BY <1>1, <1>2, <1>3, ReturnKeeps DEF Verdicts, Refusals

\* So does each check of the loop that refuses.
LEMMA ChecksKeep ==
    ASSUME Inv, Checks
    PROVE  Inv'
BY RefusalKeeps DEF Checks, EntryRefused, NextStepRefused, AcceptRefused,
                    TurnRefused, AfterStepRefused, StepNotDone

\* A call that enters takes the history as it is, with initial actions to do
\* or without.
LEMMA EnterKeeps ==
    ASSUME Inv, Enter
    PROVE  Inv'
<1> USE AgentAssumption DEF Inv, TypeOK, SavedFits, PurposeFits, HistoryFits,
        SequenceFits, BudgetFits, WorkIsRecorded, BudgetEndsInError, InSequence,
        controls, models, budget, host, Final, LatestStep, Phases, Purposes,
        Enter, CheckPasses, GoTo
<1>1. CASE purpose = "single"
  BY <1>1
<1>2. CASE purpose = "none" /\ ~initialExecuted /\ InitialActions # <<>>
  <2>1. /\ \A i \in 1..Len(history) : history[i].step > 0
        /\ SoundMemory(history, TRUE, compactedAt)
    <3> HIDE DEF Enter
    <3> QED BY <1>2 DEF SoundMemory
  <2>2. /\ phase = "start" /\ ~stopped /\ ~paused
        /\ phase' = "turn" /\ purpose' = "initial" /\ plan' = InitialActions
        /\ initialExecuted' = TRUE
        /\ UNCHANGED <<history, compactedAt, controls, models, results, started,
                       budget, verdict, unseen, host>>
    BY <1>2
  <2>3. TypeOK'
    BY <2>2
  <2>4. SoundMemory(history', initialExecuted', compactedAt') /\ SavedFits'
    BY <2>1, <2>2
  <2> HIDE DEF Enter
  <2>5. PurposeFits' /\ HistoryFits'
    BY <1>2, <2>1, <2>2
  <2>6. SequenceFits' /\ BudgetFits'
    BY <1>2, <2>2
  <2>7. WorkIsRecorded' /\ BudgetEndsInError'
    BY <2>2
  <2> QED
    BY <2>3, <2>4, <2>5, <2>6, <2>7
<1>3. CASE purpose = "none" /\ (initialExecuted \/ InitialActions = <<>>)
  <2>1. /\ phase = "start" /\ ~stopped /\ ~paused
        /\ phase' = (IF history # <<>> /\ Has(Final, "done") THEN "finish" ELSE "head")
        /\ UNCHANGED <<memory, controls, models, purpose, sequence, budget,
                       verdict, unseen, host>>
    BY <1>3 DEF memory, sequence
  <2> HIDE DEF Enter
  <2>2. TypeOK' /\ SoundMemory(history', initialExecuted', compactedAt') /\ SavedFits'
    BY <2>1 DEF memory, sequence
  <2>3. PurposeFits' /\ HistoryFits'
    BY <1>3, <2>1 DEF memory, sequence
  <2>4. SequenceFits' /\ BudgetFits'
    BY <1>3, <2>1 DEF memory, sequence
  <2>5. WorkIsRecorded' /\ BudgetEndsInError'
    BY <2>1
  <2> QED
    BY <2>2, <2>3, <2>4, <2>5
<1> QED
  BY <1>1, <1>2, <1>3

\* The next step begins with nothing executed.
LEMMA NextStepKeeps ==
    ASSUME Inv, NextStep
    PROVE  Inv'
BY AgentAssumption DEF Inv, TypeOK, SavedFits, PurposeFits, HistoryFits,
    SequenceFits, BudgetFits, WorkIsRecorded, BudgetEndsInError, InSequence,
    memory, controls, models, sequence, host, Final, LatestStep, Phases, Purposes,
    NextStep, CheckPasses, BudgetLeft

-----------------------------------------------------------------------------
(* The model's part of a step *)

\* A step that fails at the model records its error as an item of its own.
LEMMA ErrorRecorded ==
    ASSUME Inv, RecordError, phase \in {"ask", "told"}, unseen' \in BOOLEAN
    PROVE  Inv'
<1>1. <<>> \in Seq(Kinds) /\ <<"error">> \in Seq(Results)
  BY DEF Results
<1>2. /\ Len(<<"error">>) = 1
      /\ \E i \in 1..Len(<<"error">>) : <<"error">>[i] \in {"done", "error"}
  OBVIOUS
<1> QED
  BY <1>1, <1>2, RecordKeeps DEF RecordError

\* Whatever the model does, its answer is accepted or its error recorded.
LEMMA ModelKeeps ==
    ASSUME Inv, Model \/ ModelTimesOut
    PROVE  Inv'
<1>1. ASSUME NEW outcome \in {"llmError", "llmTimedOut", "invalidOutput"},
             phase = "ask", NoAnswer(outcome), unseen' = FALSE
      PROVE  Inv'
  <2>1. started = 0
    BY <1>1 DEF Inv, TypeOK, SequenceFits, InSequence
  <2>2. CASE purpose = "single"
    <3>1. Return(outcome) /\ UNCHANGED <<memory, controls, models, host>>
      BY <1>1, <2>2 DEF NoAnswer
    <3>2. {stopped', paused', fallbackLlm', usingFallback', unseen'} \subseteq BOOLEAN
      BY <1>1, <3>1 DEF Inv, TypeOK, controls, models
    <3> QED
      BY <1>1, <2>1, <3>1, <3>2, ReturnKeeps DEF Verdicts
  <2>3. CASE purpose # "single"
    BY <1>1, <2>3, ErrorRecorded DEF NoAnswer
  <2> QED
    BY <2>2, <2>3
<1>2. CASE SwitchToFallback
  BY <1>2 DEF Inv, TypeOK, SavedFits, PurposeFits, HistoryFits, SequenceFits,
      BudgetFits, WorkIsRecorded, BudgetEndsInError, InSequence, memory, controls,
      sequence, budget, host, Final, LatestStep, SwitchToFallback
<1>3. CASE ModelFails
  BY <1>1, <1>3 DEF ModelFails
<1>4. CASE ModelTimesOut
  BY <1>1, <1>4 DEF ModelTimesOut
<1>5. CASE MalformedAnswer
  BY <1>1, <1>5 DEF MalformedAnswer
<1>6. CASE ConversationSaveFails
  <2>1. started = 0
    BY <1>6 DEF ConversationSaveFails, Inv, TypeOK, SequenceFits, InSequence
  <2>2. {stopped', paused', fallbackLlm', usingFallback', unseen'} \subseteq BOOLEAN
    BY <1>6 DEF ConversationSaveFails, Inv, TypeOK, controls, models
  <2> QED
    BY <1>6, <2>1, <2>2, ReturnKeeps DEF ConversationSaveFails, Verdicts
<1>7. CASE Answer
  <2>1. PICK answer \in Plans :
            \/ RecordError
            \/ /\ Acceptable(answer)
               /\ plan' = SubSeq(answer, 1, Min({MaxActions, Len(answer)}))
               /\ GoTo("told")
               /\ UNCHANGED <<memory, controls, models, results, started, budget, host>>
    BY <1>7 DEF Answer
  <2>2. phase = "ask" /\ unseen' = FALSE
    BY <1>7 DEF Answer
  <2>3. CASE RecordError
    BY <2>2, <2>3, ErrorRecorded
  <2>4. CASE /\ Acceptable(answer)
             /\ plan' = SubSeq(answer, 1, Min({MaxActions, Len(answer)}))
             /\ GoTo("told")
             /\ UNCHANGED <<memory, controls, models, results, started, budget, host>>
    <3>1. /\ plan' \in Seq(Kinds)
          /\ answer = <<"done">> =>
                 /\ \A i \in 1..Len(plan') : plan'[i] = "done"
                 /\ MaxActions > 0 => plan' # <<>>
      BY <2>4, CutAnswer, AgentAssumption
    <3>2. purpose \in {"last", "apology"} =>
              /\ \A i \in 1..Len(plan') : plan'[i] = "done"
              /\ MaxActions > 0 => plan' # <<>>
      BY <2>4, <3>1 DEF Acceptable
    <3>3. /\ phase' = "told" /\ UNCHANGED <<purpose, verdict>>
          /\ UNCHANGED <<memory, controls, models, results, started, budget, host>>
      BY <2>4 DEF GoTo
    <3>4. TypeOK' /\ SoundMemory(history', initialExecuted', compactedAt') /\ SavedFits'
      BY <2>2, <3>1, <3>3 DEF Inv, TypeOK, SavedFits, memory, controls, models,
                              budget, host, Phases
    <3>5. PurposeFits' /\ HistoryFits' /\ SequenceFits'
      BY <2>2, <3>3 DEF Inv, TypeOK, PurposeFits, HistoryFits, SequenceFits,
                        InSequence, controls, memory
    <3>6. BudgetFits' /\ WorkIsRecorded' /\ BudgetEndsInError'
      BY <2>2, <3>2, <3>3 DEF Inv, BudgetFits, WorkIsRecorded, BudgetEndsInError,
                              InSequence, budget
    <3> QED
      BY <3>4, <3>5, <3>6 DEF Inv
  <2> QED
    BY <2>1, <2>3, <2>4
<1> QED
  BY <1>2, <1>3, <1>4, <1>5, <1>6, <1>7 DEF Model

\* An accepted answer becomes the sequence to execute.
LEMMA AcceptKeeps ==
    ASSUME Inv, Accept
    PROVE  Inv'
<1>1. phase = "told" /\ unseen' = unseen /\ unseen \in BOOLEAN
  BY DEF Accept, Inv, TypeOK
<1>2. CASE RecordError
  BY <1>1, <1>2, ErrorRecorded
<1>3. CASE /\ GoTo("turn")
           /\ UNCHANGED <<memory, controls, models, sequence, budget, host>>
  BY <1>1, <1>3 DEF Inv, TypeOK, SavedFits, PurposeFits, HistoryFits, SequenceFits,
      BudgetFits, WorkIsRecorded, BudgetEndsInError, InSequence, memory, controls,
      models, sequence, budget, host, Final, LatestStep, GoTo, Phases
<1> QED
  BY <1>2, <1>3 DEF Accept

\* The state read before the model is asked has no part in the memory.
LEMMA ObserveKeeps ==
    ASSUME Inv, Observe
    PROVE  Inv'
<1>1. phase = "observe" /\ started = 0
      /\ UNCHANGED <<memory, controls, models, unseen, host>>
  BY DEF Observe, Inv, TypeOK, SequenceFits, InSequence
<1>2. CASE Return("browserError")
  <2>1. {stopped', paused', fallbackLlm', usingFallback', unseen'} \subseteq BOOLEAN
    BY <1>1 DEF Inv, TypeOK, controls, models
  <2> QED
    BY <1>1, <1>2, <2>1, ReturnKeeps DEF Verdicts
<1>3. CASE GoTo("ask") /\ UNCHANGED <<sequence, budget>>
  BY <1>1, <1>3 DEF Inv, TypeOK, SavedFits, PurposeFits, HistoryFits, SequenceFits,
      BudgetFits, WorkIsRecorded, BudgetEndsInError, InSequence, memory, controls,
      models, sequence, budget, host, Final, LatestStep, GoTo, Phases
<1> QED
  BY <1>2, <1>3 DEF Observe

-----------------------------------------------------------------------------
(* The action sequence *)

\* The results so far close the step: the sequence is over, or was stopped.
LEMMA ResultsRecorded ==
    ASSUME Inv, InSequence, Record(plan, results), unseen' = unseen,
           ~(MaxActions > 0 /\ purpose = "last")
    PROVE  Inv'
<1>1. plan \in Seq(Kinds) /\ results \in Seq(Results) /\ unseen' \in BOOLEAN
  BY DEF Inv, TypeOK
<1>2. ~Has(Item(0, plan, results), "done")
  BY DEF Has, Item, Inv, SequenceFits
<1> QED
  BY <1>1, <1>2, RecordKeeps

\* One more result closes the step.
LEMMA ResultEnds ==
    ASSUME Inv, InSequence, NEW result \in Results,
           Record(plan, Append(results, result)), unseen' = unseen,
           result = "done" => results = <<>>,
           purpose = "last" => result # "ok"
    PROVE  Inv'
<1> DEFINE outcome == Append(results, result)
<1>1. /\ plan \in Seq(Kinds) /\ results \in Seq(Results) /\ unseen' \in BOOLEAN
      /\ \A i \in 1..Len(results) : results[i] = "ok"
  BY DEF Inv, TypeOK, SequenceFits
<1>2. /\ outcome \in Seq(Results)
      /\ Len(outcome) = Len(results) + 1 /\ Len(results) \in Nat
      /\ \A i \in 1..Len(results) : outcome[i] = results[i]
      /\ outcome[Len(results) + 1] = result
  BY <1>1, AppendProperties, LenProperties
<1>3. Has(Item(0, plan, outcome), "done") => Len(outcome) = 1
  <2>1. Has(Item(0, plan, outcome), "done") => result = "done"
    <3>1. \A i \in 1..Len(outcome) : i \in 1..Len(results) \/ i = Len(results) + 1
      BY <1>2
    <3>2. Item(0, plan, outcome).results = outcome
      BY DEF Item
    <3> HIDE DEF outcome
    <3> QED
      BY <1>1, <1>2, <3>1, <3>2 DEF Has
  <2>2. result = "done" => Len(results) = 0
    OBVIOUS
  <2> QED
    BY <1>2, <2>1, <2>2
<1>4. purpose = "last" => \E i \in 1..Len(outcome) : outcome[i] \in {"done", "error"}
  <2>1. Len(results) + 1 \in 1..Len(outcome)
    BY <1>2
  <2> QED
    BY <1>2, <2>1 DEF Results
<1> HIDE DEF outcome
<1>5. Record(plan, outcome)
  BY DEF outcome
<1> QED
  BY <1>1, <1>2, <1>3, <1>4, <1>5, RecordKeeps

\* An action has its turn, or the sequence ends and is recorded.
LEMMA TurnKeeps ==
    ASSUME Inv, Turn \/ SequenceEnds
    PROVE  Inv'
<1>1. phase = "turn" /\ InSequence /\ unseen' = unseen
  BY DEF Turn, SequenceEnds, InSequence
<1>2. CASE SequenceEnds
  <2>1. ~(MaxActions > 0 /\ purpose = "last")
    <3>1. SUFFICES ASSUME MaxActions > 0, purpose = "last" PROVE FALSE
      OBVIOUS
    <3>2. results = <<>> /\ plan # <<>> /\ plan \in Seq(Kinds)
      BY <1>1, <3>1 DEF Inv, TypeOK, BudgetFits
    <3>3. At = 1 /\ Len(plan) >= 1
      BY <3>2, EmptySeq DEF At
    <3> QED
      BY <1>2, <3>3 DEF SequenceEnds
  <2> QED
    BY <1>1, <1>2, <2>1, ResultsRecorded DEF SequenceEnds
<1>3. CASE Turn /\ DoneComesLate /\ Record(plan, results)
  <2>1. results # <<>>
    BY <1>3 DEF DoneComesLate, At
  <2>2. purpose # "last"
    BY <1>1, <2>1 DEF Inv, BudgetFits
  <2> QED
    BY <1>1, <1>3, <2>2, ResultsRecorded
<1>4. CASE /\ Turn /\ ~DoneComesLate
           /\ GoTo(IF Terminates(plan[At]) THEN "act" ELSE "guard")
           /\ started' = IF Terminates(plan[At]) THEN started + 1 ELSE started
           /\ UNCHANGED <<memory, controls, models, plan, results, budget, host>>
  <2> DEFINE next == IF Terminates(plan[At]) THEN "act" ELSE "guard"
  <2>1. /\ At \in Nat /\ At >= 1 /\ At <= Len(plan) /\ started \in Nat
        /\ plan[At] = "done" => At = 1
    <3>1. results \in Seq(Results) /\ started \in Nat
      BY DEF Inv, TypeOK
    <3>2. Len(results) \in Nat
      BY <3>1
    <3> QED
      BY <1>4, <3>1, <3>2 DEF Turn, DoneComesLate, At
  <2>2. plan[At] = "done" => next = "act"
    BY DEF Terminates
  <2>3. next \in {"act", "guard"}
    OBVIOUS
  <2>4. purpose \in {"last", "apology"} => plan[At] = "done"
    <3>1. At \in 1..Len(plan)
      BY <2>1
    <3> QED
      BY <1>1, <3>1 DEF Inv, BudgetFits
  <2>5. /\ phase' = next /\ UNCHANGED <<purpose, verdict, unseen>>
        /\ started' = (IF Terminates(plan[At]) THEN started + 1 ELSE started)
        /\ UNCHANGED <<memory, controls, models, plan, results, budget, host>>
    BY <1>1, <1>4 DEF GoTo
  <2> HIDE DEF next
  <2>6. TypeOK' /\ SoundMemory(history', initialExecuted', compactedAt') /\ SavedFits'
    BY <2>1, <2>3, <2>5 DEF Inv, TypeOK, SavedFits, memory, controls, models, budget,
                            host, Phases
  <2>7. PurposeFits' /\ HistoryFits'
    BY <1>1, <2>3, <2>5 DEF Inv, PurposeFits, HistoryFits, InSequence, memory, controls
  <2>8. SequenceFits' /\ WorkIsRecorded'
    BY <1>1, <2>1, <2>2, <2>3, <2>5
       DEF Inv, SequenceFits, WorkIsRecorded, InSequence, At
  <2>9. BudgetFits' /\ BudgetEndsInError'
    BY <1>1, <2>2, <2>3, <2>4, <2>5
       DEF Inv, BudgetFits, BudgetEndsInError, InSequence, budget
  <2> QED
    BY <2>6, <2>7, <2>8, <2>9 DEF Inv
<1> QED
  BY <1>2, <1>3, <1>4 DEF Turn

\* The state read before or after an action lets the sequence go on, or ends
\* it.
LEMMA LooksKeep ==
    ASSUME Inv, LookBefore \/ LookAfter
    PROVE  Inv'
<1>1. phase \in {"guard", "after"} /\ InSequence /\ unseen' = unseen
  BY DEF LookBefore, LookAfter, InSequence
<1>2. purpose \notin {"last", "apology"}
  BY <1>1 DEF Inv, BudgetFits
<1>3. CASE Record(plan, Append(results, "error"))
  BY <1>1, <1>2, <1>3, ResultEnds DEF Results
<1>4. CASE Record(plan, results)
  BY <1>1, <1>2, <1>4, ResultsRecorded
<1>5. CASE /\ phase = "guard" /\ GoTo("act") /\ started' = started + 1
           /\ UNCHANGED <<memory, controls, models, plan, results, budget, host>>
  BY <1>1, <1>2, <1>5 DEF Inv, TypeOK, SavedFits, PurposeFits, HistoryFits,
      SequenceFits, BudgetFits, WorkIsRecorded, BudgetEndsInError, InSequence,
      memory, controls, models, budget, host, Final, LatestStep, GoTo, Phases, At
<1>6. CASE /\ phase = "after" /\ GoTo("turn")
           /\ UNCHANGED <<memory, controls, models, sequence, budget, host>>
  BY <1>1, <1>2, <1>6 DEF Inv, TypeOK, SavedFits, PurposeFits, HistoryFits,
      SequenceFits, BudgetFits, WorkIsRecorded, BudgetEndsInError, InSequence,
      memory, controls, models, sequence, budget, host, Final, LatestStep, GoTo, Phases
<1> QED
  BY <1>3, <1>4, <1>5, <1>6 DEF LookBefore, LookAfter, LookAfterFails

\* An action succeeds, or fails or times out and ends the sequence.
LEMMA ActKeeps ==
    ASSUME Inv, Act \/ ActionTimesOut
    PROVE  Inv'
<1>1. /\ phase = "act" /\ InSequence /\ unseen' = unseen
      /\ Len(results) \in Nat /\ plan \in Seq(Kinds) /\ results \in Seq(Results)
      /\ At = Len(results) + 1 /\ At <= Len(plan)
      /\ plan[At] = "done" => results = <<>>
  <2>1. /\ phase = "act" /\ unseen' = unseen
        /\ plan \in Seq(Kinds) /\ results \in Seq(Results)
        /\ At <= Len(plan) /\ (plan[At] = "done" => At = 1)
    BY DEF Act, ActionTimesOut, Inv, TypeOK, SequenceFits
  <2>2. Len(results) \in Nat /\ (Len(results) = 0 => results = <<>>)
    BY <2>1, EmptySeq
  <2> QED
    BY <2>1, <2>2 DEF InSequence, At
<1>2. purpose \in {"last", "apology"} => plan[At] = "done"
  <2>1. At \in 1..Len(plan)
    BY <1>1
  <2> QED
    BY <1>1, <2>1 DEF Inv, BudgetFits
<1>3. CASE ActionTimesOut
  BY <1>1, <1>3, ResultEnds DEF ActionTimesOut, Results
<1>4. CASE Act
  <2>1. PICK result \in {"error", IF plan[At] = "done" THEN "done" ELSE "ok"} :
            IF ShouldStop(result, plan[At])
            THEN Record(plan, Append(results, result))
            ELSE /\ results' = Append(results, result)
                 /\ GoTo("after")
                 /\ UNCHANGED <<memory, controls, models, plan, started, budget, host>>
    BY <1>4 DEF Act
  <2>2. /\ result \in Results
        /\ result = "done" => results = <<>>
        /\ purpose \in {"last", "apology"} => result # "ok"
    BY <1>1, <1>2 DEF Results
  <2>3. CASE ShouldStop(result, plan[At])
    BY <1>1, <2>1, <2>2, <2>3, ResultEnds
  <2>4. CASE ~ShouldStop(result, plan[At])
    <3>1. result = "ok"
      BY <2>4 DEF ShouldStop
    <3>2. purpose \notin {"last", "apology"}
      BY <2>2, <3>1
    <3>3. /\ results' = Append(results, "ok")
          /\ phase' = "after" /\ UNCHANGED <<purpose, verdict, unseen>>
          /\ UNCHANGED <<memory, controls, models, plan, started, budget, host>>
      BY <1>1, <2>1, <2>4, <3>1 DEF GoTo
    <3>4. /\ results' \in Seq(Results)
          /\ \A i \in 1..Len(results') : results'[i] = "ok"
      BY <1>1, <3>3, AppendProperties DEF Results, Inv, SequenceFits
    <3>5. TypeOK' /\ SoundMemory(history', initialExecuted', compactedAt') /\ SavedFits'
      BY <3>3, <3>4 DEF Inv, TypeOK, SavedFits, memory, controls, models, budget,
                        host, Phases
    <3>6. PurposeFits' /\ HistoryFits' /\ SequenceFits' /\ WorkIsRecorded'
      BY <1>1, <3>3, <3>4 DEF Inv, PurposeFits, HistoryFits, SequenceFits,
                              WorkIsRecorded, InSequence, memory, controls
    <3>7. BudgetFits' /\ BudgetEndsInError'
      BY <1>1, <3>2, <3>3 DEF Inv, BudgetFits, BudgetEndsInError, InSequence, budget
    <3> QED
      BY <3>5, <3>6, <3>7 DEF Inv
  <2> QED
    BY <2>3, <2>4
<1> QED
  BY <1>3, <1>4

\* A step that times out may lose what it executed, and the verdict says so.
LEMMA StepTimesOutKeeps ==
    ASSUME Inv, StepTimesOut
    PROVE  Inv'
<1>1. {stopped', paused', fallbackLlm', usingFallback', unseen'} \subseteq BOOLEAN
  BY DEF StepTimesOut, Inv, TypeOK, controls, models
<1> QED
  BY <1>1, ReturnKeeps DEF StepTimesOut, Verdicts

-----------------------------------------------------------------------------
(* After a step of `run` *)

\* A call that returns with every executed action recorded
LEMMA QuietReturnKeeps ==
    ASSUME Inv, NEW outcome \in Verdicts, Return(outcome),
           phase \in {"head", "recorded", "finish"},
           UNCHANGED <<memory, controls, models, unseen, host>>
    PROVE  Inv'
<1>1. ~(started > 0)
  BY DEF Inv, SequenceFits, InSequence
<1>2. {stopped', paused', fallbackLlm', usingFallback', unseen'} \subseteq BOOLEAN
  BY DEF Inv, TypeOK, controls, models
<1> QED
  BY <1>1, <1>2, ReturnKeeps

\* What the loop does after a step agrees with the item the step recorded.
LEMMA AfterStepKeeps ==
    ASSUME Inv,
           \/ StepLimitReached \/ InitialActionsRecorded \/ StepIsDone
           \/ LoopDetected \/ StepSucceeds \/ StepFails \/ TooManyFailures
           \/ FinalResponseFails \/ SkipCompaction \/ Finish
    PROVE  Inv'
<1>1. CASE StepLimitReached
  BY <1>1, QuietReturnKeeps DEF StepLimitReached, Verdicts
<1>2. CASE LoopDetected
  BY <1>2, QuietReturnKeeps DEF LoopDetected, StepNotDone, Verdicts
<1>3. CASE FinalResponseFails
  BY <1>3, QuietReturnKeeps DEF FinalResponseFails, Verdicts
<1>4. CASE Finish
  <2>1. /\ phase = "finish" /\ UNCHANGED <<memory, controls, models, unseen, host>>
        /\ Return("ok") \/ Return("gifSave") \/ Return("callback")
    BY <1>4 DEF Finish
  <2>2. {"ok", "gifSave", "callback"} \subseteq Verdicts
    BY DEF Verdicts, Refusals
  <2> QED
    BY <2>1, <2>2, QuietReturnKeeps
<1>5. CASE TooManyFailures /\ Return("maxFailures")
  BY <1>5, QuietReturnKeeps DEF TooManyFailures, StepNotDone, Verdicts
<1> USE DEF Inv, TypeOK, SavedFits, PurposeFits, HistoryFits, SequenceFits,
        BudgetFits, WorkIsRecorded, BudgetEndsInError, InSequence, memory, controls,
        models, sequence, budget, host, Final, LatestStep, Phases, Purposes
<1>6. CASE InitialActionsRecorded
  BY <1>6 DEF InitialActionsRecorded
<1>7. CASE StepIsDone
  BY <1>7 DEF StepIsDone
<1>8. CASE StepSucceeds
  BY <1>8 DEF StepSucceeds, StepNotDone, ResetFailures
<1>9. CASE StepFails
  BY <1>9 DEF StepFails, StepNotDone
<1>10. CASE TooManyFailures /\ ~Return("maxFailures")
  <2>1. /\ phase = "recorded" /\ purpose \in {"normal", "last"}
        /\ failures' = failures + 1 /\ phase' = "observe" /\ purpose' = "apology"
        /\ UNCHANGED <<memory, controls, models, sequence, maxSteps, stepsUsed,
                       verdict, unseen, host>>
    BY <1>10 DEF TooManyFailures, StepNotDone
  <2> QED
    BY <2>1
<1>11. CASE SkipCompaction
  BY <1>11 DEF SkipCompaction, GoTo
<1> QED
  BY <1>1, <1>2, <1>3, <1>4, <1>5, <1>6, <1>7, <1>8, <1>9, <1>10, <1>11

\* Compaction keeps the memory sound and the newest item.
LEMMA CompactHistoryKeeps ==
    ASSUME Inv, CompactHistory
    PROVE  Inv'
<1>1. /\ phase = "compact" /\ history # <<>> /\ history[Len(history)].step = Latest(history)
      /\ SoundMemory(history, initialExecuted, compactedAt)
  BY DEF CompactHistory, Inv, HistoryFits, Final, LatestStep
<1>2. /\ history' = Retained(history) /\ compactedAt' = Latest(history)
      /\ phase' = "head" /\ UNCHANGED <<purpose, verdict>>
      /\ UNCHANGED <<initialExecuted, controls, models, sequence, budget, unseen, host>>
  BY DEF CompactHistory, GoTo, LatestStep
<1>3. /\ SoundMemory(history', initialExecuted', compactedAt') /\ history' # <<>>
      /\ KeepLast > 0 => Final' = Final
  BY <1>1, <1>2, RetainedSound DEF Final
<1>4. TypeOK' /\ SavedFits'
  BY <1>2, <1>3 DEF Inv, TypeOK, SavedFits, SoundMemory, controls, models, sequence,
                    budget, host, Phases
<1>5. PurposeFits' /\ HistoryFits' /\ SequenceFits'
  BY <1>1, <1>2 DEF Inv, PurposeFits, HistoryFits, SequenceFits, InSequence,
                    controls, sequence
<1>6. BudgetFits' /\ WorkIsRecorded' /\ BudgetEndsInError'
  BY <1>1, <1>2, <1>3 DEF Inv, PurposeFits, BudgetFits, WorkIsRecorded,
                          BudgetEndsInError, InSequence, budget
<1> QED
  BY <1>3, <1>4, <1>5, <1>6 DEF Inv

-----------------------------------------------------------------------------
(* The invariant, and what follows from it *)

\* An empty history is sound.
LEMMA EmptyMemory ==
    SoundMemory(<<>>, FALSE, 0)
<1> DEFINE none == <<>>
<1>1. none \in Seq(Items) /\ Len(none) = 0
  OBVIOUS
<1> HIDE DEF none
<1>2. Latest(none) \in Nat
  <2>1. \A i \in 1..Len(none) : none[i].step <= 0
    BY <1>1
  <2> QED
    <3>1. 0 \in Nat
      OBVIOUS
    <3> QED
      BY <1>1, <2>1, <3>1, LatestOf
<1>3. SoundMemory(none, FALSE, 0)
  BY <1>1, <1>2 DEF SoundMemory
<1> QED
  BY <1>3 DEF none

\* A new agent satisfies the invariant.
LEMMA InitSound ==
    ASSUME Init
    PROVE  Inv
<1>1. TypeOK
  <2>1. <<>> \in Seq(Items) /\ <<>> \in Seq(Kinds) /\ <<>> \in Seq(Results)
    OBVIOUS
  <2>2. 0 \in 0..MaxSteps /\ 0 \in 0..MaxCalls /\ 0 \in 0..MaxRestores /\ 0 \in 0..0
    BY AgentAssumption
  <2> QED
    BY <2>1, <2>2 DEF Init, TypeOK, Phases, Purposes, Verdicts
<1>2. SoundMemory(history, initialExecuted, compactedAt) /\ SavedFits
  BY EmptyMemory DEF Init, SavedFits, Checkpointed
<1>3. PurposeFits /\ HistoryFits /\ SequenceFits
  BY DEF Init, PurposeFits, HistoryFits, SequenceFits, InSequence
<1>4. BudgetFits /\ WorkIsRecorded /\ BudgetEndsInError
  BY DEF Init, BudgetFits, WorkIsRecorded, BudgetEndsInError, InSequence
<1> QED
  BY <1>1, <1>2, <1>3, <1>4 DEF Inv

\* So does an agent that nothing happens to.
LEMMA StutterKeeps ==
    ASSUME Inv, UNCHANGED vars
    PROVE  Inv'
BY DEF Inv, TypeOK, SavedFits, PurposeFits, HistoryFits, SequenceFits, BudgetFits,
    WorkIsRecorded, BudgetEndsInError, InSequence, Final, LatestStep, At, vars,
    memory, controls, models, sequence, budget, host

\* Every step of the agent or its host keeps the invariant.
LEMMA StepKeeps ==
    ASSUME Inv, Next
    PROVE  Inv'
<1>1. CASE Host
  BY <1>1, HostKeeps
<1>2. CASE Checks
  BY <1>2, ChecksKeep
<1>3. CASE Proceed
  BY <1>3, EnterKeeps, NextStepKeeps, AcceptKeeps, TurnKeeps, AfterStepKeeps,
     CompactHistoryKeeps DEF Proceed
<1>4. CASE Timers
  BY <1>4, ModelKeeps, ActKeeps, StepTimesOutKeeps DEF Timers
<1>5. CASE Model
  BY <1>5, ModelKeeps
<1>6. CASE Looks
  BY <1>6, ObserveKeeps, LooksKeep DEF Looks
<1>7. CASE Act
  BY <1>7, ActKeeps
<1> QED
  BY <1>1, <1>2, <1>3, <1>4, <1>5, <1>6, <1>7 DEF Next

\* Wherever the agent's call stands, and whatever it is restored from, its
\* memory, plan, results and budget fit together.
THEOREM Invariance == Spec => []Inv
<1>1. Init => Inv
  BY InitSound
<1>2. Inv /\ [Next]_vars => Inv'
  BY StepKeeps, StutterKeeps
<1> QED
  BY <1>1, <1>2, PTL DEF Spec

\* Every variable keeps its type: no step counter passes its budget.
THEOREM TypeCorrect == Spec => []TypeOK
<1>1. Inv => TypeOK
  BY DEF Inv
<1> QED
  BY <1>1, Invariance, PTL

\* Work the executor did is in the history, unless the call was stopped,
\* interrupted or timed out in the middle of its step.
THEOREM NoLostWork == Spec => []WorkIsRecorded
<1>1. Inv => WorkIsRecorded
  BY DEF Inv
<1> QED
  BY <1>1, Invariance, PTL

\* No two items of the history have the same step number, through runs, single
\* steps, initial actions, compaction and restored checkpoints.
THEOREM NumbersNameSteps == Spec => []StepNumbersDistinct
<1>1. Inv => StepNumbersDistinct
  BY DEF Inv, SoundMemory, StepNumbersDistinct
<1> QED
  BY <1>1, Invariance, PTL

\* A done action executes only as the first of its sequence.
THEOREM DoneIsFirst == Spec => []DoneStandsAlone
<1>1. Inv => DoneStandsAlone
  BY DEF Inv, SoundMemory, DoneStandsAlone
<1> QED
  BY <1>1, Invariance, PTL

\* A call about to report success ends its history with a done result.
THEOREM SuccessRests == Spec => []SuccessIsAnswered
<1>1. ASSUME Inv, phase = "finish"
      PROVE  /\ history # <<>>
             /\ Final.results # <<>> /\ Final.results[Len(Final.results)] = "done"
  <2>1. history # <<>> /\ Has(Final, "done") /\ history \in Seq(Items)
    BY <1>1 DEF Inv, TypeOK, HistoryFits
  <2>2. Len(history) \in 1..Len(history) /\ Final \in Items
    BY <2>1, EmptySeq, ElementOfSeq DEF Final
  <2>3. Len(Final.results) = 1
    BY <1>1, <2>1, <2>2 DEF Inv, SoundMemory, Final
  <2>4. Final.results[1] = "done"
    BY <2>1, <2>3 DEF Has
  <2>5. Final.results # <<>>
    BY <2>3
  <2> QED
    BY <2>1, <2>3, <2>4, <2>5
<1>2. Inv => SuccessIsAnswered
  BY <1>1 DEF SuccessIsAnswered
<1> QED
  BY <1>2, Invariance, PTL

\* A run that used up its budget failed at its last step, and that step ran no
\* action but done.
THEOREM LastStepAnswersOrFails == Spec => []BudgetEndsInError
<1>1. Inv => BudgetEndsInError
  BY DEF Inv
<1> QED
  BY <1>1, Invariance, PTL

\* With an item kept beside the first, compaction keeps coming due.
THEOREM CompactionStaysDue ==
    ASSUME KeepLast > 0
    PROVE  Spec => []CompactionNotAhead
<1>1. Inv => CompactionNotAhead
  BY DEF Inv, SoundMemory, CompactionNotAhead, LatestStep
<1> QED
  BY <1>1, Invariance, PTL

\* While stop or pause is set, nothing is executed and nothing recorded.
THEOREM ControlsAreKept == Spec => ControlsHold
<1>1. ASSUME Inv, [Next]_vars, stopped \/ paused, restores' = restores
      PROVE  history' = history /\ started' <= started
  <2>1. phase \in {"idle", "start"} /\ started \in Nat
    BY <1>1 DEF Inv, TypeOK, PurposeFits
  <2>2. CASE UNCHANGED vars
    BY <2>1, <2>2 DEF vars, memory, sequence
  <2>3. CASE Host
    <3>1. restores \in Nat
      BY <1>1, AgentAssumption DEF Inv, TypeOK
    <3>2. ~FromCheckpoint
      BY <1>1, <3>1 DEF FromCheckpoint
    <3> QED
      BY <2>1, <2>3, <3>2 DEF Host, CallRun, CallStep, Stop, Pause, Resume, AddNewTask,
         SetFallbackLlm, Checkpoint, memory, sequence
  <2>4. CASE Checks
    BY <2>1, <2>4 DEF Checks, EntryRefused, NextStepRefused, AcceptRefused,
       TurnRefused, AfterStepRefused, StepNotDone, CheckRefuses, Return, memory
  <2>5. CASE Proceed \/ Timers \/ Model \/ Looks \/ Act
    <3>1. Enter
      BY <2>1, <2>5 DEF Proceed, Timers, Model, Looks, Act, NextStep,
         StepLimitReached, Accept, Turn, SequenceEnds, InitialActionsRecorded,
         StepIsDone, StepNotDone, LoopDetected, StepSucceeds, StepFails,
         TooManyFailures, FinalResponseFails, SkipCompaction, CompactHistory, Finish,
         ModelTimesOut, ActionTimesOut, StepTimesOut, SwitchToFallback, ModelFails,
         MalformedAnswer, Answer, ConversationSaveFails, Observe, LookBefore, LookAfter
    <3> QED
      BY <1>1, <3>1 DEF Enter, CheckPasses
  <2> QED
    BY <1>1, <2>2, <2>3, <2>4, <2>5 DEF Next
<1>2. Inv /\ [Next]_vars =>
          [(stopped \/ paused) /\ restores' = restores
               => history' = history /\ started' <= started]_vars
  BY <1>1
<1> QED
  BY <1>2, Invariance, PTL DEF Spec, ControlsHold

-----------------------------------------------------------------------------
(* The failures of a run                                                      *)

\* The failed steps stand at the end of the history, before the n newest items.
FailedLast(n) ==
    \A k \in Nat \ {0} : k <= failures /\ k <= KeepLast =>
        /\ k <= Len(history) - n
        /\ Has(history[Len(history) - n - k + 1], "error")

InStep == phase \in {"observe", "ask", "told", "turn", "guard", "act", "after"}
OfTheLoop == purpose \in {"normal", "last"}

\* Outside the loop nothing has failed; inside it the failures are fewer than
\* the steps, fewer than allowed, and the last ones.
FailuresFit ==
    /\ failures \in Nat
    /\ phase \in {"idle", "start"} \/ purpose \in {"single", "initial"} => failures = 0
    /\ phase \in {"head", "compact"} =>
           /\ failures <= stepsUsed /\ (failures = 0 \/ failures < MaxFailures)
           /\ FailedLast(0)
    /\ phase = "compact" \/ (phase = "head" /\ stepsUsed > 0 /\ KeepLast > 0) =>
           (failures = 0 => ~Has(Final, "error"))
    /\ OfTheLoop =>
           /\ failures < stepsUsed /\ (failures = 0 \/ failures < MaxFailures)
           /\ InStep => FailedLast(0)
           /\ phase = "recorded" => FailedLast(1)

\* A call that has returned counts no failures.
LEMMA ReturnFits ==
    ASSUME NEW outcome, Return(outcome)
    PROVE  FailuresFit'
<1>1. /\ failures' = 0 /\ phase' = "idle" /\ purpose' = "none"
  BY DEF Return
<1> QED
  BY <1>1 DEF FailuresFit, OfTheLoop

\* A step that goes on.
LEMMA GoingOnFits ==
    ASSUME FailuresFit, InStep, InStep', UNCHANGED <<history, failures, stepsUsed, purpose>>
    PROVE  FailuresFit'
<1>1. FailedLast(0) => FailedLast(0)'
  BY DEF FailedLast
<1> QED
  BY <1>1 DEF FailuresFit, OfTheLoop, InStep

\* A recorded item is the newest, and the count is of those before it.
LEMMA RecordFits ==
    ASSUME Inv, FailuresFit, InStep, NEW actions, NEW outcome, Record(actions, outcome)
    PROVE  FailuresFit'
<1>1. /\ history \in Seq(Items)
      /\ phase' = (IF purpose = "single" THEN "idle" ELSE "recorded")
      /\ purpose' = (IF purpose = "single" THEN "none" ELSE purpose)
      /\ UNCHANGED <<failures, stepsUsed>>
  BY DEF Record, budget, Inv, TypeOK
<1>2. PICK item : history' = Append(history, item)
  BY DEF Record
<1>3. /\ Len(history') = Len(history) + 1 /\ Len(history) \in Nat
      /\ \A i \in 1..Len(history) : history'[i] = history[i]
  BY <1>1, <1>2
<1>4. ASSUME FailedLast(0) PROVE FailedLast(1)'
  <2> SUFFICES ASSUME NEW k \in Nat \ {0}, k <= failures, k <= KeepLast
               PROVE  /\ k <= Len(history') - 1
                      /\ Has(history'[Len(history') - 1 - k + 1], "error")
    BY <1>1 DEF FailedLast
  <2>1. k <= Len(history) /\ Has(history[Len(history) - k + 1], "error")
    BY <1>3, <1>4 DEF FailedLast
  <2>2. Len(history') - 1 - k + 1 = Len(history) - k + 1 /\ Len(history) - k + 1 \in 1..Len(history)
    BY <1>3, <2>1
  <2> QED
    BY <1>3, <2>1, <2>2
<1>5. purpose = "single" => failures = 0
  BY DEF FailuresFit
<1> QED
  BY <1>1, <1>4, <1>5 DEF FailuresFit, OfTheLoop, InStep

\* The awaits of a step: it returns, records an item, or goes on.
LEMMA StepFits ==
    ASSUME Inv, FailuresFit, Model \/ Timers \/ Looks \/ Act \/ Accept \/ Turn \/ SequenceEnds
    PROVE  FailuresFit'
<1> DEFINE GoesOn == InStep /\ InStep' /\ UNCHANGED <<history, failures, stepsUsed, purpose>>
           Recorded == \E actions, outcome : InStep /\ Record(actions, outcome)
           Returned == \E outcome : Return(outcome)
<1>1. CASE Model \/ ModelTimesOut
  BY <1>1, ReturnFits, RecordFits, GoingOnFits DEF Model, ModelTimesOut, SwitchToFallback, ModelFails,
     MalformedAnswer, Answer, ConversationSaveFails, NoAnswer, RecordError, GoTo, InStep, memory, budget
<1>2. CASE ActionTimesOut \/ StepTimesOut \/ SequenceEnds
  BY <1>2, ReturnFits, RecordFits DEF ActionTimesOut, StepTimesOut, SequenceEnds, InStep
<1>3. CASE Looks
  <2>1. GoesOn \/ Recorded \/ Returned
    BY <1>3 DEF Looks, Observe, LookBefore, LookAfter, LookAfterFails, GoTo, InStep, memory, budget
  <2> QED
    BY <2>1, ReturnFits, RecordFits, GoingOnFits
<1>4. CASE Act
  <2>1. GoesOn \/ Recorded
    BY <1>4 DEF Act, GoTo, InStep, memory, budget
  <2> QED
    BY <2>1, RecordFits, GoingOnFits
<1>5. CASE Accept
  <2>1. GoesOn \/ Recorded
    BY <1>5 DEF Accept, RecordError, GoTo, InStep, memory, budget
  <2> QED
    BY <2>1, RecordFits, GoingOnFits
<1>6. CASE Turn
  <2>1. GoesOn \/ Recorded
    BY <1>6 DEF Turn, GoTo, InStep, memory, budget
  <2> QED
    BY <2>1, RecordFits, GoingOnFits
<1> QED
  BY <1>1, <1>2, <1>3, <1>4, <1>5, <1>6 DEF Timers

\* Between calls no failures are counted.
LEMMA HostFits ==
    ASSUME Inv, FailuresFit, Host
    PROVE  FailuresFit'
<1>1. CASE FromCheckpoint
  BY <1>1 DEF FromCheckpoint, FailuresFit, OfTheLoop
<1>2. CASE ~FromCheckpoint
  <2>1. /\ phase = "idle" /\ UNCHANGED failures /\ phase' \in {"idle", "start"}
        /\ purpose' \in {purpose, "none", "single"}
    BY <1>2 DEF Host, CallRun, CallStep, Stop, Pause, Resume, AddNewTask, SetFallbackLlm,
       Checkpoint, budget
  <2>2. purpose = "none" /\ failures = 0
    BY <2>1 DEF Inv, PurposeFits, FailuresFit
  <2> QED
    BY <2>1, <2>2 DEF FailuresFit, OfTheLoop
<1> QED
  BY <1>1, <1>2

\* The loop's head takes over the count of the step before.
LEMMA HeadFits ==
    ASSUME Inv, FailuresFit,
           Checks \/ Enter \/ NextStep \/ StepLimitReached \/ InitialActionsRecorded
    PROVE  FailuresFit'
<1>1. CASE Checks \/ StepLimitReached
  BY <1>1, ReturnFits DEF Checks, EntryRefused, NextStepRefused, AcceptRefused, TurnRefused,
     AfterStepRefused, CheckRefuses, StepLimitReached
<1>2. CASE Enter \/ InitialActionsRecorded
  <2>1. /\ failures = 0 /\ failures' = 0 /\ stepsUsed' = 0
        /\ purpose' \notin {"normal", "last"} /\ phase' # "compact"
    BY <1>2 DEF Enter, InitialActionsRecorded, GoTo, FailuresFit, Inv, TypeOK, PurposeFits, BudgetFits, budget
  <2> QED
    BY <2>1 DEF FailuresFit, FailedLast, OfTheLoop
<1>3. CASE NextStep
  <2>1. /\ phase = "head" /\ phase' = "observe" /\ purpose' \in {"normal", "last"}
        /\ stepsUsed' = stepsUsed + 1 /\ stepsUsed \in Nat /\ UNCHANGED <<history, failures>>
    BY <1>3 DEF NextStep, Inv, TypeOK, memory
  <2>2. FailedLast(0) => FailedLast(0)'
    BY <2>1 DEF FailedLast
  <2> QED
    BY <2>1, <2>2 DEF FailuresFit, OfTheLoop, InStep
<1> QED
  BY <1>1, <1>2, <1>3

\* What a step of the loop does to the failures.
LEMMA AfterStepFits ==
    ASSUME Inv, FailuresFit,
           \/ StepIsDone \/ LoopDetected \/ StepSucceeds \/ StepFails \/ TooManyFailures
           \/ FinalResponseFails \/ SkipCompaction \/ Finish
    PROVE  FailuresFit'
<1>0. failures \in Nat /\ MaxFailures \in Nat /\ stepsUsed \in Nat /\ Len(history) \in Nat
      /\ history \in Seq(Items)
  BY AgentAssumption DEF FailuresFit, Inv, TypeOK
<1>1. CASE LoopDetected \/ FinalResponseFails \/ Finish \/ (TooManyFailures /\ Return("maxFailures"))
  BY <1>1, ReturnFits DEF LoopDetected, FinalResponseFails, Finish
<1>2. CASE StepIsDone
  BY <1>2 DEF StepIsDone, FailuresFit, OfTheLoop, budget
<1>3. CASE TooManyFailures /\ ~Return("maxFailures")
  <2>1. failures' \in Nat /\ phase' = "observe" /\ purpose' = "apology"
    BY <1>0, <1>3 DEF TooManyFailures
  <2> QED
    BY <2>1 DEF FailuresFit, OfTheLoop
<1>4. CASE StepSucceeds
  <2>1. /\ failures' = 0 /\ phase' = "compact" /\ purpose' = "none" /\ stepsUsed' = stepsUsed
        /\ ~Has(Final, "error") /\ history' = history
    BY <1>4 DEF StepSucceeds, ResetFailures, memory
  <2>2. ~Has(Final', "error")
    BY <2>1 DEF Final
  <2> QED
    BY <1>0, <2>1, <2>2 DEF FailuresFit, FailedLast, OfTheLoop
<1>5. CASE StepFails
  <2>1. /\ phase = "recorded" /\ OfTheLoop /\ Has(Final, "error") /\ failures + 1 < MaxFailures
        /\ failures' = failures + 1 /\ phase' = "compact" /\ purpose' = "none"
        /\ stepsUsed' = stepsUsed /\ history' = history /\ history # <<>>
    BY <1>5 DEF StepFails, StepNotDone, OfTheLoop, memory, Inv, HistoryFits
  <2>2. Len(history) >= 1
    BY <1>0, <2>1
  <2>3. FailedLast(1) /\ failures < stepsUsed
    BY <2>1 DEF FailuresFit
  <2>4. FailedLast(0)'
    <3> SUFFICES ASSUME NEW k \in Nat \ {0}, k <= failures + 1, k <= KeepLast
                 PROVE  /\ k <= Len(history) - 0
                        /\ Has(history[Len(history) - 0 - k + 1], "error")
      BY <2>1 DEF FailedLast
    <3>1. CASE k = 1
      BY <1>0, <2>1, <2>2, <3>1 DEF Final
    <3>2. CASE k # 1
      <4>1. k - 1 \in Nat \ {0} /\ k - 1 <= failures /\ k - 1 <= KeepLast
        BY <1>0, <3>2, AgentAssumption
      <4>2. /\ k - 1 <= Len(history) - 1
            /\ Has(history[Len(history) - 1 - (k - 1) + 1], "error")
        BY <2>3, <4>1 DEF FailedLast
      <4>3. Len(history) - 1 - (k - 1) + 1 = Len(history) - 0 - k + 1
        BY <1>0
      <4> QED
        BY <1>0, <4>2, <4>3
    <3> QED
      BY <3>1, <3>2
  <2> QED
    BY <1>0, <2>1, <2>3, <2>4 DEF FailuresFit, OfTheLoop
<1>6. CASE SkipCompaction
  <2>1. /\ phase = "compact" /\ phase' = "head" /\ purpose' = purpose /\ purpose = "none"
        /\ UNCHANGED <<failures, stepsUsed, history>>
    BY <1>6 DEF SkipCompaction, GoTo, memory, budget, Inv, PurposeFits
  <2>2. (FailedLast(0) => FailedLast(0)') /\ Final' = Final
    BY <2>1 DEF FailedLast, Final
  <2> QED
    BY <2>1, <2>2 DEF FailuresFit, OfTheLoop
<1> QED
  BY <1>1, <1>2, <1>3, <1>4, <1>5, <1>6

\* Compaction keeps as many of the last items as it keeps failures of.
LEMMA CompactionFits ==
    ASSUME Inv, FailuresFit, CompactHistory
    PROVE  FailuresFit'
<1>1. /\ phase = "compact" /\ phase' = "head" /\ purpose' = purpose /\ purpose = "none"
      /\ UNCHANGED <<failures, stepsUsed>> /\ history' = Retained(history)
      /\ history \in Seq(Items) /\ history # <<>> /\ KeepLast \in Nat /\ failures \in Nat
  BY AgentAssumption DEF CompactHistory, GoTo, budget, Inv, TypeOK, PurposeFits, HistoryFits, FailuresFit
<1>2. ASSUME KeepLast > 0 PROVE Final' = Final
  BY <1>1, <1>2, RetainedItems DEF Final
<1>3. FailedLast(0)'
  <2>1. FailedLast(0)
    BY <1>1 DEF FailuresFit
  <2>2. CASE Len(history) <= KeepLast + 1
    BY <1>1, <2>1, <2>2 DEF Retained, FailedLast
  <2>3. CASE ~(Len(history) <= KeepLast + 1)
    <3>1. /\ Len(history') = KeepLast + 1
          /\ \A i \in 2..(KeepLast + 1) : history'[i] = history[Len(history) - KeepLast + i - 1]
      <4> DEFINE From(i) == IF Len(history) <= KeepLast + 1 \/ i = 1 THEN i
                            ELSE Len(history) - KeepLast + i - 1
      <4>1. /\ Len(history') = KeepLast + 1
            /\ \A i \in 1..Len(history') : history'[i] = history[From(i)]
        BY <1>1, <2>3, RetainedItems
      <4> QED
        BY <1>1, <2>3, <4>1
    <3> SUFFICES ASSUME NEW k \in Nat \ {0}, k <= failures, k <= KeepLast
                 PROVE  /\ k <= Len(history') - 0
                        /\ Has(history'[Len(history') - 0 - k + 1], "error")
      BY <1>1 DEF FailedLast
    <3>2. k <= Len(history) /\ Has(history[Len(history) - k + 1], "error") /\ Len(history) \in Nat
      BY <1>1, <2>1 DEF FailedLast
    <3>3. /\ Len(history') - 0 - k + 1 \in 2..(KeepLast + 1)
          /\ Len(history) - KeepLast + (Len(history') - 0 - k + 1) - 1 = Len(history) - k + 1
      BY <1>1, <3>1, <3>2
    <3> QED
      BY <1>1, <3>1, <3>2, <3>3
  <2> QED
    BY <2>2, <2>3
<1> QED
  BY <1>1, <1>2, <1>3 DEF FailuresFit, OfTheLoop

\* Every step keeps the count in agreement with the history.
LEMMA FailuresStepFits == Inv /\ FailuresFit /\ [Next]_vars => FailuresFit'
<1> SUFFICES ASSUME Inv, FailuresFit, [Next]_vars PROVE FailuresFit'
  OBVIOUS
<1>1. CASE UNCHANGED vars
  BY <1>1 DEF vars, memory, budget, FailuresFit, FailedLast, OfTheLoop, InStep, Final
<1>2. CASE Proceed
  BY <1>2, HeadFits, StepFits, AfterStepFits, CompactionFits DEF Proceed
<1>3. CASE Host \/ Checks \/ Timers \/ Model \/ Looks \/ Act
  BY <1>3, HostFits, HeadFits, StepFits
<1> QED
  BY <1>1, <1>2, <1>3 DEF Next

\* The failures a run counts are the failed steps at the end of its history, no
\* matter what compaction drops, and they stay below max_failures.
THEOREM FailuresAreTheLast == Spec => []FailuresAreConsecutive
<1>1. Init => FailuresFit
  BY DEF Init, FailuresFit, OfTheLoop
<1>2. ASSUME Inv, FailuresFit PROVE FailuresAreConsecutive
  <2> SUFFICES ASSUME phase = "head", stepsUsed > 0
               PROVE  /\ failures = 0 \/ failures < MaxFailures
                      /\ failures <= stepsUsed
                      /\ \A k \in 1..Min({failures, KeepLast}) :
                             Has(history[Len(history) + 1 - k], "error")
                      /\ failures = 0 /\ KeepLast > 0 => ~Has(Final, "error")
    BY DEF FailuresAreConsecutive
  <2>1. failures \in Nat /\ KeepLast \in Nat /\ Len(history) \in Nat
    BY <1>2, AgentAssumption DEF FailuresFit, Inv, TypeOK
  <2>2. ASSUME NEW k \in 1..Min({failures, KeepLast})
        PROVE  Has(history[Len(history) + 1 - k], "error")
    <3>1. k \in Nat \ {0} /\ k <= failures /\ k <= KeepLast
      BY <2>1, <2>2, MinOfTwo
    <3>2. Has(history[Len(history) - 0 - k + 1], "error")
      BY <1>2, <3>1 DEF FailuresFit, FailedLast
    <3>3. Len(history) - 0 - k + 1 = Len(history) + 1 - k
      BY <2>1, <3>1
    <3> QED
      BY <3>2, <3>3
  <2> QED
    BY <1>2, <2>2 DEF FailuresFit
<1> QED
  BY <1>1, <1>2, FailuresStepFits, Invariance, PTL DEF Spec
=============================================================================
