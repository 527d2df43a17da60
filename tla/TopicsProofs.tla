---------------------------- MODULE TopicsProofs ----------------------------
(***************************************************************************)
(* Proofs about Topics, for any topics, any number of slots and any        *)
(* filters in the format that isTopicMatched assumes.                      *)
(***************************************************************************)
EXTENDS Topics, SequenceTheorems, FiniteSetTheorems, WellFoundedInduction,
        TLAPS

\* isTopicMatched runs for a slot with a filter, from its first character on.
Comparing == curf > 0 => i \in Slots /\ curn > 0 /\ filter # <<>>

\* What every step preserves of the places in slots, filters and topic.
IInv == TypeOK /\ Comparing

------------------------------------------------------------------------------
\* What the topic is, in every state.
LEMMA TheTopic ==
    ASSUME TypeOK
    PROVE  /\ topicName \in Seq(STRING) /\ Len(topicName) \in Nat \ {0}
           /\ DOMAIN topicName = 1 .. Len(topicName)
           /\ curn_end = Len(topicName) + 1
           /\ \A k \in DOMAIN topicName : topicName[k] \notin {"+", "#"}
<1>1. /\ topicName \in Seq(STRING) /\ topicName # <<>>
      /\ ToSet(topicName) \cap {"+", "#"} = {}
  BY NameAssumption DEF TypeOK
<1>2. /\ Len(topicName) \in Nat \ {0}
      /\ DOMAIN topicName = 1 .. Len(topicName)
  BY <1>1, LenProperties, EmptySeq
<1>3. \A k \in DOMAIN topicName : topicName[k] \notin {"+", "#"}
  BY <1>1 DEF ToSet
<1>4. QED
  BY <1>1, <1>2, <1>3 DEF curn_end

\* And the filter of a slot.
LEMMA TheFilter ==
    ASSUME TypeOK
    PROVE  /\ Slots = 1 .. Len(SlotFilters) /\ Len(SlotFilters) \in Nat
           /\ \A s \in Slots :
                 /\ messageHandlers[s] \in Seq(STRING)
                 /\ Len(messageHandlers[s]) \in Nat
                 /\ DOMAIN messageHandlers[s] = 1 .. Len(messageHandlers[s])
                 /\ messageHandlers[s] # <<>> => Len(messageHandlers[s]) > 0
                 /\ InFormat(messageHandlers[s])
<1>1. /\ Slots = 1 .. Len(SlotFilters) /\ Len(SlotFilters) \in Nat
      /\ \A s \in Slots : SlotFilters[s] \subseteq Seq(STRING)
  BY FilterAssumption, LenProperties, ElementOfSeq DEF Slots
<1>2. ASSUME NEW s \in Slots
      PROVE  /\ messageHandlers[s] \in Seq(STRING)
             /\ InFormat(messageHandlers[s])
  BY <1>1, FilterAssumption DEF TypeOK, Slots
<1>3. \A s \in Slots :
         /\ Len(messageHandlers[s]) \in Nat
         /\ DOMAIN messageHandlers[s] = 1 .. Len(messageHandlers[s])
         /\ messageHandlers[s] # <<>> => Len(messageHandlers[s]) > 0
  BY <1>2, LenProperties, EmptySeq
<1>4. QED
  BY <1>1, <1>2, <1>3

\* A level has an end: the first character at or behind n that a separator
\* or the end of the topic follows.
LEMMA LevelsEnd ==
    ASSUME TypeOK, NEW n \in 1 .. Len(topicName)
    PROVE  /\ LevelEnd(n) \in n .. Len(topicName)
           /\ \/ LevelEnd(n) = Len(topicName)
              \/ topicName[LevelEnd(n) + 1] = "/"
           /\ \A k \in n + 1 .. LevelEnd(n) : topicName[k] # "/"
<1>1. Len(topicName) \in Nat
  BY TheTopic
<1> DEFINE T == {e \in n .. Len(topicName) :
                    e = Len(topicName) \/ topicName[e + 1] = "/"}
           R == {p \in Nat \X Nat : p[1] < p[2]}
<1>2. Len(topicName) \in T /\ T \subseteq Nat
  BY <1>1
<1>3. PICK e \in T : \A y \in T : ~(<<y, e>> \in R)
  <2>1. IsWellFoundedOn(R, Nat)
    BY NatLessThanWellFounded, Zenon DEF OpToRel
  <2> HIDE DEF T, R
  <2>2. QED
    BY <1>2, <2>1, WFMin
<1>4. \A y \in T : ~(y < e)
  BY <1>2, <1>3
<1>5. \A k \in n + 1 .. e : topicName[k] # "/"
  <2> SUFFICES ASSUME NEW k \in n + 1 .. e, topicName[k] = "/"
               PROVE  FALSE
    OBVIOUS
  <2>1. e \in n .. Len(topicName)
    BY <1>3
  <2>2. k - 1 \in n .. Len(topicName) /\ k - 1 + 1 = k /\ k - 1 < e
    BY <1>1, <2>1
  <2>3. k - 1 \in T
    BY <2>2
  <2>4. QED
    BY <1>4, <2>2, <2>3
<1>6. \E x \in n .. Len(topicName) :
         /\ x = Len(topicName) \/ topicName[x + 1] = "/"
         /\ \A k \in n + 1 .. x : topicName[k] # "/"
  BY <1>3, <1>5
<1>7. QED
  BY <1>6 DEF LevelEnd

------------------------------------------------------------------------------
\* In the beginning no slot has been looked at.
LEMMA InitIInv == Init => IInv
<1> SUFFICES ASSUME Init PROVE IInv
  OBVIOUS
<1>1. /\ \A s \in Slots : messageHandlers[s] \in SlotFilters[s]
      /\ topicName \in Names
      /\ i = 1 /\ curf = 0 /\ curn = 0 /\ called = {}
  BY DEF Init
<1>2. /\ Slots = 1 .. Len(SlotFilters) /\ Len(SlotFilters) \in Nat
      /\ Len(topicName) \in Nat
  BY <1>1, NameAssumption, FilterAssumption, LenProperties DEF Slots
<1>3. i \in Slots => Len(filter) \in Nat
  <2> SUFFICES ASSUME i \in Slots PROVE Len(filter) \in Nat
    OBVIOUS
  <2>1. messageHandlers[i] \in SlotFilters[i]
    BY <1>1
  <2>2. SlotFilters[i] \subseteq Seq(STRING)
    BY FilterAssumption, <1>2, ElementOfSeq
  <2>3. QED
    BY <2>1, <2>2, LenProperties DEF filter
<1>4. TypeOK
  BY <1>1, <1>2, <1>3 DEF TypeOK, curn_end
<1>5. Comparing
  BY <1>1 DEF Comparing
<1>6. QED
  BY <1>4, <1>5 DEF IInv

\* When deliverMessage has decided on a slot it turns to the next.
LEMMA NextSlot ==
    ASSUME IInv, i \in Slots, UNCHANGED input, i' = i + 1,
           curf' = 0, curn' \in 0 .. curn_end,
           called' \in {called, called \cup {i}}
    PROVE  IInv'
<1>1. TypeOK
  BY DEF IInv
<1>2. /\ messageHandlers' = messageHandlers /\ topicName' = topicName
      /\ curn_end' = curn_end
  BY DEF input, curn_end
<1>3. /\ Slots = 1 .. Len(SlotFilters) /\ Len(SlotFilters) \in Nat
      /\ Slots' = Slots
      /\ \A s \in Slots : Len(messageHandlers[s]) \in Nat
  BY <1>1, TheFilter DEF Slots
<1>4. i \in Nat /\ i' \in 1 .. Len(SlotFilters) + 1
  BY <1>3
<1>5. TypeOK'
  <2>1. called' \subseteq Slots
    BY <1>1 DEF TypeOK
  <2>2. i' \in Slots => Len(filter') \in Nat
    BY <1>2, <1>3 DEF filter
  <2>3. curf' \in 0 .. (IF i' \in Slots' THEN Len(filter') + 1 ELSE 0)
    BY <1>3, <2>2
  <2>4. QED
    BY <1>1, <1>2, <1>3, <1>4, <2>1, <2>3 DEF TypeOK
<1>6. Comparing'
  BY DEF Comparing
<1>7. QED
  BY <1>5, <1>6 DEF IInv

\* A slot that is empty, or whose filter is the topic, is decided on at once.
LEMMA DecidedIInv ==
    ASSUME IInv, Decided
    PROVE  IInv'
<1>1. /\ i \in Slots /\ UNCHANGED input /\ i' = i + 1
      /\ curf' = 0 /\ curn' \in 0 .. curn_end
      /\ called' \in {called, called \cup {i}}
  BY DEF Decided, IInv, TypeOK
<1>2. QED
  BY <1>1, NextSlot

\* isTopicMatched begins with the first characters.
LEMMA ComparesIInv ==
    ASSUME IInv, Compares
    PROVE  IInv'
<1>1. /\ i \in Slots /\ curf' = 1 /\ curn' = 1 /\ filter # <<>>
      /\ UNCHANGED <<input, i, called>> /\ TypeOK
  BY DEF Compares, IInv
<1>2. /\ messageHandlers' = messageHandlers /\ topicName' = topicName
      /\ filter' = filter /\ curn_end' = curn_end /\ Slots' = Slots
      /\ i' = i /\ called' = called
  BY <1>1 DEF input, filter, curn_end, Slots
<1>3. /\ Len(filter) \in Nat \ {0} /\ Len(topicName) \in Nat \ {0}
      /\ curn_end = Len(topicName) + 1
  BY <1>1, TheTopic, TheFilter DEF filter
<1>4. TypeOK'
  BY <1>1, <1>2, <1>3 DEF TypeOK
<1>5. Comparing'
  BY <1>1, <1>2 DEF Comparing
<1>6. QED
  BY <1>4, <1>5 DEF IInv

\* A turn of the loop goes on in both, at most to their ends.
LEMMA AdvanceIInv ==
    ASSUME IInv, Advance
    PROVE  IInv'
<1>1. /\ TypeOK /\ curf > 0 /\ i \in Slots /\ curn > 0 /\ filter # <<>>
      /\ curf' = curf + 1 /\ UNCHANGED <<input, i, called>>
      /\ curf \in DOMAIN filter /\ curn < curn_end
  BY DEF IInv, Comparing, Advance, Looping
<1>2. /\ messageHandlers' = messageHandlers /\ topicName' = topicName
      /\ filter' = filter /\ curn_end' = curn_end /\ Slots' = Slots
      /\ i' = i /\ called' = called
  BY <1>1 DEF input, filter, curn_end, Slots
<1>3. /\ Len(filter) \in Nat /\ DOMAIN filter = 1 .. Len(filter)
      /\ Len(topicName) \in Nat /\ curn_end = Len(topicName) + 1
      /\ curn \in 1 .. Len(topicName)
  <2>1. /\ Len(filter) \in Nat /\ DOMAIN filter = 1 .. Len(filter)
        /\ Len(topicName) \in Nat /\ curn_end = Len(topicName) + 1
    BY <1>1, TheTopic, TheFilter DEF filter
  <2>2. curn \in 0 .. curn_end
    BY <1>1 DEF TypeOK
  <2>3. QED
    BY <1>1, <2>1, <2>2
<1>4. curn' \in 1 .. curn_end
  <2>1. LevelEnd(curn) \in curn .. Len(topicName)
    BY <1>1, <1>3, LevelsEnd
  <2>2. \/ curn' = LevelEnd(curn) + 1
        \/ curn' = curn_end
        \/ curn' = curn + 1
    BY DEF Advance
  <2>3. QED
    BY <1>3, <2>1, <2>2
<1>5. TypeOK'
  <2>1. curf' \in 0 .. Len(filter) + 1
    BY <1>1, <1>3
  <2>2. curn' \in 0 .. curn_end
    BY <1>3, <1>4
  <2>3. QED
    BY <1>1, <1>2, <2>1, <2>2 DEF TypeOK
<1>6. Comparing'
  BY <1>1, <1>2, <1>3, <1>4 DEF Comparing
<1>7. QED
  BY <1>5, <1>6 DEF IInv

\* When the loop has ended deliverMessage turns to the next slot.
LEMMA ComparedIInv ==
    ASSUME IInv, Compared
    PROVE  IInv'
<1>1. /\ UNCHANGED input /\ i' = i + 1 /\ curf' = 0 /\ curn' = 0
      /\ called' \in {called, called \cup {i}}
  BY DEF Compared
<1>2. i \in Slots /\ TypeOK
  BY DEF IInv, Comparing, Compared
<1>3. curn' \in 0 .. curn_end
  BY <1>1, <1>2, TheTopic
<1>4. QED
  BY <1>1, <1>2, <1>3, NextSlot

\* Every step preserves the inductive invariant.
LEMMA NextIInv == IInv /\ [Next]_vars => IInv'
<1>1. ASSUME IInv, UNCHANGED vars
      PROVE  IInv'
  BY <1>1 DEF vars, input, IInv, TypeOK, Comparing, filter, curn_end
<1>2. QED
  BY <1>1, DecidedIInv, ComparesIInv, AdvanceIInv, ComparedIInv
  DEF Next, Returned

\* The loops of deliverMessage and isTopicMatched never look behind the last
\* slot, the end of a filter or the end of a topic.
THEOREM TopicsTypeCorrect == Spec => []TypeOK
<1>1. IInv => TypeOK
  BY DEF IInv
<1>2. QED
  BY InitIInv, NextIInv, <1>1, PTL DEF Spec

------------------------------------------------------------------------------
(***************************************************************************)
(* The levels of a topic.                                                  *)
(***************************************************************************)
\* Between b and e lies one level of t.
IsLevel(t, b, e) ==
    /\ b \in Bounds(t) /\ e \in Bounds(t) /\ b < e
    /\ \A k \in b + 1 .. e - 1 : t[k] # "/"

LEMMA BoundsOf ==
    ASSUME NEW t \in Seq(STRING)
    PROVE  /\ Len(t) \in Nat
           /\ IsFiniteSet(Bounds(t)) /\ Bounds(t) \subseteq 0 .. Len(t) + 1
           /\ 0 \in Bounds(t) /\ Len(t) + 1 \in Bounds(t)
           /\ \A k \in 1 .. Len(t) : k \in Bounds(t) <=> t[k] = "/"
           /\ \A k : /\ IsFiniteSet({b \in Bounds(t) : b < k})
                     /\ Before(t, k) \in Nat
<1>1. Len(t) \in Nat /\ DOMAIN t = 1 .. Len(t)
  BY LenProperties
<1>2. /\ Bounds(t) \subseteq 0 .. Len(t) + 1
      /\ 0 \in Bounds(t) /\ Len(t) + 1 \in Bounds(t)
      /\ \A k \in 1 .. Len(t) : k \in Bounds(t) <=> t[k] = "/"
  BY <1>1 DEF Bounds
<1>3. IsFiniteSet(0 .. Len(t) + 1)
  BY <1>1, FS_Interval
<1>4. \A S : S \subseteq Bounds(t) => IsFiniteSet(S)
  BY <1>2, <1>3, FS_Subset
<1>5. \A k : {b \in Bounds(t) : b < k} \subseteq Bounds(t)
  OBVIOUS
<1>6. \A k : IsFiniteSet({b \in Bounds(t) : b < k}) /\ Before(t, k) \in Nat
  BY <1>4, <1>5, FS_CardinalityType DEF Before
<1>7. QED
  BY <1>1, <1>2, <1>4, <1>6

\* A level ends where the next begins.
LEMMA LevelEnds ==
    ASSUME NEW t \in Seq(STRING), NEW b \in Bounds(t), b <= Len(t)
    PROVE  \E e \in Bounds(t) : IsLevel(t, b, e)
<1> DEFINE T == {e \in Bounds(t) : b < e}
           R == {p \in Nat \X Nat : p[1] < p[2]}
<1>1. /\ Len(t) \in Nat /\ b \in Nat
      /\ Bounds(t) \subseteq 0 .. Len(t) + 1 /\ Len(t) + 1 \in Bounds(t)
      /\ \A k \in 1 .. Len(t) : k \in Bounds(t) <=> t[k] = "/"
  BY BoundsOf
<1>2. Len(t) + 1 \in T /\ T \subseteq Nat
  BY <1>1
<1>3. PICK e \in T : \A y \in T : ~(<<y, e>> \in R)
  <2>1. IsWellFoundedOn(R, Nat)
    BY NatLessThanWellFounded, Zenon DEF OpToRel
  <2> HIDE DEF T, R
  <2>2. QED
    BY <1>2, <2>1, WFMin
<1>4. \A y \in T : ~(y < e)
  BY <1>2, <1>3
<1>5. \A k \in b + 1 .. e - 1 : t[k] # "/"
  <2> SUFFICES ASSUME NEW k \in b + 1 .. e - 1, t[k] = "/"
               PROVE  FALSE
    OBVIOUS
  <2>1. e \in 0 .. Len(t) + 1
    BY <1>1, <1>3
  <2>2. k \in 1 .. Len(t) /\ b < k /\ k < e
    BY <1>1, <2>1
  <2>3. QED
    BY <1>1, <1>4, <2>2
<1>6. QED
  BY <1>3, <1>5 DEF IsLevel

\* It is the one behind it, counted from the left.
LEMMA LevelsCount ==
    ASSUME NEW t \in Seq(STRING), NEW b, NEW e, IsLevel(t, b, e)
    PROVE  Before(t, e) = Before(t, b) + 1
<1> DEFINE S == {c \in Bounds(t) : c < b}
<1>1. /\ IsFiniteSet(S) /\ Len(t) \in Nat
      /\ Bounds(t) \subseteq 0 .. Len(t) + 1
      /\ \A k \in 1 .. Len(t) : k \in Bounds(t) <=> t[k] = "/"
  BY BoundsOf
<1>2. /\ b \in Bounds(t) /\ e \in Bounds(t) /\ b < e
      /\ \A k \in b + 1 .. e - 1 : t[k] # "/"
  BY DEF IsLevel
<1>3. {c \in Bounds(t) : c < e} = S \cup {b}
  <2>1. ASSUME NEW c \in Bounds(t), c < e, ~(c < b), c # b PROVE FALSE
    <3>1. c \in b + 1 .. e - 1 /\ c \in 1 .. Len(t)
      BY <1>1, <1>2, <2>1
    <3>2. QED
      BY <1>1, <1>2, <3>1
  <2>2. \A c \in Bounds(t) : c < b => c < e
    BY <1>1, <1>2
  <2>3. QED
    BY <1>2, <2>1, <2>2
<1>4. b \notin S
  BY <1>1, <1>2
<1> HIDE DEF S
<1>5. Cardinality(S \cup {b}) = Cardinality(S) + 1
  BY <1>1, <1>4, FS_AddElement
<1>6. QED
  BY <1>3, <1>5 DEF Before, S

\* So the bounds are told apart by their number.
LEMMA BoundsAreNumbered ==
    ASSUME NEW t \in Seq(STRING), NEW b \in Bounds(t)
    PROVE  BoundAt(t, Before(t, b)) = b
<1>1. /\ Bounds(t) \subseteq Int
      /\ \A k : IsFiniteSet({c \in Bounds(t) : c < k})
  BY BoundsOf
<1>2. ASSUME NEW x \in Bounds(t), NEW y \in Bounds(t), x < y,
             Before(t, x) = Before(t, y)
      PROVE  FALSE
  <2> DEFINE X == {c \in Bounds(t) : c < x}
             Y == {c \in Bounds(t) : c < y}
  <2>1. X \in SUBSET Y /\ x \in Y /\ x \notin X
    BY <1>1, <1>2
  <2>2. IsFiniteSet(Y) /\ Cardinality(X) = Cardinality(Y)
    BY <1>1, <1>2 DEF Before
  <2> HIDE DEF X, Y
  <2>3. X = Y
    BY <2>1, <2>2, FS_Subset
  <2>4. QED
    BY <2>1, <2>3
<1>3. \A x \in Bounds(t) : Before(t, x) = Before(t, b) => x = b
  <2> SUFFICES ASSUME NEW x \in Bounds(t), Before(t, x) = Before(t, b), x # b
               PROVE  FALSE
    OBVIOUS
  <2>1. x < b \/ b < x
    BY <1>1
  <2>2. QED
    BY <1>2, <2>1
<1>4. QED
  BY <1>3 DEF BoundAt

\* The number of levels, and what the last one is.
LEMMA HowManyLevels ==
    ASSUME NEW t \in Seq(STRING)
    PROVE  /\ Len(Levels(t)) = Before(t, Len(t) + 1)
           /\ Len(Levels(t)) \in Nat \ {0}
           /\ DOMAIN Levels(t) = 1 .. Len(Levels(t))
           /\ Last(Levels(t)) = Levels(t)[Len(Levels(t))]
<1> DEFINE n == Len(t) + 1
           S == {c \in Bounds(t) : c < n}
           X == {Levels(t)[k] : k \in 1 .. Before(t, n)}
<1>1. /\ IsFiniteSet(S) /\ Len(t) \in Nat /\ Before(t, n) \in Nat
      /\ Bounds(t) \subseteq 0 .. n /\ n \in Bounds(t) /\ 0 \in Bounds(t)
  BY BoundsOf
<1>2. Bounds(t) = S \cup {n} /\ n \notin S /\ 0 \in S
  BY <1>1
<1>3. Before(t, n) = Cardinality(S)
  BY DEF Before
<1> HIDE DEF S
<1>4. Cardinality(Bounds(t)) = Cardinality(S) + 1
  <2>1. IsFiniteSet(S)
    BY <1>1
  <2>2. Cardinality(S \cup {n}) = IF n \in S THEN Cardinality(S)
                                  ELSE Cardinality(S) + 1
    BY <2>1, FS_AddElement
  <2>3. QED
    BY <1>2, <2>2
<1>5. Cardinality(S) # 0
  BY <1>1, <1>2, FS_EmptySet
<1>6. Cardinality(Bounds(t)) - 1 = Before(t, n)
  BY <1>1, <1>3, <1>4
<1>7. Levels(t) = [k \in 1 .. Before(t, n) |-> Levels(t)[k]]
  BY <1>6 DEF Levels
<1> HIDE DEF n
<1>8. Levels(t) \in [1 .. Before(t, n) -> X]
  BY <1>7
<1>9. Levels(t) \in Seq(X) /\ Len(Levels(t)) = Before(t, n)
  <2> HIDE DEF X
  <2>1. QED
    BY <1>1, <1>8
<1>10. QED
  BY <1>1, <1>3, <1>5, <1>8, <1>9 DEF n, Last

\* What a level is.
LEMMA TheLevel ==
    ASSUME NEW t \in Seq(STRING), NEW b, NEW e, IsLevel(t, b, e),
           NEW n, n = Before(t, b) + 1
    PROVE  /\ n \in 1 .. Len(Levels(t))
           /\ n = Len(Levels(t)) <=> e = Len(t) + 1
           /\ Levels(t)[n] \in Seq(STRING)
           /\ Len(Levels(t)[n]) = e - b - 1
           /\ \A k \in 1 .. e - b - 1 : Levels(t)[n][k] = t[b + k]
<1>1. /\ Len(t) \in Nat /\ Bounds(t) \subseteq 0 .. Len(t) + 1
      /\ Len(t) + 1 \in Bounds(t) /\ \A k : Before(t, k) \in Nat
  BY BoundsOf
<1>2. /\ b \in 0 .. Len(t) + 1 /\ e \in 0 .. Len(t) + 1
      /\ b < e /\ b \in Bounds(t) /\ e \in Bounds(t)
  BY <1>1 DEF IsLevel
<1>3. Before(t, e) = n /\ n - 1 = Before(t, b) /\ n \in Nat \ {0}
  BY <1>1, LevelsCount
<1>4. BoundAt(t, n) = e /\ BoundAt(t, n - 1) = b
  BY <1>2, <1>3, BoundsAreNumbered
<1>5. /\ Len(Levels(t)) = Before(t, Len(t) + 1)
      /\ DOMAIN Levels(t) = 1 .. Len(Levels(t)) /\ Len(Levels(t)) \in Nat
  BY HowManyLevels
<1>6. n <= Before(t, Len(t) + 1)
  <2> DEFINE X == {c \in Bounds(t) : c < e}
             Y == {c \in Bounds(t) : c < Len(t) + 1}
  <2>1. X \in SUBSET Y
    BY <1>1, <1>2
  <2>2. IsFiniteSet(Y)
    BY BoundsOf
  <2> HIDE DEF X, Y
  <2>3. Cardinality(X) <= Cardinality(Y)
    BY <2>1, <2>2, FS_Subset
  <2>4. QED
    BY <1>3, <2>3 DEF Before, X, Y
<1>7. n \in 1 .. Len(Levels(t))
  BY <1>3, <1>5, <1>6
<1>8. n = Len(Levels(t)) <=> e = Len(t) + 1
  <2>1. BoundAt(t, Len(Levels(t))) = Len(t) + 1
    BY <1>1, <1>5, BoundsAreNumbered
  <2>2. QED
    BY <1>3, <1>4, <1>5, <2>1
<1>9. Levels(t)[n] = SubSeq(t, b + 1, e - 1)
  <2>1. n \in 1 .. Cardinality(Bounds(t)) - 1
    BY <1>5, <1>7 DEF Levels
  <2>2. QED
    BY <1>4, <2>1 DEF Levels
<1>10. /\ SubSeq(t, b + 1, e - 1) \in Seq(STRING)
       /\ Len(SubSeq(t, b + 1, e - 1)) = e - b - 1
       /\ \A k \in 1 .. e - b - 1 : SubSeq(t, b + 1, e - 1)[k] = t[b + k]
  <2> DEFINE m == b + 1
             l == e - 1
             s == SubSeq(t, m, l)
  <2>1. m \in Int /\ l \in Int /\ \A k \in m .. l : t[k] \in STRING
    <3>1. \A k \in m .. l : k \in 1 .. Len(t)
      BY <1>1, <1>2
    <3>2. QED
      BY <1>2, <3>1, ElementOfSeq
  <2>2. /\ l - m + 1 = e - b - 1
        /\ (IF m <= l THEN l - m + 1 ELSE 0) = e - b - 1
        /\ \A k \in Int : m + k - 1 = b + k
    BY <1>1, <1>2
  <2> HIDE DEF m, l
  <2>3. /\ s \in Seq(STRING)
        /\ Len(s) = IF m <= l THEN l - m + 1 ELSE 0
        /\ \A k \in 1 .. l - m + 1 : s[k] = t[m + k - 1]
    BY <2>1, SubSeqProperties
  <2>4. Len(s) = e - b - 1
    BY <2>2, <2>3
  <2>5. \A k \in 1 .. e - b - 1 : s[k] = t[b + k]
    <3> TAKE k \in 1 .. e - b - 1
    <3>1. k \in 1 .. l - m + 1 /\ k \in Int
      BY <2>2
    <3>2. s[k] = t[m + k - 1] /\ m + k - 1 = b + k
      BY <2>2, <2>3, <3>1
    <3> HIDE DEF s
    <3>3. QED
      BY <3>2
  <2>6. QED
    BY <2>3, <2>4, <2>5 DEF m, l
<1>11. QED
  BY <1>7, <1>8, <1>9, <1>10

\* Levels are equal if their characters are, and one of a single character
\* is that character.
LEMMA EqualLevels ==
    ASSUME NEW f \in Seq(STRING), NEW name \in Seq(STRING),
           NEW bf, NEW ef, IsLevel(f, bf, ef),
           NEW bn, NEW en, IsLevel(name, bn, en),
           Before(f, bf) = Before(name, bn)
    PROVE  LET n == Before(f, bf) + 1
           IN  Levels(f)[n] = Levels(name)[n] <=>
                  /\ ef - bf = en - bn
                  /\ \A k \in 1 .. ef - bf - 1 : f[bf + k] = name[bn + k]
<1> DEFINE n == Before(f, bf) + 1
           F == Levels(f)[n]
           N == Levels(name)[n]
<1>1. /\ F \in Seq(STRING) /\ Len(F) = ef - bf - 1
      /\ \A k \in 1 .. ef - bf - 1 : F[k] = f[bf + k]
  BY TheLevel
<1>2. /\ N \in Seq(STRING) /\ Len(N) = en - bn - 1
      /\ \A k \in 1 .. en - bn - 1 : N[k] = name[bn + k]
  BY TheLevel
<1>3. bf \in Int /\ ef \in Int /\ bn \in Int /\ en \in Int
  <2>1. \A t \in Seq(STRING) : Bounds(t) \subseteq Int
    BY BoundsOf
  <2>2. QED
    BY <2>1 DEF IsLevel
<1> HIDE DEF F, N
<1>4. F = N <=> Len(F) = Len(N) /\ \A k \in 1 .. Len(F) : F[k] = N[k]
  BY <1>1, <1>2, SeqEqual
<1>5. ef - bf - 1 = en - bn - 1 <=> ef - bf = en - bn
  BY <1>3
<1>6. F = N <=> /\ ef - bf = en - bn
                /\ \A k \in 1 .. ef - bf - 1 : f[bf + k] = name[bn + k]
  BY <1>1, <1>2, <1>4, <1>5
<1>7. QED
  BY <1>6 DEF F, N

LEMMA OneCharacterLevel ==
    ASSUME NEW t \in Seq(STRING), NEW b, NEW e, IsLevel(t, b, e),
           NEW n, n = Before(t, b) + 1
    PROVE  /\ \A w : Levels(t)[n] = <<w>> <=> e = b + 2 /\ t[b + 1] = w
           /\ Levels(t)[n] # <<>> <=> e > b + 1
<1> DEFINE L == Levels(t)[n]
<1>1. /\ L \in Seq(STRING) /\ Len(L) = e - b - 1
      /\ \A k \in 1 .. e - b - 1 : L[k] = t[b + k]
  BY TheLevel
<1>2. b \in Int /\ e \in Int /\ b < e
  BY BoundsOf DEF IsLevel
<1> HIDE DEF L
<1>3. ASSUME NEW w, L = <<w>>
      PROVE  e = b + 2 /\ t[b + 1] = w
  <2>1. Len(L) = 1 /\ L[1] = w
    BY <1>3
  <2>2. e = b + 2 /\ 1 \in 1 .. e - b - 1
    <3>1. e - b - 1 = 1
      BY <1>1, <2>1
    <3>2. QED
      BY <1>2, <3>1
  <2>3. QED
    BY <1>1, <2>1, <2>2
<1>4. ASSUME NEW w, e = b + 2, t[b + 1] = w
      PROVE  L = <<w>>
  <2>1. e - b - 1 = 1
    BY <1>2, <1>4
  <2>2. Len(L) = 1 /\ L[1] = w
    BY <1>1, <1>4, <2>1
  <2>3. L = [k \in 1 .. 1 |-> L[k]]
    BY <1>1, <2>2, LenProperties
  <2>4. QED
    BY <2>2, <2>3
<1>5. L # <<>> <=> e > b + 1
  <2>1. L = <<>> <=> Len(L) = 0
    BY <1>1, EmptySeq
  <2>2. QED
    BY <1>1, <1>2, <2>1
<1>6. QED
  BY <1>3, <1>4, <1>5 DEF L

------------------------------------------------------------------------------
(***************************************************************************)
(* Matching by levels.                                                     *)
(***************************************************************************)
\* The n-th levels match.
LevelFits(f, name, n) ==
    \/ Levels(f)[n] = Levels(name)[n]
    \/ Levels(f)[n] \in {<<"+">>, <<"#">>} /\ Levels(name)[n] # <<>>

LEMMA MatchesByLevel ==
    ASSUME NEW f \in Seq(STRING), NEW name \in Seq(STRING)
    PROVE  LET last == Len(Levels(f))
               n    == Len(Levels(name))
           IN  Matches(f, name) <=>
                  /\ IF Levels(f)[last] = <<"#">> THEN n >= last
                                                  ELSE n = last
                  /\ \A k \in 1 .. last : LevelFits(f, name, k)
BY HowManyLevels DEF Matches, LevelFits

\* The loop has reached the places p and q in levels that begin at bf and bn:
\* the levels before match, and the part of this one that is behind it.
Reached(f, name, bf, bn, p, q) ==
    /\ bf \in Bounds(f) /\ bn \in Bounds(name)
    /\ bf < p /\ bn < q
    /\ Before(f, bf) = Before(name, bn)
    /\ \A n \in 1 .. Before(f, bf) : LevelFits(f, name, n)
    /\ \A k \in bf + 1 .. p - 1 : f[k] # "/"
    /\ \A k \in bn + 1 .. q - 1 : name[k] # "/"
    /\ \/ /\ p - bf = q - bn
          /\ \A k \in 1 .. p - bf - 1 : f[bf + k] = name[bn + k]
       \/ p = bf + 2 /\ f[bf + 1] = "+" /\ q > bn + 1 /\ q \in Bounds(name)

\* Where both levels end they match.
LEMMA LevelIsBehind ==
    ASSUME NEW f \in Seq(STRING), NEW name \in Seq(STRING),
           NEW bf, NEW bn, NEW p \in Bounds(f), NEW q \in Bounds(name),
           Reached(f, name, bf, bn, p, q)
    PROVE  /\ IsLevel(f, bf, p) /\ IsLevel(name, bn, q)
           /\ Before(f, p) = Before(name, q)
           /\ \A n \in 1 .. Before(f, p) : LevelFits(f, name, n)
<1>1. IsLevel(f, bf, p) /\ IsLevel(name, bn, q)
  BY DEF IsLevel, Reached
<1>2. /\ Before(f, p) = Before(f, bf) + 1
      /\ Before(name, q) = Before(name, bn) + 1
      /\ Before(f, bf) = Before(name, bn) /\ Before(f, bf) \in Nat
  BY <1>1, LevelsCount, BoundsOf DEF Reached
<1>3. LevelFits(f, name, Before(f, p))
  <2>1. CASE /\ p - bf = q - bn
             /\ \A k \in 1 .. p - bf - 1 : f[bf + k] = name[bn + k]
    BY <1>1, <1>2, <2>1, EqualLevels DEF LevelFits
  <2>2. CASE p = bf + 2 /\ f[bf + 1] = "+" /\ q > bn + 1
    <3> DEFINE n == Before(f, p)
    <3>1. n = Before(f, bf) + 1 /\ n = Before(name, bn) + 1
      BY <1>2
    <3> HIDE DEF n
    <3>2. Levels(f)[n] = <<"+">>
      BY <1>1, <2>2, <3>1, OneCharacterLevel
    <3>3. Levels(name)[n] # <<>>
      BY <1>1, <2>2, <3>1, OneCharacterLevel
    <3>4. QED
      BY <3>2, <3>3 DEF LevelFits, n
  <2>3. QED
    BY <2>1, <2>2 DEF Reached
<1>4. \A n \in 1 .. Before(f, p) :
         n = Before(f, p) \/ n \in 1 .. Before(f, bf)
  BY <1>2
<1>5. QED
  BY <1>1, <1>2, <1>3, <1>4 DEF Reached

\* A comparison can go on from where it is, or it is at both ends, if the
\* filter matches the topic.
LEMMA MatchGoesOn ==
    ASSUME NEW f \in Seq(STRING), NEW name \in Seq(STRING), InFormat(f),
           \A k \in 1 .. Len(name) : name[k] \notin {"+", "#"},
           NEW bf, NEW bn, NEW p \in 1 .. Len(f) + 1,
           NEW q \in 1 .. Len(name) + 1,
           Reached(f, name, bf, bn, p, q), Matches(f, name),
           ~(p = Len(f) + 1 /\ q = Len(name) + 1)
    PROVE  /\ p <= Len(f) /\ q <= Len(name)
           /\ name[q] = "/" => f[p] = "/"
           /\ f[p] \in {"+", "#", name[q]}
<1> DEFINE n == Before(f, bf) + 1
           F == Levels(f)
           N == Levels(name)
<1>1. /\ Len(f) \in Nat /\ Bounds(f) \subseteq 0 .. Len(f) + 1
      /\ \A k \in 1 .. Len(f) : k \in Bounds(f) <=> f[k] = "/"
      /\ Before(f, bf) \in Nat
  BY BoundsOf
<1>2. /\ Len(name) \in Nat /\ Bounds(name) \subseteq 0 .. Len(name) + 1
      /\ \A k \in 1 .. Len(name) : k \in Bounds(name) <=> name[k] = "/"
  BY BoundsOf
<1>3. /\ bf \in Bounds(f) /\ bn \in Bounds(name) /\ bf < p /\ bn < q
      /\ Before(f, bf) = Before(name, bn)
      /\ \A k \in bf + 1 .. p - 1 : f[k] # "/"
      /\ \A k \in bn + 1 .. q - 1 : name[k] # "/"
  BY DEF Reached
<1>4. bf <= Len(f) /\ bn <= Len(name) /\ bf \in Nat /\ bn \in Nat
  BY <1>1, <1>2, <1>3
<1>5. PICK ef \in Bounds(f) : IsLevel(f, bf, ef)
  BY <1>3, <1>4, LevelEnds
<1>6. PICK en \in Bounds(name) : IsLevel(name, bn, en)
  BY <1>3, <1>4, LevelEnds
<1>7. /\ ef \in 1 .. Len(f) + 1 /\ en \in 1 .. Len(name) + 1
      /\ bf < ef /\ bn < en
      /\ \A k \in bf + 1 .. ef - 1 : f[k] # "/"
      /\ \A k \in bn + 1 .. en - 1 : name[k] # "/"
      /\ ef = Len(f) + 1 \/ f[ef] = "/"
      /\ en = Len(name) + 1 \/ name[en] = "/"
  <2>1. /\ ef \in 1 .. Len(f) + 1 /\ bf < ef
        /\ \A k \in bf + 1 .. ef - 1 : f[k] # "/"
    BY <1>1, <1>4, <1>5 DEF IsLevel
  <2>2. /\ en \in 1 .. Len(name) + 1 /\ bn < en
        /\ \A k \in bn + 1 .. en - 1 : name[k] # "/"
    BY <1>2, <1>4, <1>6 DEF IsLevel
  <2>3. ef = Len(f) + 1 \/ f[ef] = "/"
    BY <1>1, <2>1
  <2>4. en = Len(name) + 1 \/ name[en] = "/"
    BY <1>2, <2>2
  <2>5. QED
    BY <2>1, <2>2, <2>3, <2>4
<1>8. p <= ef /\ q <= en
  <2>1. ASSUME ef < p PROVE FALSE
    <3>1. ef \in bf + 1 .. p - 1 /\ ef # Len(f) + 1
      BY <1>4, <1>7, <2>1
    <3>2. QED
      BY <1>3, <1>7, <3>1
  <2>2. ASSUME en < q PROVE FALSE
    <3>1. en \in bn + 1 .. q - 1 /\ en # Len(name) + 1
      BY <1>4, <1>7, <2>2
    <3>2. QED
      BY <1>3, <1>7, <3>1
  <2>3. QED
    BY <1>7, <2>1, <2>2
<1>9. /\ n \in 1 .. Len(F) /\ n \in 1 .. Len(N)
      /\ n = Len(F) <=> ef = Len(f) + 1
      /\ n = Len(N) <=> en = Len(name) + 1
      /\ Len(F) \in Nat /\ Len(N) \in Nat
  <2>1. n = Before(f, bf) + 1 /\ n = Before(name, bn) + 1
    BY <1>3
  <2>2. n \in 1 .. Len(F) /\ (n = Len(F) <=> ef = Len(f) + 1)
    BY <1>5, <2>1, TheLevel
  <2> HIDE DEF n
  <2>3. n \in 1 .. Len(N) /\ (n = Len(N) <=> en = Len(name) + 1)
    BY <1>6, <2>1, TheLevel
  <2>4. QED
    BY <2>2, <2>3, HowManyLevels
<1>10. /\ LevelFits(f, name, n)
       /\ IF F[Len(F)] = <<"#">> THEN Len(N) >= Len(F) ELSE Len(N) = Len(F)
  BY <1>9, MatchesByLevel
<1>11. F[n] # <<"#">> => (ef = Len(f) + 1 <=> en = Len(name) + 1)
  <2>1. Len(N) >= Len(F)
    BY <1>9, <1>10
  <2>2. QED
    BY <1>9, <1>10, <2>1
<1>12. ASSUME p = ef, q = en, F[n] # <<"#">>
       PROVE  p <= Len(f) /\ q <= Len(name) /\ f[p] = "/" /\ name[q] = "/"
  BY <1>7, <1>11, <1>12
<1>13. /\ \A w : F[n] = <<w>> <=> ef = bf + 2 /\ f[bf + 1] = w
       /\ N[n] # <<>> <=> en > bn + 1
  <2>1. n = Before(f, bf) + 1 /\ n = Before(name, bn) + 1
    BY <1>3
  <2> HIDE DEF n, F, N
  <2>2. \A w : F[n] = <<w>> <=> ef = bf + 2 /\ f[bf + 1] = w
    BY <1>5, <2>1, OneCharacterLevel DEF F
  <2>3. N[n] # <<>> <=> en > bn + 1
    BY <1>6, <2>1, OneCharacterLevel DEF N
  <2>4. QED
    BY <2>2, <2>3
<1> HIDE DEF F, N, n
<1>14. CASE /\ p - bf = q - bn
            /\ \A k \in 1 .. p - bf - 1 : f[bf + k] = name[bn + k]
  <2> DEFINE o == p - bf
  <2>1. o \in Nat \ {0} /\ p = bf + o /\ q = bn + o
    BY <1>3, <1>4, <1>14
  <2> HIDE DEF o
  <2>2. CASE F[n] = N[n]
    <3>1. /\ ef - bf = en - bn
          /\ \A k \in 1 .. ef - bf - 1 : f[bf + k] = name[bn + k]
      BY <1>3, <1>5, <1>6, <2>2, EqualLevels DEF F, N, n
    <3>2. F[n] # <<"#">>
      <4> SUFFICES ASSUME F[n] = <<"#">> PROVE FALSE
        OBVIOUS
      <4>1. ef = bf + 2 /\ f[bf + 1] = "#"
        BY <1>13
      <4>2. 1 \in 1 .. ef - bf - 1 /\ bn + 1 \in 1 .. Len(name)
        BY <1>4, <1>7, <3>1, <4>1
      <4>3. name[bn + 1] = "#"
        BY <3>1, <4>1, <4>2
      <4>4. QED
        BY <4>2, <4>3
    <3>3. CASE p = ef
      <4>1. q = en
        BY <1>4, <1>7, <2>1, <3>1, <3>3
      <4>2. QED
        BY <1>12, <3>2, <3>3, <4>1
    <3>4. CASE p # ef
      <4>1. p < ef /\ q < en /\ o \in 1 .. ef - bf - 1
        BY <1>4, <1>7, <1>8, <2>1, <3>1, <3>4
      <4>2. f[p] = name[q]
        BY <2>1, <3>1, <4>1
      <4>3. QED
        BY <1>7, <4>1, <4>2
    <3>5. QED
      BY <3>3, <3>4
  <2>3. CASE F[n] \in {<<"+">>, <<"#">>} /\ N[n] # <<>>
    <3>1. PICK w \in {"+", "#"} : F[n] = <<w>>
      BY <2>3
    <3>2. ef = bf + 2 /\ f[bf + 1] = w /\ en > bn + 1
      BY <1>13, <2>3, <3>1
    <3>3. o = 1
      <4> SUFFICES ASSUME o # 1 PROVE FALSE
        OBVIOUS
      <4>1. o = 2
        BY <1>4, <1>8, <2>1, <3>2
      <4>2. 1 \in 1 .. p - bf - 1 /\ bn + 1 \in 1 .. Len(name)
        BY <1>4, <1>7, <2>1, <3>2, <4>1
      <4>3. name[bn + 1] = w
        BY <1>14, <3>2, <4>2
      <4>4. QED
        BY <4>2, <4>3
    <3>4. /\ p = bf + 1 /\ p <= Len(f) /\ q = bn + 1 /\ q <= Len(name)
          /\ q \in bn + 1 .. en - 1
      BY <1>4, <1>7, <2>1, <3>2, <3>3
    <3>5. QED
      BY <1>7, <3>2, <3>4
  <2>4. QED
    BY <1>10, <2>2, <2>3 DEF LevelFits, F, N
<1>15. CASE p = bf + 2 /\ f[bf + 1] = "+" /\ q > bn + 1 /\ q \in Bounds(name)
  <2>1. q = en
    <3> SUFFICES ASSUME q # en PROVE FALSE
      OBVIOUS
    <3>1. q \in bn + 1 .. en - 1 /\ q \in 1 .. Len(name)
      BY <1>3, <1>4, <1>7, <1>8
    <3>2. QED
      BY <1>2, <1>7, <1>15, <3>1
  <2>2. p = ef
    <3> SUFFICES ASSUME p # ef PROVE FALSE
      OBVIOUS
    <3>1. p \in bf + 1 .. ef - 1 /\ p <= Len(f) /\ bf + 1 \in 1 .. Len(f)
          /\ bf + 1 < Len(f) /\ bf + 1 + 1 = p
      BY <1>4, <1>7, <1>8, <1>15
    <3>2. f[p] = "/"
      <4>1. bf + 1 \in DOMAIN f
        BY <3>1, LenProperties
      <4>2. QED
        BY <1>15, <3>1, <4>1 DEF InFormat
    <3>3. QED
      BY <1>7, <3>1, <3>2
  <2>3. F[n] # <<"#">>
    BY <1>13, <1>15
  <2>4. QED
    BY <1>12, <2>1, <2>2, <2>3
<1>16. QED
  BY <1>14, <1>15 DEF Reached

\* While the loop runs it has reached some place in a level of both; or it is
\* behind "#", which has matched all that was left.
LevelsReached ==
    curf > 0 =>
        \/ \E bf \in Bounds(filter), bn \in Bounds(topicName) :
              Reached(filter, topicName, bf, bn, curf, curn)
        \/ /\ curf = Len(filter) + 1 /\ curn = curn_end
           /\ Matches(filter, topicName)

MatchingSlot(s) ==
    /\ messageHandlers[s] # <<>>
    /\ Matches(messageHandlers[s], topicName)

DeliveredSoFar == called = {s \in 1 .. i - 1 : MatchingSlot(s)}

LInv == IInv /\ LevelsReached /\ DeliveredSoFar

\* The filter and the topic that are compared.
LEMMA TheCompared ==
    ASSUME IInv, i \in Slots, filter # <<>>
    PROVE  /\ filter \in Seq(STRING) /\ topicName \in Seq(STRING)
           /\ Len(filter) \in Nat \ {0} /\ Len(topicName) \in Nat \ {0}
           /\ DOMAIN filter = 1 .. Len(filter)
           /\ curn_end = Len(topicName) + 1
           /\ InFormat(filter)
           /\ \A k \in 1 .. Len(topicName) : topicName[k] \notin {"+", "#"}
           /\ i \in Nat
<1>1. TypeOK
  BY DEF IInv
<1>2. QED
  BY <1>1, TheTopic, TheFilter DEF filter

\* When a slot is decided on, its handler is among those called if it matches.
LEMMA NextSlotByLevels ==
    ASSUME LInv, i \in Slots, UNCHANGED input, i' = i + 1, curf' = 0,
           called' = IF MatchingSlot(i) THEN called \cup {i} ELSE called
    PROVE  (LevelsReached /\ DeliveredSoFar)'
<1>1. messageHandlers' = messageHandlers /\ topicName' = topicName
  BY DEF input
<1>2. i \in Nat \ {0}
  BY TheFilter DEF LInv, IInv
<1>3. LevelsReached'
  BY DEF LevelsReached
<1>4. \A s : MatchingSlot(s)' <=> MatchingSlot(s)
  BY <1>1 DEF MatchingSlot
<1>5. 1 .. i' - 1 = (1 .. i - 1) \cup {i}
  BY <1>2
<1>6. called' = {s \in 1 .. i' - 1 : MatchingSlot(s)}
  BY <1>5 DEF LInv, DeliveredSoFar
<1>7. QED
  BY <1>3, <1>4, <1>6 DEF DeliveredSoFar

\* A filter that is the topic matches it.
LEMMA DecidedByLevels ==
    ASSUME LInv, Decided
    PROVE  (LevelsReached /\ DeliveredSoFar)'
<1>1. /\ i \in Slots /\ UNCHANGED input /\ i' = i + 1 /\ curf' = 0
      /\ filter = <<>> \/ filter = topicName
      /\ called' = IF filter = <<>> THEN called ELSE called \cup {i}
  BY DEF Decided, LInv, IInv, TypeOK
<1>2. ASSUME filter # <<>>
      PROVE  Matches(filter, topicName)
  <2>1. filter = topicName /\ topicName \in Seq(STRING)
    BY <1>1, <1>2, TheCompared DEF LInv
  <2>2. Len(Levels(topicName)) \in Nat
    BY <2>1, HowManyLevels
  <2>3. QED
    BY <2>1, <2>2, MatchesByLevel DEF LevelFits
<1>3. MatchingSlot(i) <=> filter # <<>>
  BY <1>2 DEF MatchingSlot, filter
<1>4. QED
  BY <1>1, <1>3, NextSlotByLevels

\* isTopicMatched begins with the first level of both.
LEMMA ComparesByLevels ==
    ASSUME LInv, Compares
    PROVE  (LevelsReached /\ DeliveredSoFar)'
<1>1. /\ i \in Slots /\ curf' = 1 /\ curn' = 1 /\ filter # <<>>
      /\ UNCHANGED <<input, i, called>>
  BY DEF Compares
<1>2. messageHandlers' = messageHandlers /\ topicName' = topicName
      /\ filter' = filter
  BY <1>1 DEF input, filter
<1>3. filter \in Seq(STRING) /\ topicName \in Seq(STRING)
  BY <1>1, TheCompared DEF LInv
<1>4. ASSUME NEW t \in Seq(STRING)
      PROVE  0 \in Bounds(t) /\ Before(t, 0) = 0
  <2>1. 0 \in Bounds(t) /\ Bounds(t) \subseteq 0 .. Len(t) + 1
        /\ Len(t) \in Nat
    BY BoundsOf
  <2>2. {b \in Bounds(t) : b < 0} = {}
    BY <2>1
  <2>3. QED
    BY <2>1, <2>2, FS_EmptySet DEF Before
<1>5. Reached(filter, topicName, 0, 0, 1, 1)
  <2>1. \A n : n \notin 1 .. 0
    OBVIOUS
  <2>2. Before(filter, 0) = 0 /\ Before(topicName, 0) = 0
        /\ 0 \in Bounds(filter) /\ 0 \in Bounds(topicName)
    BY <1>3, <1>4
  <2>3. QED
    BY <2>1, <2>2 DEF Reached
<1>6. LevelsReached'
  BY <1>1, <1>2, <1>3, <1>4, <1>5 DEF LevelsReached
<1>7. DeliveredSoFar'
  BY <1>1, <1>2 DEF LInv, DeliveredSoFar, MatchingSlot
<1>8. QED
  BY <1>6, <1>7

\* A turn of the loop stays in the level, or ends it in both, or comes to its
\* end with a wildcard.
LEMMA AdvanceByLevels ==
    ASSUME LInv, Advance
    PROVE  (LevelsReached /\ DeliveredSoFar)'
<1> DEFINE f == filter
           name == topicName
           c == filter[curf]
<1>1. /\ IInv /\ curf > 0 /\ Looping /\ curf' = curf + 1
      /\ UNCHANGED <<input, i, called>>
      /\ i \in Slots /\ curn > 0 /\ filter # <<>>
  BY DEF LInv, IInv, Comparing, Advance
<1>2. /\ messageHandlers' = messageHandlers /\ topicName' = topicName
      /\ filter' = filter /\ curn_end' = curn_end
  BY <1>1 DEF input, filter, curn_end
<1>3. /\ f \in Seq(STRING) /\ name \in Seq(STRING)
      /\ Len(f) \in Nat \ {0} /\ Len(name) \in Nat \ {0}
      /\ DOMAIN f = 1 .. Len(f) /\ curn_end = Len(name) + 1
      /\ InFormat(f)
      /\ \A k \in 1 .. Len(name) : name[k] \notin {"+", "#"}
  BY <1>1, TheCompared
<1>4. /\ curf \in 1 .. Len(f) /\ curn \in 1 .. Len(name)
      /\ name[curn] = "/" => c = "/"
      /\ c = "+" \/ c = "#" \/ c = name[curn]
  <2>1. curn \in 0 .. curn_end
    BY <1>1 DEF IInv, TypeOK
  <2>2. curf \in DOMAIN f /\ curn < curn_end /\ ~Breaks
    BY <1>1 DEF Looping
  <2>3. QED
    BY <1>1, <1>3, <2>1, <2>2 DEF Breaks
<1>5. /\ c = "+" => curn' = LevelEnd(curn) + 1
      /\ c = "#" => curn' = curn_end
      /\ c # "+" /\ c # "#" => curn' = curn + 1
  BY DEF Advance
<1>6. PICK bf \in Bounds(f), bn \in Bounds(name) :
         Reached(f, name, bf, bn, curf, curn)
  <2>1. curf # Len(f) + 1
    BY <1>3, <1>4
  <2>2. QED
    BY <1>1, <2>1 DEF LInv, LevelsReached
<1> HIDE DEF f, name, c
<1>7. /\ bf < curf /\ bn < curn /\ Before(f, bf) = Before(name, bn)
      /\ \A n \in 1 .. Before(f, bf) : LevelFits(f, name, n)
      /\ \A k \in bf + 1 .. curf - 1 : f[k] # "/"
      /\ \A k \in bn + 1 .. curn - 1 : name[k] # "/"
  BY <1>6 DEF Reached
<1>8. /\ Bounds(f) \subseteq Nat /\ Bounds(name) \subseteq Nat
      /\ Bounds(f) \subseteq 0 .. Len(f) + 1
      /\ \A k \in 1 .. Len(f) : k \in Bounds(f) <=> f[k] = "/"
      /\ \A k \in 1 .. Len(name) : k \in Bounds(name) <=> name[k] = "/"
      /\ Len(f) + 1 \in Bounds(f) /\ Len(name) + 1 \in Bounds(name)
      /\ bf \in Nat /\ bn \in Nat
  <2>1. \A t \in Seq(STRING) :
           /\ Bounds(t) \subseteq 0 .. Len(t) + 1 /\ Len(t) + 1 \in Bounds(t)
           /\ \A k \in 1 .. Len(t) : k \in Bounds(t) <=> t[k] = "/"
    BY BoundsOf
  <2>2. QED
    BY <1>3, <1>6, <2>1
\* Behind "+" only a separator follows, and before a wildcard only one is.
<1>9. ASSUME c # "/"
      PROVE  /\ curf - bf = curn - bn
             /\ \A k \in 1 .. curf - bf - 1 : f[bf + k] = name[bn + k]
  <2> SUFFICES ASSUME curf = bf + 2, f[bf + 1] = "+"
               PROVE  FALSE
    BY <1>6 DEF Reached
  <2>1. bf + 1 \in DOMAIN f /\ bf + 1 < Len(f) /\ bf + 1 + 1 = curf
    BY <1>3, <1>4, <1>8
  <2>2. f[curf] = "/"
    BY <1>3, <2>1 DEF InFormat
  <2>3. QED
    BY <1>9, <2>2 DEF c, f
<1>10. ASSUME c \in {"+", "#"}
       PROVE  curf = bf + 1 /\ curn = bn + 1
  <2>1. curf = bf + 1
    <3> SUFFICES ASSUME curf # bf + 1 PROVE FALSE
      OBVIOUS
    <3>1. curf - 1 \in bf + 1 .. curf - 1 /\ curf > 1 /\ curf \in DOMAIN f
      BY <1>3, <1>4, <1>7, <1>8
    <3>2. f[curf - 1] = "/"
      BY <1>3, <1>10, <3>1 DEF InFormat, c, f
    <3>3. QED
      BY <1>7, <3>1, <3>2
  <2>2. QED
    BY <1>4, <1>8, <1>9, <1>10, <2>1
<1>11. DeliveredSoFar'
  BY <1>1, <1>2 DEF LInv, DeliveredSoFar, MatchingSlot
<1>12. CASE c = "/"
  <2>1. curf \in Bounds(f) /\ curn \in Bounds(name) /\ curn' = curn + 1
    BY <1>3, <1>4, <1>5, <1>8, <1>12 DEF c, f
  <2>2. /\ Before(f, curf) = Before(name, curn)
        /\ \A n \in 1 .. Before(f, curf) : LevelFits(f, name, n)
    <3>1. f \in Seq(STRING) /\ name \in Seq(STRING)
      BY <1>3
    <3>2. QED
      BY <1>6, <2>1, <3>1, LevelIsBehind
  <2>3. /\ curf < curf' /\ curn < curn' /\ curf' - curf = curn' - curn
        /\ \A k : /\ k \notin curf + 1 .. curf' - 1
                  /\ k \notin curn + 1 .. curn' - 1
                  /\ k \notin 1 .. curf' - curf - 1
    BY <1>1, <1>4, <2>1
  <2>4. Reached(f, name, curf, curn, curf', curn')
    BY <2>1, <2>2, <2>3 DEF Reached
  <2>5. QED
    BY <1>2, <1>11, <2>1, <2>4 DEF LevelsReached, f, name
<1>13. CASE c = "+"
  <2> DEFINE e == LevelEnd(curn)
  <2>1. /\ e \in curn .. Len(name)
        /\ e = Len(name) \/ name[e + 1] = "/"
        /\ \A k \in curn + 1 .. e : name[k] # "/"
    BY <1>1, <1>4, LevelsEnd DEF IInv, name
  <2> HIDE DEF e
  <2>2. /\ curf' = bf + 2 /\ curn' = e + 1 /\ curn' > bn + 1 /\ bn < curn'
        /\ bf < curf'
    BY <1>1, <1>4, <1>5, <1>8, <1>10, <1>13, <2>1 DEF e
  <2>3. curn' \in Bounds(name)
    <3>1. curn' = Len(name) + 1 \/ curn' \in 1 .. Len(name)
      <4>1. Len(name) \in Nat /\ curn \in 1 .. Len(name)
        BY <1>3, <1>4
      <4>2. e \in curn .. Len(name) /\ curn' = e + 1
        BY <2>1, <2>2
      <4>3. QED
        BY <4>1, <4>2
    <3>2. QED
      BY <1>8, <2>1, <2>2, <3>1
  <2>4. f[bf + 1] = "+" /\ \A k \in bf + 1 .. curf' - 1 : f[k] # "/"
    <3>1. bf + 1 = curf
      BY <1>10, <1>13
    <3>2. \A k \in bf + 1 .. curf' - 1 : k = curf
      BY <1>8, <2>2, <3>1
    <3>3. QED
      BY <1>13, <3>1, <3>2 DEF c, f
  <2>5. \A k \in bn + 1 .. curn' - 1 : name[k] # "/"
    <3> TAKE k \in bn + 1 .. curn' - 1
    <3>1. k = curn \/ k \in curn + 1 .. e
      BY <1>4, <1>8, <1>10, <1>13, <2>1, <2>2
    <3>2. QED
      BY <1>4, <1>13, <2>1, <3>1
  <2>6. Reached(f, name, bf, bn, curf', curn')
    BY <1>6, <1>7, <2>2, <2>3, <2>4, <2>5 DEF Reached
  <2>7. QED
    BY <1>2, <1>11, <1>6, <2>6 DEF LevelsReached, f, name
<1>14. CASE c = "#"
  <2>1. curf = Len(f) /\ curf' = Len(f) + 1 /\ curn' = curn_end
    BY <1>1, <1>3, <1>4, <1>5, <1>14 DEF InFormat, c, f
  <2>2. curf = bf + 1 /\ curn = bn + 1
    BY <1>10, <1>14
  <2> DEFINE n == Before(f, bf) + 1
  <2>3. IsLevel(f, bf, Len(f) + 1)
    <3>1. \A k \in bf + 1 .. Len(f) + 1 - 1 : k = curf
      BY <1>3, <1>8, <2>1, <2>2
    <3>2. f[curf] # "/"
      BY <1>14 DEF c, f
    <3>3. bf < Len(f) + 1
      BY <1>3, <1>7, <1>8, <2>1
    <3>4. QED
      BY <1>6, <1>8, <3>1, <3>2, <3>3 DEF IsLevel
  <2>4. PICK en \in Bounds(name) : IsLevel(name, bn, en)
    <3>1. bn <= Len(name)
      BY <1>4, <1>8, <2>2
    <3>2. QED
      BY <1>3, <1>6, <3>1, LevelEnds
  <2>5. n = Len(Levels(f)) /\ n \in 1 .. Len(Levels(name))
    BY <1>3, <1>7, <2>3, <2>4, TheLevel
  <2>6. Levels(f)[n] = <<"#">>
    <3>1. Len(f) + 1 = bf + 2
      BY <1>3, <1>8, <2>1, <2>2
    <3>2. f[bf + 1] = "#"
      BY <1>14, <2>2 DEF c, f
    <3> HIDE DEF n
    <3>3. n = Before(f, bf) + 1
      BY DEF n
    <3>4. f \in Seq(STRING)
      BY <1>3
    <3>5. \A w : Levels(f)[n] = <<w>> <=> Len(f) + 1 = bf + 2 /\ f[bf + 1] = w
      BY <2>3, <3>3, <3>4, OneCharacterLevel
    <3>6. QED
      BY <3>1, <3>2, <3>5
  <2>7. Levels(name)[n] # <<>>
    <3>1. n = Before(name, bn) + 1
      BY <1>7
    <3>2. en > bn + 1
      <4>1. en \in Nat /\ bn < en /\ (en = bn + 1 => name[en] = "/")
        <5>1. en \in Nat /\ bn < en
          BY <1>8, <2>4 DEF IsLevel
        <5>2. en = bn + 1 => en \in 1 .. Len(name)
          BY <1>4, <2>2
        <5>3. QED
          BY <1>8, <2>4, <5>1, <5>2
      <4>2. name[curn] # "/"
        BY <1>4, <1>14
      <4>3. QED
        BY <1>8, <2>2, <4>1, <4>2
    <3> HIDE DEF n
    <3>3. QED
      BY <1>3, <2>4, <3>1, <3>2, OneCharacterLevel
  <2>8. \A k \in 1 .. n : LevelFits(f, name, k)
    <3>1. Before(f, bf) \in Nat
      BY <1>3, BoundsOf
    <3>2. \A k \in 1 .. n : k = n \/ k \in 1 .. Before(f, bf)
      BY <3>1
    <3>3. LevelFits(f, name, n)
      BY <2>6, <2>7 DEF LevelFits
    <3>4. QED
      BY <1>7, <3>2, <3>3
  <2> HIDE DEF n
  <2>9. Matches(f, name)
    <3>1. Len(Levels(name)) >= n
      BY <1>3, <2>5, HowManyLevels
    <3>2. QED
      BY <1>3, <2>5, <2>6, <2>8, <3>1, MatchesByLevel
  <2>10. QED
    BY <1>2, <1>11, <2>1, <2>9 DEF LevelsReached, f, name
<1>15. CASE c # "/" /\ c # "+" /\ c # "#"
  <2>1. curn' = curn + 1 /\ c = name[curn]
    BY <1>4, <1>5, <1>15
  <2>2. /\ bf < curf' /\ bn < curn' /\ curf' - bf = curn' - bn
        /\ curf - bf = curn - bn
    BY <1>1, <1>4, <1>7, <1>8, <1>9, <1>15, <2>1
  <2>3. \A k \in bf + 1 .. curf' - 1 : f[k] # "/"
    <3>1. \A k \in bf + 1 .. curf' - 1 : k = curf \/ k \in bf + 1 .. curf - 1
      BY <1>1, <1>4, <1>8
    <3>2. QED
      BY <1>7, <1>15, <3>1 DEF c, f
  <2>4. \A k \in bn + 1 .. curn' - 1 : name[k] # "/"
    <3>1. \A k \in bn + 1 .. curn' - 1 : k = curn \/ k \in bn + 1 .. curn - 1
      BY <1>4, <1>8, <2>1
    <3>2. QED
      BY <1>7, <1>15, <2>1, <3>1
  <2>5. \A k \in 1 .. curf' - bf - 1 : f[bf + k] = name[bn + k]
    <3> TAKE k \in 1 .. curf' - bf - 1
    <3>1. \/ bf + k = curf /\ bn + k = curn
          \/ k \in 1 .. curf - bf - 1
      BY <1>1, <1>4, <1>8, <2>2
    <3>2. f[curf] = name[curn]
      BY <2>1 DEF c, f
    <3>3. QED
      BY <1>9, <1>15, <3>1, <3>2
  <2>6. Reached(f, name, bf, bn, curf', curn')
    BY <1>6, <1>7, <2>2, <2>3, <2>4, <2>5 DEF Reached
  <2>7. QED
    BY <1>2, <1>11, <1>6, <2>6 DEF LevelsReached, f, name
<1>16. QED
  BY <1>12, <1>13, <1>14, <1>15

\* Where the loop ends behind both, they match; anywhere else they do not.
LEMMA ComparedByLevels ==
    ASSUME LInv, Compared
    PROVE  (LevelsReached /\ DeliveredSoFar)'
<1>1. /\ IInv /\ curf > 0 /\ ~Looping /\ i \in Slots /\ curn > 0
      /\ filter # <<>> /\ UNCHANGED input /\ i' = i + 1 /\ curf' = 0
      /\ called' = IF Matched THEN called \cup {i} ELSE called
  BY DEF LInv, IInv, Comparing, Compared
<1>2. /\ filter \in Seq(STRING) /\ topicName \in Seq(STRING)
      /\ Len(filter) \in Nat \ {0} /\ Len(topicName) \in Nat \ {0}
      /\ DOMAIN filter = 1 .. Len(filter)
      /\ curn_end = Len(topicName) + 1
      /\ InFormat(filter)
      /\ \A k \in 1 .. Len(topicName) : topicName[k] \notin {"+", "#"}
  BY <1>1, TheCompared
<1>3. curf \in 1 .. Len(filter) + 1 /\ curn \in 1 .. Len(topicName) + 1
  BY <1>1, <1>2 DEF IInv, TypeOK
<1>4. ASSUME Matched
      PROVE  Matches(filter, topicName)
  <2>1. curf = Len(filter) + 1 /\ curn = Len(topicName) + 1
    BY <1>2, <1>4 DEF Matched
  <2>2. CASE \E bf \in Bounds(filter), bn \in Bounds(topicName) :
                Reached(filter, topicName, bf, bn, curf, curn)
    <3>1. PICK bf \in Bounds(filter), bn \in Bounds(topicName) :
             Reached(filter, topicName, bf, bn, curf, curn)
      BY <2>2
    <3>2. curf \in Bounds(filter) /\ curn \in Bounds(topicName)
      BY <1>2, <2>1, BoundsOf
    <3>3. /\ Before(filter, curf) = Before(topicName, curn)
          /\ \A n \in 1 .. Before(filter, curf) :
                LevelFits(filter, topicName, n)
      BY <1>2, <3>1, <3>2, LevelIsBehind
    <3>4. /\ Len(Levels(filter)) = Before(filter, curf)
          /\ Len(Levels(topicName)) = Before(topicName, curn)
          /\ Before(filter, curf) \in Nat
      BY <1>2, <2>1, HowManyLevels
    <3>5. QED
      BY <1>2, <3>3, <3>4, MatchesByLevel
  <2>3. QED
    BY <1>1, <2>2 DEF LInv, LevelsReached
<1>5. ASSUME Matches(filter, topicName), ~Matched
      PROVE  FALSE
  <2>1. ~(curf = Len(filter) + 1 /\ curn = Len(topicName) + 1)
    BY <1>2, <1>5 DEF Matched
  <2>2. PICK bf \in Bounds(filter), bn \in Bounds(topicName) :
           Reached(filter, topicName, bf, bn, curf, curn)
    BY <1>1, <1>2, <2>1 DEF LInv, LevelsReached
  <2>3. /\ curf <= Len(filter) /\ curn <= Len(topicName)
        /\ topicName[curn] = "/" => filter[curf] = "/"
        /\ filter[curf] \in {"+", "#", topicName[curn]}
    BY <1>2, <1>3, <1>5, <2>1, <2>2, MatchGoesOn
  <2>4. Looping
    BY <1>2, <1>3, <2>3 DEF Looping, Breaks
  <2>5. QED
    BY <1>1, <2>4
<1>6. MatchingSlot(i) <=> Matched
  BY <1>1, <1>4, <1>5 DEF MatchingSlot, filter
<1>7. QED
  BY <1>1, <1>6, NextSlotByLevels

LEMMA NextByLevels == LInv /\ [Next]_vars => LInv'
<1>1. ASSUME LInv, UNCHANGED vars
      PROVE  (LevelsReached /\ DeliveredSoFar)'
  BY <1>1 DEF vars, input, LInv, LevelsReached, DeliveredSoFar, MatchingSlot,
              filter, curn_end
<1>2. ASSUME LInv, [Next]_vars
      PROVE  (LevelsReached /\ DeliveredSoFar)'
  BY <1>1, <1>2, DecidedByLevels, ComparesByLevels, AdvanceByLevels,
     ComparedByLevels DEF Next, Returned
<1>3. QED
  BY <1>2, NextIInv DEF LInv

\* A message reaches exactly the handlers whose filters match its topic level
\* by level, for every topic and every filter in format.
THEOREM DeliveredWhereLevelsMatch == Spec => []DeliveredByLevels
<1>1. Init => LInv
  <2> SUFFICES ASSUME Init PROVE LInv
    OBVIOUS
  <2>1. curf = 0 /\ i = 1 /\ called = {}
    BY DEF Init
  <2>2. QED
    BY <2>1, InitIInv DEF LInv, LevelsReached, DeliveredSoFar
<1>2. ASSUME LInv, i > Len(SlotFilters)
      PROVE  called = {s \in Slots : /\ messageHandlers[s] # <<>>
                                     /\ Matches(messageHandlers[s], topicName)}
  <2>1. TypeOK
    BY <1>2 DEF LInv, IInv
  <2>2. i = Len(SlotFilters) + 1 /\ Slots = 1 .. Len(SlotFilters)
    BY <1>2, <2>1, TheFilter DEF TypeOK
  <2>3. Slots = 1 .. i - 1
    BY <2>1, <2>2, TheFilter
  <2>4. QED
    BY <1>2, <2>3 DEF LInv, DeliveredSoFar, MatchingSlot
<1>3. LInv => DeliveredByLevels
  BY <1>2 DEF DeliveredByLevels
<1>4. QED
  BY <1>1, NextByLevels, <1>3, PTL DEF Spec
==============================================================================
