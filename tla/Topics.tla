------------------------------- MODULE Topics -------------------------------
(***************************************************************************)
(* Which handlers get a message: deliverMessage and isTopicMatched of      *)
(* src/src/MQTTClient.c, character by character.                           *)
(*                                                                         *)
(* Filters and names are sequences of characters; <<>> in a slot is an     *)
(* empty slot (topicFilter = 0).  curf and curn are positions; the one     *)
(* behind the last character is *curf = '\0' and curn = curn_end.          *)
(***************************************************************************)
EXTENDS Integers, SequencesExt

CONSTANTS
    Names,      \* the topics of arriving messages
    SlotFilters \* SlotFilters[i]: the filters that slot i may hold

\* "assume topic filter and name is in correct format, # can only be at end,
\* + and # can only be next to separator" (MQTTClient.c:128).
InFormat(f) ==
    \A i \in DOMAIN f :
        /\ f[i] = "#" => i = Len(f)
        /\ f[i] \in {"+", "#"} => /\ i > 1 => f[i - 1] = "/"
                                  /\ i < Len(f) => f[i + 1] = "/"

ASSUME NameAssumption ==
    /\ Names \subseteq Seq(STRING)
    /\ \A name \in Names : name # <<>> /\ ToSet(name) \cap {"+", "#"} = {}
ASSUME FilterAssumption ==
    /\ SlotFilters \in Seq(SUBSET Seq(STRING))
    /\ \A i \in DOMAIN SlotFilters : \A f \in SlotFilters[i] : InFormat(f)

VARIABLES
    messageHandlers, topicName,  \* the input
    i,                           \* the slot looked at
    curf, curn,                  \* 0 while isTopicMatched is not running
    called                       \* the slots whose handler was called

input == <<messageHandlers, topicName>>
vars  == <<input, i, curf, curn, called>>

Slots == DOMAIN SlotFilters

Init ==
    /\ messageHandlers \in
          {h \in [Slots -> UNION {SlotFilters[s] : s \in Slots}] :
              \A s \in Slots : h[s] \in SlotFilters[s]}
    /\ topicName \in Names
    /\ i = 1
    /\ curf = 0 /\ curn = 0
    /\ called = {}

filter   == messageHandlers[i]
curn_end == Len(topicName) + 1

(***************************************************************************)
(* isTopicMatched.                                                         *)
(***************************************************************************)
\* A mutant: a separator is no reason to break.
Breaks_InLevel == filter[curf] \notin {"+", "#", topicName[curn]}

\* The two tests at the head of the loop.
Breaks ==
    \/ topicName[curn] = "/" /\ filter[curf] # "/"
    \/ filter[curf] \notin {"+", "#", topicName[curn]}

Looping == curf \in DOMAIN filter /\ curn < curn_end /\ ~Breaks

\* The last character of the level that begins at n.
LevelEnd(n) ==
    CHOOSE e \in n .. Len(topicName) :
        /\ e = Len(topicName) \/ topicName[e + 1] = "/"
        /\ \A k \in n + 1 .. e : topicName[k] # "/"

\* A mutant: # skips to the end and the step behind it goes on.
Advance_BehindEnd ==
    /\ curf > 0 /\ Looping
    /\ curf' = curf + 1
    /\ curn' = CASE filter[curf] = "+" -> LevelEnd(curn) + 1
                 [] filter[curf] = "#" -> curn_end + 1
                 [] OTHER -> curn + 1
    /\ UNCHANGED <<input, i, called>>

\* A turn of the loop: what the wildcard skips, and one step for both.
Advance ==
    /\ curf > 0 /\ Looping
    /\ curf' = curf + 1
    /\ curn' = CASE filter[curf] = "+" -> LevelEnd(curn) + 1
                 [] filter[curf] = "#" -> curn_end
                 [] OTHER -> curn + 1
    /\ UNCHANGED <<input, i, called>>

Matched == curn = curn_end /\ curf = Len(filter) + 1

(***************************************************************************)
(* deliverMessage.  No handler is NULL, and no default handler is set.     *)
(***************************************************************************)
\* An empty slot, or MQTTPacket_equals decides.
Decided ==
    /\ i \in Slots /\ curf = 0
    /\ filter = <<>> \/ filter = topicName
    /\ called' = IF filter = <<>> THEN called ELSE called \cup {i}
    /\ i' = i + 1
    /\ UNCHANGED <<input, curf, curn>>

Compares ==
    /\ i \in Slots /\ curf = 0
    /\ filter # <<>> /\ filter # topicName
    /\ curf' = 1 /\ curn' = 1
    /\ UNCHANGED <<input, i, called>>

Compared ==
    /\ curf > 0 /\ ~Looping
    /\ called' = IF Matched THEN called \cup {i} ELSE called
    /\ i' = i + 1
    /\ curf' = 0 /\ curn' = 0
    /\ UNCHANGED input

\* The function has returned; anywhere else a stop would be a deadlock.
Returned == i > Len(SlotFilters) /\ UNCHANGED vars

Next == Decided \/ Compares \/ Advance \/ Compared \/ Returned

Spec == Init /\ [][Next]_vars

------------------------------------------------------------------------------
(***************************************************************************)
(* Properties.                                                             *)
(***************************************************************************)
\* The type invariant.
TypeOK ==
    /\ \A s \in Slots : messageHandlers[s] \in SlotFilters[s]
    /\ topicName \in Names
    /\ i \in 1 .. Len(SlotFilters) + 1
    /\ curf \in 0 .. (IF i \in Slots THEN Len(filter) + 1 ELSE 0)
    /\ curn \in 0 .. curn_end
    /\ called \subseteq Slots

\* The levels of a topic: what lies between its separators, the ends included.
Bounds(topic) ==
    {0, Len(topic) + 1} \cup {k \in DOMAIN topic : topic[k] = "/"}
Before(topic, k)  == Cardinality({b \in Bounds(topic) : b < k})
BoundAt(topic, n) == CHOOSE b \in Bounds(topic) : Before(topic, b) = n
Levels(topic) ==
    [n \in 1 .. Cardinality(Bounds(topic)) - 1 |->
        SubSeq(topic, BoundAt(topic, n - 1) + 1, BoundAt(topic, n) - 1)]

\* Matching by levels: + stands for one level and # for all that are left,
\* each for at least one character.
Matches(f, name) ==
    LET F == Levels(f)
        N == Levels(name)
    IN  /\ IF Last(F) = <<"#">> THEN Len(N) >= Len(F) ELSE Len(N) = Len(F)
        /\ \A k \in DOMAIN F :
              \/ F[k] = N[k]
              \/ F[k] \in {<<"+">>, <<"#">>} /\ N[k] # <<>>

\* The handler of a slot is called exactly if the slot's filter matches the
\* topic level by level, for every filter and name and in every slot.
DeliveredByLevels ==
    i > Len(SlotFilters) =>
        called = {s \in Slots : /\ messageHandlers[s] # <<>>
                                /\ Matches(messageHandlers[s], topicName)}
==============================================================================
