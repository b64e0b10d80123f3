---------------------------- MODULE OutputProofs ----------------------------
(***************************************************************************)
(* Proofs about OutputStream: whoever saves the output of an interrupted   *)
(* run saves what its subscribers saw, once and in order, and whoever      *)
(* rebuilds a response from its stream rebuilds the same one.              *)
(***************************************************************************)
EXTENDS OutputStream, FiniteSetTheorems, WellFoundedInduction, TLAPS

----------------------------------------------------------------------------
(* Folds.  The prover cannot be handed an operator, so what one fold makes *)
(* of a sequence is proved for each operator: any function that makes its  *)
(* steps ends where it ends.                                               *)

\* Induction over a set of numbers.
LEMMA SetInduction ==
    ASSUME NEW S, 0 \in S, \A n \in S \cap Nat : n + 1 \in S
    PROVE  Nat \subseteq S
<1> DEFINE T == Nat \ S
<1> SUFFICES ASSUME T # {} PROVE FALSE OBVIOUS
<1> DEFINE below == OpToRel(<, Nat)
<1>1. \A i, j \in Nat : <<i, j>> \in below <=> i < j BY DEF OpToRel
<1>2. IsWellFoundedOn(below, Nat) BY NatLessThanWellFounded
<1>3. T \subseteq Nat OBVIOUS
<1>4. PICK x \in T : \A y \in T : ~(<<y, x>> \in below)
  <2> HIDE DEF below, T
  <2> QED BY <1>2, <1>3, WFMin
<1>5. x \in Nat /\ x # 0 BY <1>3
<1>6. x - 1 \in Nat /\ x - 1 < x /\ (x - 1) + 1 = x BY <1>5
<1>7. x - 1 \in S
  <2> HIDE DEF below
  <2> QED BY <1>1, <1>4, <1>5, <1>6
<1> QED BY <1>6, <1>7

LEMMA GreatestOfAll ==
    ASSUME NEW m \in Nat, NEW s \in SUBSET (1..(m + 1)), m + 1 \in s
    PROVE  Max(s) = m + 1
<1>1. \A x \in s : x \in Int /\ x <= m + 1 OBVIOUS
<1>2. \E x \in s : \A y \in s : x >= y
  <2> WITNESS m + 1 \in s
  <2> QED BY <1>1
<1>3. Max(s) \in s /\ \A y \in s : Max(s) >= y BY <1>2 DEF Max
<1>4. Max(s) \in Int /\ Max(s) <= m + 1 /\ Max(s) >= m + 1 BY <1>1, <1>3
<1> QED BY <1>4

\* What a page of the replay makes of what was rebuilt before it.
LEMMA ReplayFold ==
    ASSUME NEW n \in Nat, NEW events, DOMAIN events = 1..n, NEW run,
           \A k \in 1..n : run[k] = ReplayEvent(run[k - 1], events[k])
    PROVE  FoldLeft(ReplayEvent, run[0], events) = run[n]
<1> DEFINE Step(f, s) == IF s = {} THEN run[0]
                         ELSE ReplayEvent(f[s \ {Max(s)}], events[Max(s)])
           Exists(m) == \E f : f = [s \in SUBSET (1..m) |-> Step(f, s)]
           S == {m \in Nat : Exists(m)}
<1>1. Exists(0)
  <2> DEFINE f == [s \in SUBSET (1..0) |-> run[0]]
  <2>1. f = [s \in SUBSET (1..0) |-> Step(f, s)] OBVIOUS
  <2> QED BY <2>1
<1>2. ASSUME NEW m \in Nat, Exists(m) PROVE Exists(m + 1)
  <2>1. PICK g : g = [s \in SUBSET (1..m) |-> Step(g, s)] BY <1>2
  <2> DEFINE f == [s \in SUBSET (1..(m + 1)) |->
                      IF m + 1 \notin s THEN g[s]
                      ELSE ReplayEvent(g[s \ {m + 1}], events[m + 1])]
  <2>2. ASSUME NEW s \in SUBSET (1..(m + 1)) PROVE f[s] = Step(f, s)
    <3>1. CASE m + 1 \in s
      <4>1. Max(s) = m + 1 BY <3>1, GreatestOfAll
      <4>2. s \ {m + 1} \in SUBSET (1..(m + 1)) /\ m + 1 \notin s \ {m + 1} OBVIOUS
      <4>3. f[s \ {m + 1}] = g[s \ {m + 1}] BY <4>2
      <4> QED BY <3>1, <4>1, <4>3
    <3>2. CASE m + 1 \notin s
      <4>1. s \in SUBSET (1..m) BY <3>2
      <4>2. f[s] = Step(g, s) BY <2>1, <3>2, <4>1
      <4>3. f[s \ {Max(s)}] = g[s \ {Max(s)}] BY <3>2
      <4> QED BY <4>2, <4>3
    <3> QED BY <3>1, <3>2
  <2>3. f = [s \in SUBSET (1..(m + 1)) |-> f[s]] OBVIOUS
  <2> HIDE DEF f
  <2>4. f = [s \in SUBSET (1..(m + 1)) |-> Step(f, s)]
    <3> HIDE DEF Step
    <3> QED BY <2>2, <2>3
  <2> QED BY <2>4
<1>3. Exists(n)
  <2>1. 0 \in S BY <1>1
  <2>2. \A m \in S \cap Nat : m + 1 \in S
    <3> HIDE DEF Exists
    <3> QED BY <1>2
  <2> HIDE DEF S
  <2>3. n \in S BY <2>1, <2>2, SetInduction
  <2> QED BY <2>3 DEF S
<1> DEFINE whole == CHOOSE f : f = [s \in SUBSET (1..n) |-> Step(f, s)]
<1>4. whole = [s \in SUBSET (1..n) |-> Step(whole, s)] BY <1>3
<1>5. FoldLeft(ReplayEvent, run[0], events) = whole[1..n]
  BY DEF FoldLeft, MapThenFoldSet
<1> HIDE DEF whole
<1> DEFINE T == {k \in Nat : k <= n => whole[1..k] = run[k]}
<1>6. 0 \in T
  <2>1. 1..0 = {} /\ {} \in SUBSET (1..n) OBVIOUS
  <2>2. whole[{}] = run[0] BY <1>4, <2>1
  <2> QED BY <2>1, <2>2
<1>7. ASSUME NEW k \in T \cap Nat PROVE k + 1 \in T
  <2> SUFFICES ASSUME k + 1 <= n PROVE whole[1..(k + 1)] = run[k + 1] OBVIOUS
  <2>1. whole[1..k] = run[k] OBVIOUS
  <2>2. /\ 1..(k + 1) \in SUBSET (1..n) /\ k + 1 \in 1..(k + 1)
        /\ (1..(k + 1)) \ {k + 1} = 1..k
    OBVIOUS
  <2>3. Max(1..(k + 1)) = k + 1 BY <2>2, GreatestOfAll
  <2>4. whole[1..(k + 1)] = ReplayEvent(whole[1..k], events[k + 1])
    <3>1. \A s \in SUBSET (1..n) : whole[s] = Step(whole, s) BY <1>4
    <3>2. whole[1..(k + 1)] = Step(whole, 1..(k + 1)) BY <2>2, <3>1
    <3>3. 1..(k + 1) # {} BY <2>2
    <3> QED BY <2>2, <2>3, <3>2, <3>3
  <2>5. run[k + 1] = ReplayEvent(run[k], events[k + 1])
    <3>1. k + 1 \in 1..n /\ (k + 1) - 1 = k OBVIOUS
    <3> QED BY <3>1
  <2> QED BY <2>1, <2>4, <2>5
<1>8. n \in T
  <2> HIDE DEF T
  <2> QED BY <1>6, <1>7, SetInduction
<1> QED BY <1>5, <1>8
\* The object a client is shown after a page.
LEMMA ObjectFold ==
    ASSUME NEW n \in Nat, NEW events, DOMAIN events = 1..n, NEW run,
           \A k \in 1..n : run[k] = LatestObject(run[k - 1], events[k])
    PROVE  FoldLeft(LatestObject, run[0], events) = run[n]
<1> DEFINE Step(f, s) == IF s = {} THEN run[0]
                         ELSE LatestObject(f[s \ {Max(s)}], events[Max(s)])
           Exists(m) == \E f : f = [s \in SUBSET (1..m) |-> Step(f, s)]
           S == {m \in Nat : Exists(m)}
<1>1. Exists(0)
  <2> DEFINE f == [s \in SUBSET (1..0) |-> run[0]]
  <2>1. f = [s \in SUBSET (1..0) |-> Step(f, s)] OBVIOUS
  <2> QED BY <2>1
<1>2. ASSUME NEW m \in Nat, Exists(m) PROVE Exists(m + 1)
  <2>1. PICK g : g = [s \in SUBSET (1..m) |-> Step(g, s)] BY <1>2
  <2> DEFINE f == [s \in SUBSET (1..(m + 1)) |->
                      IF m + 1 \notin s THEN g[s]
                      ELSE LatestObject(g[s \ {m + 1}], events[m + 1])]
  <2>2. ASSUME NEW s \in SUBSET (1..(m + 1)) PROVE f[s] = Step(f, s)
    <3>1. CASE m + 1 \in s
      <4>1. Max(s) = m + 1 BY <3>1, GreatestOfAll
      <4>2. s \ {m + 1} \in SUBSET (1..(m + 1)) /\ m + 1 \notin s \ {m + 1} OBVIOUS
      <4>3. f[s \ {m + 1}] = g[s \ {m + 1}] BY <4>2
      <4> QED BY <3>1, <4>1, <4>3
    <3>2. CASE m + 1 \notin s
      <4>1. s \in SUBSET (1..m) BY <3>2
      <4>2. f[s] = Step(g, s) BY <2>1, <3>2, <4>1
      <4>3. f[s \ {Max(s)}] = g[s \ {Max(s)}] BY <3>2
      <4> QED BY <4>2, <4>3
    <3> QED BY <3>1, <3>2
  <2>3. f = [s \in SUBSET (1..(m + 1)) |-> f[s]] OBVIOUS
  <2> HIDE DEF f
  <2>4. f = [s \in SUBSET (1..(m + 1)) |-> Step(f, s)]
    <3> HIDE DEF Step
    <3> QED BY <2>2, <2>3
  <2> QED BY <2>4
<1>3. Exists(n)
  <2>1. 0 \in S BY <1>1
  <2>2. \A m \in S \cap Nat : m + 1 \in S
    <3> HIDE DEF Exists
    <3> QED BY <1>2
  <2> HIDE DEF S
  <2>3. n \in S BY <2>1, <2>2, SetInduction
  <2> QED BY <2>3 DEF S
<1> DEFINE whole == CHOOSE f : f = [s \in SUBSET (1..n) |-> Step(f, s)]
<1>4. whole = [s \in SUBSET (1..n) |-> Step(whole, s)] BY <1>3
<1>5. FoldLeft(LatestObject, run[0], events) = whole[1..n]
  BY DEF FoldLeft, MapThenFoldSet
<1> HIDE DEF whole
<1> DEFINE T == {k \in Nat : k <= n => whole[1..k] = run[k]}
<1>6. 0 \in T
  <2>1. 1..0 = {} /\ {} \in SUBSET (1..n) OBVIOUS
  <2>2. whole[{}] = run[0] BY <1>4, <2>1
  <2> QED BY <2>1, <2>2
<1>7. ASSUME NEW k \in T \cap Nat PROVE k + 1 \in T
  <2> SUFFICES ASSUME k + 1 <= n PROVE whole[1..(k + 1)] = run[k + 1] OBVIOUS
  <2>1. whole[1..k] = run[k] OBVIOUS
  <2>2. /\ 1..(k + 1) \in SUBSET (1..n) /\ k + 1 \in 1..(k + 1)
        /\ (1..(k + 1)) \ {k + 1} = 1..k
    OBVIOUS
  <2>3. Max(1..(k + 1)) = k + 1 BY <2>2, GreatestOfAll
  <2>4. whole[1..(k + 1)] = LatestObject(whole[1..k], events[k + 1])
    <3>1. \A s \in SUBSET (1..n) : whole[s] = Step(whole, s) BY <1>4
    <3>2. whole[1..(k + 1)] = Step(whole, 1..(k + 1)) BY <2>2, <3>1
    <3>3. 1..(k + 1) # {} BY <2>2
    <3> QED BY <2>2, <2>3, <3>2, <3>3
  <2>5. run[k + 1] = LatestObject(run[k], events[k + 1])
    <3>1. k + 1 \in 1..n /\ (k + 1) - 1 = k OBVIOUS
    <3> QED BY <3>1
  <2> QED BY <2>1, <2>4, <2>5
<1>8. n \in T
  <2> HIDE DEF T
  <2> QED BY <1>6, <1>7, SetInduction
<1> QED BY <1>5, <1>8
\* The output a later turn inherits after a page.
LEMMA OutputFold ==
    ASSUME NEW n \in Nat, NEW events, DOMAIN events = 1..n, NEW run,
           \A k \in 1..n : run[k] = AddOutput(run[k - 1], events[k])
    PROVE  FoldLeft(AddOutput, run[0], events) = run[n]
<1> DEFINE Step(f, s) == IF s = {} THEN run[0]
                         ELSE AddOutput(f[s \ {Max(s)}], events[Max(s)])
           Exists(m) == \E f : f = [s \in SUBSET (1..m) |-> Step(f, s)]
           S == {m \in Nat : Exists(m)}
<1>1. Exists(0)
  <2> DEFINE f == [s \in SUBSET (1..0) |-> run[0]]
  <2>1. f = [s \in SUBSET (1..0) |-> Step(f, s)] OBVIOUS
  <2> QED BY <2>1
<1>2. ASSUME NEW m \in Nat, Exists(m) PROVE Exists(m + 1)
  <2>1. PICK g : g = [s \in SUBSET (1..m) |-> Step(g, s)] BY <1>2
  <2> DEFINE f == [s \in SUBSET (1..(m + 1)) |->
                      IF m + 1 \notin s THEN g[s]
                      ELSE AddOutput(g[s \ {m + 1}], events[m + 1])]
  <2>2. ASSUME NEW s \in SUBSET (1..(m + 1)) PROVE f[s] = Step(f, s)
    <3>1. CASE m + 1 \in s
      <4>1. Max(s) = m + 1 BY <3>1, GreatestOfAll
      <4>2. s \ {m + 1} \in SUBSET (1..(m + 1)) /\ m + 1 \notin s \ {m + 1} OBVIOUS
      <4>3. f[s \ {m + 1}] = g[s \ {m + 1}] BY <4>2
      <4> QED BY <3>1, <4>1, <4>3
    <3>2. CASE m + 1 \notin s
      <4>1. s \in SUBSET (1..m) BY <3>2
      <4>2. f[s] = Step(g, s) BY <2>1, <3>2, <4>1
      <4>3. f[s \ {Max(s)}] = g[s \ {Max(s)}] BY <3>2
      <4> QED BY <4>2, <4>3
    <3> QED BY <3>1, <3>2
  <2>3. f = [s \in SUBSET (1..(m + 1)) |-> f[s]] OBVIOUS
  <2> HIDE DEF f
  <2>4. f = [s \in SUBSET (1..(m + 1)) |-> Step(f, s)]
    <3> HIDE DEF Step
    <3> QED BY <2>2, <2>3
  <2> QED BY <2>4
<1>3. Exists(n)
  <2>1. 0 \in S BY <1>1
  <2>2. \A m \in S \cap Nat : m + 1 \in S
    <3> HIDE DEF Exists
    <3> QED BY <1>2
  <2> HIDE DEF S
  <2>3. n \in S BY <2>1, <2>2, SetInduction
  <2> QED BY <2>3 DEF S
<1> DEFINE whole == CHOOSE f : f = [s \in SUBSET (1..n) |-> Step(f, s)]
<1>4. whole = [s \in SUBSET (1..n) |-> Step(whole, s)] BY <1>3
<1>5. FoldLeft(AddOutput, run[0], events) = whole[1..n]
  BY DEF FoldLeft, MapThenFoldSet
<1> HIDE DEF whole
<1> DEFINE T == {k \in Nat : k <= n => whole[1..k] = run[k]}
<1>6. 0 \in T
  <2>1. 1..0 = {} /\ {} \in SUBSET (1..n) OBVIOUS
  <2>2. whole[{}] = run[0] BY <1>4, <2>1
  <2> QED BY <2>1, <2>2
<1>7. ASSUME NEW k \in T \cap Nat PROVE k + 1 \in T
  <2> SUFFICES ASSUME k + 1 <= n PROVE whole[1..(k + 1)] = run[k + 1] OBVIOUS
  <2>1. whole[1..k] = run[k] OBVIOUS
  <2>2. /\ 1..(k + 1) \in SUBSET (1..n) /\ k + 1 \in 1..(k + 1)
        /\ (1..(k + 1)) \ {k + 1} = 1..k
    OBVIOUS
  <2>3. Max(1..(k + 1)) = k + 1 BY <2>2, GreatestOfAll
  <2>4. whole[1..(k + 1)] = AddOutput(whole[1..k], events[k + 1])
    <3>1. \A s \in SUBSET (1..n) : whole[s] = Step(whole, s) BY <1>4
    <3>2. whole[1..(k + 1)] = Step(whole, 1..(k + 1)) BY <2>2, <3>1
    <3>3. 1..(k + 1) # {} BY <2>2
    <3> QED BY <2>2, <2>3, <3>2, <3>3
  <2>5. run[k + 1] = AddOutput(run[k], events[k + 1])
    <3>1. k + 1 \in 1..n /\ (k + 1) - 1 = k OBVIOUS
    <3> QED BY <3>1
  <2> QED BY <2>1, <2>4, <2>5
<1>8. n \in T
  <2> HIDE DEF T
  <2> QED BY <1>6, <1>7, SetInduction
<1> QED BY <1>5, <1>8

----------------------------------------------------------------------------
(* Items, the sink and the replay.                                         *)

\* A function on the first m numbers is a list of m values.
LEMMA FunctionIsList ==
    ASSUME NEW X, NEW m \in Nat, NEW f \in [1..m -> X]
    PROVE  f \in Seq(X) /\ Len(f) = m
OBVIOUS

LEMMA AppendedList ==
    ASSUME NEW X, NEW list \in Seq(X), NEW m \in Nat, Len(list) = m, NEW x \in X
    PROVE  /\ Append(list, x) \in Seq(X) /\ Len(Append(list, x)) = m + 1
           /\ \A i \in 1..m : Append(list, x)[i] = list[i]
           /\ Append(list, x)[m + 1] = x
           /\ Append(list, x) = [i \in 1..(m + 1) |-> Append(list, x)[i]]
<1>1. Append(list, x) \in Seq(X) /\ Len(Append(list, x)) = m + 1 OBVIOUS
<1>2. Append(list, x) = [i \in 1..(m + 1) |-> Append(list, x)[i]]
  <2> DEFINE more == Append(list, x)
  <2>1. more \in Seq(X) /\ Len(more) = m + 1 BY <1>1
  <2> HIDE DEF more
  <2>2. more = [i \in 1..(m + 1) |-> more[i]] BY <2>1
  <2> QED BY <2>2 DEF more
<1> QED BY <1>1, <1>2

\* Items at consecutive indices are in order already.
LEMMA SortedAlready ==
    ASSUME NEW n \in Nat, NEW items, DOMAIN items = 1..n,
           \A i \in 1..n : items[i].at = i - 1,
           NEW p \in 1..n
    PROVE  (CHOOSE i \in DOMAIN items : Place(items, i) = p) = p
<1>1. ASSUME NEW i \in 1..n PROVE Place(items, i) = i
  <2> DEFINE Before == {j \in DOMAIN items :
                           items[j].at < items[i].at \/ (items[j].at = items[i].at /\ j <= i)}
  <2>1. ASSUME NEW j \in 1..n PROVE j \in Before <=> j \in 1..i
    <3>1. items[j].at = j - 1 /\ items[i].at = i - 1 OBVIOUS
    <3> QED BY <3>1
  <2>2. Before = 1..i BY <2>1
  <2>3. Cardinality(1..i) = i BY FS_Interval
  <2> QED BY <2>2, <2>3 DEF Place
<1>2. \E i \in DOMAIN items : Place(items, i) = p BY <1>1
<1> QED BY <1>1, <1>2

\* The items of one response: each at its place, no token in two of them.
Distinct(items) ==
    \A i \in 1..Len(items) :
        /\ items[i].id = i - 1
        /\ \A j \in (1..Len(items)) \ {i} :
              Range(items[i].text) \cap Range(items[j].text) = {}

Sink == [stopped : BOOLEAN, outputIndex : Nat, reasoning : Seq(Nat),
         completed : Seq(Item), openItem : Item \cup {None}, openText : Seq(Nat)]

\* A sink after n calls.  A token is never in two texts, since a text is
\* emptied when its item opens and when it closes.
SinkSound(s, n) ==
    /\ s \in Sink
    /\ Distinct(s.completed)
    /\ \A i \in 1..Len(s.completed) :
          \A t \in Range(s.completed[i].text) : t <= n /\ t \notin Range(s.openText)
    /\ \A t \in Range(s.openText) : t <= n
    /\ s.outputIndex = Len(s.completed) + (IF s.openItem = None THEN 0 ELSE 1)
    /\ s.openItem # None => s.openItem.id = Len(s.completed) /\ s.openItem.text = <<>>

\* What a replay has rebuilt is what the sink holds.
Match(s, acc) ==
    /\ acc = [items |-> [i \in 1..Len(s.completed) |-> [at |-> i - 1, item |-> s.completed[i]]],
              open  |-> IF s.openItem = None THEN None
                        ELSE [at |-> Len(s.completed), item |-> s.openItem],
              text  |-> acc.text]
    /\ s.openItem # None => acc.text = s.openText

LEMMA NothingIsAbsent ==
    /\ \A item \in Item : item # None
    /\ \A at \in Nat, item \in Item : [at |-> at, item |-> item] # None
    /\ \A state \in Ended \cup {"queued", "in_progress"}, output \in Seq(Item) :
          Object(state, output) \in ResponseObject /\ Object(state, output) # None
    /\ \A items \in Seq(Item) : items # None
    /\ \A event \in Event, fenced \in BOOLEAN : [event |-> event, fenced |-> fenced] # None
<1>1. \A at \in Nat, item \in Item : [at |-> at, item |-> item] \in Placed BY DEF Placed
<1>2. \A state \in Ended \cup {"queued", "in_progress"}, output \in Seq(Item) :
          Object(state, output) \in ResponseObject
  BY DEF Object, ResponseObject, Ended
<1>3. \A event \in Event, fenced \in BOOLEAN : [event |-> event, fenced |-> fenced] \in Pending
  BY DEF Pending
<1> QED BY <1>1, <1>2, <1>3, OutputConstants

LEMMA MessageFields ==
    ASSUME NEW id \in Nat, NEW text \in Seq(Nat),
           NEW done \in {"in_progress", "completed", "incomplete"}
    PROVE  /\ Message(id, text, done) \in Item /\ Message(id, text, done).id = id
           /\ Message(id, text, done).text = text /\ Message(id, text, done).type = "message"
           /\ FunctionCall(id, done) \in Item /\ FunctionCall(id, done).id = id
           /\ FunctionCall(id, done).text = <<>> /\ FunctionCall(id, done).type = "call"
<1>1. <<>> \in Seq(Nat) OBVIOUS
<1> QED BY <1>1 DEF Message, FunctionCall, Item

\* What a sink would archive: its items, and the text of its open message.
SinkTokens(s) ==
    (UNION {Range(s.completed[i].text) : i \in 1..Len(s.completed)})
    \cup (IF s.openItem # None /\ s.openItem.type = "message"
          THEN Range(s.openText) ELSE {})

LEMMA SinkOutputFields ==
    ASSUME NEW s, NEW n \in Nat, SinkSound(s, n)
    PROVE  /\ SinkOutput(s) \in Seq(Item) /\ Distinct(SinkOutput(s))
           /\ Tokens(SinkOutput(s)) = SinkTokens(s)
<1>1. s.completed \in Seq(Item) /\ Len(s.completed) \in Nat /\ s.openText \in Seq(Nat)
  BY DEF SinkSound, Sink
<1> DEFINE closed == UNION {Range(s.completed[i].text) : i \in 1..Len(s.completed)}
<1>2. CASE PartialItem(s) = <<>>
  <2>1. SinkOutput(s) = s.completed BY <1>1, <1>2 DEF SinkOutput
  <2>2. (s.openItem # None /\ s.openItem.type = "message") => Range(s.openText) = {}
    <3>1. SUFFICES ASSUME s.openItem # None, s.openItem.type = "message"
                   PROVE  Range(s.openText) = {}
      OBVIOUS
    <3>2. s.openText = <<>> BY <1>2, <3>1 DEF PartialItem
    <3> QED BY <3>2 DEF Range
  <2>3. Tokens(s.completed) = closed BY <1>1 DEF Tokens
  <2> QED BY <1>1, <2>1, <2>2, <2>3 DEF SinkSound, SinkTokens
<1>3. CASE PartialItem(s) # <<>>
  <2> DEFINE rest == Message(s.openItem.id, s.openText, "incomplete")
             m    == Len(s.completed)
  <2>1. /\ s.openItem # None /\ s.openItem.type = "message"
        /\ PartialItem(s) = <<rest>>
    BY <1>3 DEF PartialItem
  <2>2. s.openItem.id = m BY <2>1 DEF SinkSound
  <2>3. rest \in Item /\ rest.id = m /\ rest.text = s.openText
    BY <1>1, <2>2, MessageFields
  <2> HIDE DEF rest
  <2>4. SinkOutput(s) = Append(s.completed, rest)
    BY <1>1, <2>1, <2>3 DEF SinkOutput
  <2> DEFINE items == SinkOutput(s)
  <2>5. /\ items \in Seq(Item) /\ Len(items) = m + 1
        /\ \A i \in 1..m : items[i] = s.completed[i]
        /\ items[m + 1] = rest
    BY <1>1, <2>3, <2>4
  <2>6. Distinct(items)
    <3>1. \A i \in 1..m : /\ s.completed[i].id = i - 1
                          /\ \A j \in (1..m) \ {i} :
                                Range(s.completed[i].text) \cap Range(s.completed[j].text) = {}
                          /\ Range(s.completed[i].text) \cap Range(rest.text) = {}
      BY <2>3 DEF SinkSound, Distinct
    <3> HIDE DEF items
    <3>2. ASSUME NEW i \in 1..(m + 1)
          PROVE  items[i].id = i - 1
                 /\ \A j \in (1..(m + 1)) \ {i} : Range(items[i].text) \cap Range(items[j].text) = {}
      <4>1. CASE i = m + 1
        <5>1. \A j \in (1..(m + 1)) \ {i} : j \in 1..m BY <1>1, <4>1
        <5> QED BY <1>1, <2>3, <2>5, <3>1, <4>1, <5>1
      <4>2. CASE i # m + 1
        <5>1. i \in 1..m BY <1>1, <4>2
        <5>2. \A j \in (1..(m + 1)) \ {i} : j \in (1..m) \ {i} \/ j = m + 1 BY <1>1
        <5> QED BY <2>5, <3>1, <5>1, <5>2
      <4> QED BY <4>1, <4>2
    <3> QED BY <2>5, <3>2 DEF Distinct
  <2>7. Tokens(items) = closed \cup Range(s.openText)
    <3>1. DOMAIN items = 1..(m + 1) BY <2>5
    <3> HIDE DEF items
    <3>2. \A i \in 1..(m + 1) : i \in 1..m \/ i = m + 1 BY <1>1
    <3>3. \A i \in 1..m : i \in 1..(m + 1) BY <1>1
    <3>4. m + 1 \in 1..(m + 1) BY <1>1
    <3>5. \A t : t \in Tokens(items) <=> \E i \in 1..(m + 1) : t \in Range(items[i].text)
      BY <3>1 DEF Tokens
    <3>6. \A t : t \in closed <=> \E i \in 1..m : t \in Range(s.completed[i].text) OBVIOUS
    <3> HIDE DEF closed, m
    <3> QED BY <2>3, <2>5, <3>2, <3>3, <3>4, <3>5, <3>6
  <2>8. (IF s.openItem # None /\ s.openItem.type = "message"
         THEN Range(s.openText) ELSE {}) = Range(s.openText)
    BY <2>1
  <2>9. SinkOutput(s) \in Seq(Item) /\ Distinct(SinkOutput(s)) BY <2>5, <2>6
  <2>10. Tokens(SinkOutput(s)) = closed \cup Range(s.openText) BY <2>7
  <2> QED BY <2>8, <2>9, <2>10 DEF SinkTokens
<1> QED BY <1>2, <1>3

\* The two ways to save an interrupted run say the same of what they hold.
LEMMA FunnelsMatch ==
    ASSUME NEW s, NEW n \in Nat, NEW acc, SinkSound(s, n), Match(s, acc)
    PROVE  ReplayedItems(acc) = SinkOutput(s)
<1> DEFINE m == Len(s.completed)
           items == Indexed(acc)
           closed == [i \in 1..m |-> [at |-> i - 1, item |-> s.completed[i]]]
<1>1. s.completed \in Seq(Item) /\ m \in Nat /\ s.openText \in Seq(Nat)
  BY DEF SinkSound, Sink
<1>2. acc.items = closed BY DEF Match
<1>3. s.openItem = None <=> acc.open = None
  <2>1. CASE s.openItem = None BY <2>1 DEF Match
  <2>2. CASE s.openItem # None
    <3>1. s.openItem \in Item BY <2>2 DEF SinkSound, Sink
    <3>2. acc.open = [at |-> m, item |-> s.openItem] BY <2>2 DEF Match
    <3> QED BY <1>1, <2>2, <3>1, <3>2, NothingIsAbsent
  <2> QED BY <2>1, <2>2
<1>4. s.openItem # None =>
        acc.open.at = m /\ acc.open.item = s.openItem /\ acc.text = s.openText
  BY DEF Match
<1>5. closed \in Seq([at : Nat, item : Item]) /\ Len(closed) = m
  <2>1. \A i \in 1..m : [at |-> i - 1, item |-> s.completed[i]] \in [at : Nat, item : Item]
    BY <1>1
  <2> HIDE DEF m
  <2>2. closed \in [1..m -> [at : Nat, item : Item]] BY <2>1
  <2> HIDE DEF closed
  <2> QED BY <1>1, <2>2, FunctionIsList
<1>6. CASE PartialItem(s) = <<>>
  <2>1. ~(acc.open # None /\ acc.open.item.type = "message" /\ acc.text # <<>>)
    BY <1>3, <1>4, <1>6 DEF PartialItem
  <2>2. items = closed BY <1>2, <2>1 DEF Indexed
  <2>3. SinkOutput(s) = s.completed BY <1>1, <1>6 DEF SinkOutput
  <2>4. Len(items) = m /\ DOMAIN items = 1..m
        /\ \A i \in 1..m : items[i].at = i - 1 /\ items[i].item = s.completed[i]
    BY <1>1, <2>2, <1>5
  <2> HIDE DEF items, m, closed
  <2>5. \A p \in 1..m : items[CHOOSE i \in DOMAIN items : Place(items, i) = p].item = s.completed[p]
    BY <1>1, <2>4, SortedAlready
  <2>6. ReplayedItems(acc) = [p \in 1..m |-> s.completed[p]]
    BY <2>4, <2>5 DEF ReplayedItems, items
  <2> QED BY <1>1, <2>3, <2>6 DEF m
<1>7. CASE PartialItem(s) # <<>>
  <2> DEFINE rest == Message(s.openItem.id, s.openText, "incomplete")
             output == SinkOutput(s)
  <2>1. /\ s.openItem # None /\ s.openItem.type = "message" /\ s.openText # <<>>
        /\ PartialItem(s) = <<rest>>
    BY <1>7 DEF PartialItem
  <2>2. rest \in Item
    <3>1. s.openItem.id = m BY <2>1 DEF SinkSound
    <3> QED BY <1>1, <3>1, MessageFields
  <2>3. items = Append(closed, [at |-> m, item |-> rest])
    BY <1>2, <1>3, <1>4, <2>1 DEF Indexed
  <2> HIDE DEF rest
  <2>4. output = Append(s.completed, rest) BY <1>1, <2>1, <2>2 DEF SinkOutput
  <2>5. /\ output \in Seq(Item) /\ Len(output) = m + 1
        /\ \A i \in 1..m : output[i] = s.completed[i]
        /\ output[m + 1] = rest
    BY <1>1, <2>2, <2>4
  <2>6. \A i \in 1..m : closed[i].at = i - 1 /\ closed[i].item = s.completed[i]
    BY <1>1
  <2> HIDE DEF closed, output, m
  <2>7. /\ Len(items) = m + 1 /\ DOMAIN items = 1..(m + 1)
        /\ \A i \in 1..m : items[i] = closed[i]
        /\ items[m + 1] = [at |-> m, item |-> rest]
    <3>1. [at |-> m, item |-> rest] \in [at : Nat, item : Item] BY <1>1, <2>2
    <3> QED BY <1>1, <1>5, <2>3, <3>1
  <2>8. \A i \in 1..(m + 1) : items[i].at = i - 1 /\ items[i].item = output[i]
    <3>1. ASSUME NEW i \in 1..(m + 1) PROVE items[i].at = i - 1 /\ items[i].item = output[i]
      <4>1. CASE i = m + 1
        <5>1. items[i].at = m /\ items[i].item = rest BY <2>7, <4>1
        <5>2. output[i] = rest /\ m = i - 1 BY <1>1, <2>5, <4>1
        <5> QED BY <5>1, <5>2
      <4>2. CASE i # m + 1
        <5>1. i \in 1..m BY <1>1, <4>2
        <5> QED BY <2>5, <2>6, <2>7, <5>1
      <4> QED BY <4>1, <4>2
    <3> QED BY <3>1
  <2> HIDE DEF items
  <2>9. m + 1 \in Nat BY <1>1
  <2>10. \A p \in 1..(m + 1) :
            items[CHOOSE i \in DOMAIN items : Place(items, i) = p].item = output[p]
    BY <2>7, <2>8, <2>9, SortedAlready
  <2>11. ReplayedItems(acc) = [p \in 1..(m + 1) |-> output[p]]
    BY <2>7, <2>10 DEF ReplayedItems, items
  <2>12. output = [p \in 1..(m + 1) |-> output[p]] BY <2>5
  <2> QED BY <2>11, <2>12 DEF output
<1> QED BY <1>6, <1>7

SinkFields(s, n) ==
    /\ s = [stopped |-> s.stopped, outputIndex |-> s.outputIndex,
            reasoning |-> s.reasoning, completed |-> s.completed,
            openItem |-> s.openItem, openText |-> s.openText]
    /\ s.stopped \in BOOLEAN /\ s.outputIndex \in Nat /\ s.reasoning \in Seq(Nat)
    /\ s.completed \in Seq(Item) /\ Len(s.completed) \in Nat
    /\ s.openItem \in Item \cup {None} /\ s.openText \in Seq(Nat)
    /\ \A i \in 1..Len(s.completed) : \A t \in Range(s.completed[i].text) :
          t \in Nat /\ t <= n + 1 /\ t # n + 1
    /\ \A t \in Range(s.openText) : t \in Nat /\ t <= n + 1

LEMMA SinkHasFields ==
    ASSUME NEW s, NEW n \in Nat, SinkSound(s, n)
    PROVE  SinkFields(s, n)
<1>1. s \in Sink BY DEF SinkSound
<1>2. /\ s.completed \in Seq(Item) /\ Len(s.completed) \in Nat /\ s.openText \in Seq(Nat)
      /\ s.openItem \in Item \cup {None}
  BY <1>1 DEF Sink
<1>3. ASSUME NEW i \in 1..Len(s.completed), NEW t \in Range(s.completed[i].text)
      PROVE  t \in Nat /\ t <= n + 1 /\ t # n + 1
  <2>1. s.completed[i] \in Item BY <1>2
  <2>2. s.completed[i].text \in Seq(Nat) BY <2>1 DEF Item
  <2>3. t \in Nat BY <2>2 DEF Range
  <2>4. t <= n BY DEF SinkSound
  <2> QED BY <2>3, <2>4
<1>4. ASSUME NEW t \in Range(s.openText) PROVE t \in Nat /\ t <= n + 1
  <2>1. t \in Nat BY <1>2 DEF Range
  <2>2. t <= n BY DEF SinkSound
  <2> QED BY <2>1, <2>2
<1> QED BY <1>1, <1>2, <1>3, <1>4 DEF Sink, SinkFields

LEMMA RangeOfAppended ==
    ASSUME NEW X, NEW text \in Seq(X), NEW t \in X
    PROVE  Range(Append(text, t)) = Range(text) \cup {t}
<1> DEFINE n == Len(text)
           more == Append(text, t)
<1>1. /\ n \in Nat /\ DOMAIN text = 1..n /\ DOMAIN more = 1..(n + 1)
      /\ \A i \in 1..n : more[i] = text[i]
      /\ more[n + 1] = t
  OBVIOUS
<1> HIDE DEF more, n
<1>2. \A i \in 1..(n + 1) : i \in 1..n \/ i = n + 1 BY <1>1
<1>3. \A i \in 1..n : i \in 1..(n + 1) BY <1>1
<1>4. n + 1 \in 1..(n + 1) BY <1>1
<1>5. Range(more) = Range(text) \cup {t} BY <1>1, <1>2, <1>3, <1>4 DEF Range
<1> QED BY <1>5 DEF more

\* What each call makes of the sink and, once its event is out, of a replay.
CallKept(s, next, n, event) ==
    /\ SinkSound(next, n + 1) /\ next.stopped = s.stopped
    /\ Tokens(SinkOutput(s)) \subseteq Tokens(SinkOutput(next))
    /\ event \in Event /\ event.object = None
    /\ \A acc : Match(s, acc) => Match(next, ReplayEvent(acc, event))

LEMMA AddedCall ==
    ASSUME NEW s, NEW n \in Nat, SinkSound(s, n), s.openItem = None, NEW item,
           item \in {Message(s.outputIndex, <<>>, "in_progress"),
                     FunctionCall(s.outputIndex, "in_progress")}
    PROVE  CallKept(s, AfterAdded(s, item), n, ItemEvent(FALSE, s.outputIndex, item))
<1> DEFINE next == AfterAdded(s, item)
           event == ItemEvent(FALSE, s.outputIndex, item)
           m == Len(s.completed)
<1>1. SinkFields(s, n) BY SinkHasFields
<1>2. m \in Nat /\ s.outputIndex = m BY <1>1 DEF SinkSound, SinkFields
<1>3. item \in Item /\ item.id = m /\ item.text = <<>>
  <2>1. <<>> \in Seq(Nat) OBVIOUS
  <2>2. CASE item = Message(s.outputIndex, <<>>, "in_progress")
    BY <1>2, <2>1, <2>2 DEF Message, Item
  <2>3. CASE item = FunctionCall(s.outputIndex, "in_progress")
    BY <1>2, <2>1, <2>3 DEF FunctionCall, Item
  <2> QED BY <2>2, <2>3
<1>4. item # None BY <1>3, NothingIsAbsent
<1>5. next = [stopped |-> s.stopped, outputIndex |-> m + 1, reasoning |-> s.reasoning,
              completed |-> s.completed, openItem |-> item, openText |-> <<>>]
  <2>1. next = [s EXCEPT !.outputIndex = m + 1, !.openItem = item, !.openText = <<>>]
    BY <1>2 DEF AfterAdded
  <2> HIDE DEF m, next
  <2> QED BY <1>1, <2>1 DEF SinkFields
<1> HIDE DEF next
<1>6. next \in Sink
  <2>1. <<>> \in Seq(Nat) /\ m + 1 \in Nat BY <1>2
  <2> HIDE DEF m
  <2> QED BY <1>1, <1>3, <1>5, <2>1 DEF Sink, SinkFields
<1>7. Range(next.openText) = {} BY <1>5 DEF Range
<1>8. SinkSound(next, n + 1)
  <2>1. \A i \in 1..m : \A t \in Range(s.completed[i].text) : t <= n + 1
    BY <1>1 DEF SinkFields
  <2>2. Distinct(s.completed) BY DEF SinkSound
  <2> QED BY <1>3, <1>4, <1>5, <1>6, <1>7, <2>1, <2>2 DEF SinkSound
<1>9. Tokens(SinkOutput(s)) \subseteq Tokens(SinkOutput(next))
  <2>1. n + 1 \in Nat OBVIOUS
  <2>2. Tokens(SinkOutput(s)) = SinkTokens(s) BY SinkOutputFields
  <2>3. Tokens(SinkOutput(next)) = SinkTokens(next) BY <1>8, <2>1, SinkOutputFields
  <2>4. SinkTokens(s) \subseteq SinkTokens(next) BY <1>5 DEF SinkTokens
  <2> QED BY <2>2, <2>3, <2>4
<1>10. event \in Event /\ event.object = None
  BY <1>2, <1>3 DEF ItemEvent, Event, EventKinds
<1>11. ASSUME NEW acc, Match(s, acc) PROVE Match(next, ReplayEvent(acc, event))
  <2> DEFINE after == ReplayEvent(acc, event)
  <2>1. after = [acc EXCEPT !.open = [at |-> m, item |-> item], !.text = <<>>]
    BY <1>2 DEF ReplayEvent, ItemEvent
  <2>2. acc = [items |-> acc.items, open |-> acc.open, text |-> acc.text]
    BY <1>11 DEF Match
  <2> HIDE DEF after
  <2>3. after = [items |-> acc.items, open |-> [at |-> m, item |-> item], text |-> <<>>]
    BY <2>1, <2>2
  <2>4. acc.items = [i \in 1..m |-> [at |-> i - 1, item |-> s.completed[i]]]
    BY <1>11 DEF Match
  <2>5. Match(next, after) BY <1>4, <1>5, <2>3, <2>4 DEF Match
  <2> QED BY <2>5 DEF after
<1> HIDE DEF event
<1>12. CallKept(s, next, n, event) BY <1>5, <1>8, <1>9, <1>10, <1>11 DEF CallKept
<1> QED BY <1>12 DEF next, event

LEMMA DeltaCall ==
    ASSUME NEW s, NEW n \in Nat, SinkSound(s, n)
    PROVE  /\ CallKept(s, AfterDelta(s, n + 1), n, TextDelta(CurrentIndex(s), n + 1))
           /\ n + 1 \in Range(AfterDelta(s, n + 1).openText)
<1> DEFINE next == AfterDelta(s, n + 1)
           event == TextDelta(CurrentIndex(s), n + 1)
           m == Len(s.completed)
           text == Append(s.openText, n + 1)
<1>1. SinkFields(s, n) BY SinkHasFields
<1>2. m \in Nat /\ s.openText \in Seq(Nat) BY <1>1 DEF SinkFields
<1>3. next = [stopped |-> s.stopped, outputIndex |-> s.outputIndex,
              reasoning |-> s.reasoning, completed |-> s.completed,
              openItem |-> s.openItem, openText |-> text]
  <2>1. next = [s EXCEPT !.openText = text] BY DEF AfterDelta
  <2> HIDE DEF text, next
  <2> QED BY <1>1, <2>1 DEF SinkFields
<1>4. text \in Seq(Nat) /\ Range(text) = Range(s.openText) \cup {n + 1}
  <2>1. n + 1 \in Nat OBVIOUS
  <2> QED BY <1>2, <2>1, RangeOfAppended
<1> HIDE DEF next, text
<1>5. next \in Sink BY <1>1, <1>3, <1>4 DEF Sink, SinkFields
<1>6. SinkSound(next, n + 1)
  <2>1. \A i \in 1..m : \A t \in Range(s.completed[i].text) :
            t <= n + 1 /\ t \notin Range(text)
    <3>1. ASSUME NEW i \in 1..m, NEW t \in Range(s.completed[i].text)
          PROVE  t <= n + 1 /\ t # n + 1 /\ t \notin Range(s.openText)
      BY <1>1 DEF SinkFields, SinkSound
    <3> QED BY <1>4, <3>1
  <2>2. \A t \in Range(text) : t <= n + 1
    <3>1. \A t \in Range(s.openText) : t <= n + 1 BY <1>1 DEF SinkFields
    <3> QED BY <1>4, <3>1
  <2>3. Distinct(s.completed) BY DEF SinkSound
  <2>4. /\ s.outputIndex = m + (IF s.openItem = None THEN 0 ELSE 1)
        /\ s.openItem # None => s.openItem.id = m /\ s.openItem.text = <<>>
    BY DEF SinkSound
  <2> QED BY <1>3, <1>5, <2>1, <2>2, <2>3, <2>4 DEF SinkSound
<1>7. Tokens(SinkOutput(s)) \subseteq Tokens(SinkOutput(next))
  <2>1. n + 1 \in Nat OBVIOUS
  <2>2. Tokens(SinkOutput(s)) = SinkTokens(s) BY SinkOutputFields
  <2>3. Tokens(SinkOutput(next)) = SinkTokens(next) BY <1>6, <2>1, SinkOutputFields
  <2>4. SinkTokens(s) \subseteq SinkTokens(next) BY <1>3, <1>4 DEF SinkTokens
  <2> QED BY <2>2, <2>3, <2>4
<1>8. CurrentIndex(s) \in Nat /\ (s.openItem # None => CurrentIndex(s) = m)
  <2>1. s.outputIndex \in Nat BY <1>1 DEF SinkFields
  <2>2. s.openItem # None => s.outputIndex = m + 1 BY DEF SinkSound
  <2> QED BY <1>2, <2>1, <2>2 DEF CurrentIndex
<1>9. event \in Event /\ event.object = None
  <2>1. n + 1 \in Nat OBVIOUS
  <2> QED BY <1>8, <2>1 DEF TextDelta, Event, EventKinds
<1>10. ASSUME NEW acc, Match(s, acc) PROVE Match(next, ReplayEvent(acc, event))
  <2> DEFINE after == ReplayEvent(acc, event)
  <2>1. after = [acc EXCEPT !.text = IF OpenAt(acc, CurrentIndex(s)) THEN Append(@, n + 1) ELSE @]
    BY DEF ReplayEvent, TextDelta
  <2>2. /\ acc = [items |-> acc.items, open |-> acc.open, text |-> acc.text]
        /\ acc.items = [i \in 1..m |-> [at |-> i - 1, item |-> s.completed[i]]]
    BY <1>10 DEF Match
  <2> HIDE DEF after
  <2>3. CASE s.openItem = None
    <3>1. acc.open = None BY <1>10, <2>3 DEF Match
    <3>2. after = acc BY <2>1, <2>2, <3>1 DEF OpenAt
    <3>3. Match(next, after) BY <1>3, <2>2, <2>3, <3>1, <3>2 DEF Match
    <3> QED BY <3>3 DEF after
  <2>4. CASE s.openItem # None
    <3>1. s.openItem \in Item BY <1>1, <2>4 DEF SinkFields
    <3>2. acc.open = [at |-> m, item |-> s.openItem] /\ acc.text = s.openText
      BY <1>10, <2>4 DEF Match
    <3>3. acc.open # None BY <1>2, <3>1, <3>2, NothingIsAbsent
    <3>4. OpenAt(acc, CurrentIndex(s)) BY <1>8, <2>4, <3>2, <3>3 DEF OpenAt
    <3>5. after = [items |-> acc.items, open |-> acc.open, text |-> text]
      BY <2>1, <2>2, <3>2, <3>4 DEF text
    <3>6. Match(next, after) BY <1>3, <2>2, <2>4, <3>2, <3>5 DEF Match
    <3> QED BY <3>6 DEF after
  <2> QED BY <2>3, <2>4
<1>11. n + 1 \in Range(next.openText) BY <1>3, <1>4
<1> HIDE DEF event
<1>12. CallKept(s, next, n, event) BY <1>3, <1>6, <1>7, <1>9, <1>10 DEF CallKept
<1> QED BY <1>11, <1>12 DEF next, event

LEMMA AsideKept ==
    ASSUME NEW s, NEW n \in Nat, SinkSound(s, n), NEW kind \in Asides
    PROVE  CallKept(s, AfterAside(s, kind, n + 1), n,
                    Aside(kind, IF kind = "reasoning" THEN 0 ELSE CurrentIndex(s)))
<1> DEFINE next == AfterAside(s, kind, n + 1)
           event == Aside(kind, IF kind = "reasoning" THEN 0 ELSE CurrentIndex(s))
           m == Len(s.completed)
<1>1. SinkFields(s, n) BY SinkHasFields
<1>2. PICK thoughts \in Seq(Nat) :
         next = [stopped |-> s.stopped, outputIndex |-> s.outputIndex,
                 reasoning |-> thoughts, completed |-> s.completed,
                 openItem |-> s.openItem, openText |-> s.openText]
  <2>1. Append(s.reasoning, n + 1) \in Seq(Nat) /\ s.reasoning \in Seq(Nat)
    BY <1>1 DEF SinkFields
  <2>2. CASE kind = "reasoning"
    <3>1. next = [stopped |-> s.stopped, outputIndex |-> s.outputIndex,
                  reasoning |-> Append(s.reasoning, n + 1), completed |-> s.completed,
                  openItem |-> s.openItem, openText |-> s.openText]
      BY <1>1, <2>2 DEF AfterAside, SinkFields
    <3> HIDE DEF next
    <3> QED BY <2>1, <3>1
  <2>3. CASE kind # "reasoning"
    <3>1. next = s BY <2>3 DEF AfterAside
    <3> HIDE DEF next
    <3> QED BY <1>1, <2>1, <3>1 DEF SinkFields
  <2> QED BY <2>2, <2>3
<1> HIDE DEF next
<1>3. next \in Sink BY <1>1, <1>2 DEF Sink, SinkFields
<1>4. SinkSound(next, n + 1)
  <2>1. \A i \in 1..m : \A t \in Range(s.completed[i].text) : t <= n + 1
    BY <1>1 DEF SinkFields
  <2>2. \A t \in Range(s.openText) : t <= n + 1 BY <1>1 DEF SinkFields
  <2> QED BY <1>2, <1>3, <2>1, <2>2 DEF SinkSound
<1>5. Tokens(SinkOutput(s)) \subseteq Tokens(SinkOutput(next))
  <2>1. n + 1 \in Nat OBVIOUS
  <2>2. Tokens(SinkOutput(s)) = SinkTokens(s) BY SinkOutputFields
  <2>3. Tokens(SinkOutput(next)) = SinkTokens(next) BY <1>4, <2>1, SinkOutputFields
  <2>4. SinkTokens(s) \subseteq SinkTokens(next) BY <1>2 DEF SinkTokens
  <2> QED BY <2>2, <2>3, <2>4
<1>6. event \in Event /\ event.object = None
  <2>1. CurrentIndex(s) \in Nat BY <1>1 DEF CurrentIndex, SinkFields
  <2> QED BY <2>1 DEF Aside, Event, EventKinds
<1>7. \A acc : ReplayEvent(acc, event) = acc
  <2>1. kind \notin {"added", "done", "delta"} BY OutputConstants
  <2> QED BY <2>1 DEF ReplayEvent, Aside
<1> HIDE DEF event
<1>8. \A acc : Match(s, acc) => Match(next, acc) BY <1>2 DEF Match
<1>9. CallKept(s, next, n, event) BY <1>2, <1>4, <1>5, <1>6, <1>7, <1>8 DEF CallKept
<1> QED BY <1>9 DEF next, event

LEMMA DoneCall ==
    ASSUME NEW s, NEW n \in Nat, SinkSound(s, n), s.openItem # None, NEW item,
           item = [s.openItem EXCEPT
                      !.status = "completed",
                      !.text = IF s.openItem.type = "message" THEN s.openText ELSE @]
    PROVE  CallKept(s, AfterDone(s, item), n, ItemEvent(TRUE, CurrentIndex(s), item))
<1> DEFINE next == AfterDone(s, item)
           event == ItemEvent(TRUE, CurrentIndex(s), item)
           m == Len(s.completed)
           closed == Append(s.completed, item)
<1>1. SinkFields(s, n) BY SinkHasFields
<1>2. /\ m \in Nat /\ s.completed \in Seq(Item) /\ s.openItem \in Item
      /\ s.openText \in Seq(Nat)
  BY <1>1 DEF SinkFields
<1>3. /\ s.outputIndex = m + 1 /\ s.openItem.id = m /\ s.openItem.text = <<>>
      /\ CurrentIndex(s) = m
  <2>1. s.outputIndex = m + 1 /\ s.openItem.id = m /\ s.openItem.text = <<>>
    BY DEF SinkSound
  <2> QED BY <1>2, <2>1 DEF CurrentIndex
<1>4. /\ item \in Item /\ item.id = m
      /\ item.text = IF s.openItem.type = "message" THEN s.openText ELSE <<>>
  BY <1>2, <1>3 DEF Item
<1>5. Range(item.text) = IF s.openItem.type = "message" THEN Range(s.openText) ELSE {}
  BY <1>4 DEF Range
<1>6. next = [stopped |-> s.stopped, outputIndex |-> m + 1, reasoning |-> s.reasoning,
              completed |-> closed, openItem |-> None, openText |-> <<>>]
  <2>1. next = [s EXCEPT !.completed = closed, !.openItem = None, !.openText = <<>>]
    BY DEF AfterDone
  <2> HIDE DEF m, next, closed
  <2> QED BY <1>1, <1>3, <2>1 DEF SinkFields
<1>7. /\ closed \in Seq(Item) /\ Len(closed) = m + 1
      /\ \A i \in 1..m : closed[i] = s.completed[i]
      /\ closed[m + 1] = item
  BY <1>2, <1>4
<1> HIDE DEF next, closed
<1>8. next \in Sink
  <2>1. <<>> \in Seq(Nat) /\ m + 1 \in Nat BY <1>2
  <2> HIDE DEF m
  <2> QED BY <1>1, <1>6, <1>7, <2>1 DEF Sink, SinkFields
<1>9. Range(next.openText) = {} BY <1>6 DEF Range
<1>10. \A i \in 1..(m + 1) : i \in 1..m \/ i = m + 1 BY <1>2
<1>11. Distinct(closed)
  <2>1. \A i \in 1..m : /\ s.completed[i].id = i - 1
                        /\ \A j \in (1..m) \ {i} :
                              Range(s.completed[i].text) \cap Range(s.completed[j].text) = {}
                        /\ Range(s.completed[i].text) \cap Range(item.text) = {}
    <3>1. ASSUME NEW i \in 1..m
          PROVE  Range(s.completed[i].text) \cap Range(item.text) = {}
      <4>1. \A t \in Range(s.completed[i].text) : t \notin Range(s.openText)
        BY DEF SinkSound
      <4> QED BY <1>5, <4>1
    <3> QED BY <3>1 DEF SinkSound, Distinct
  <2>2. ASSUME NEW i \in 1..(m + 1)
        PROVE  closed[i].id = i - 1
               /\ \A j \in (1..(m + 1)) \ {i} : Range(closed[i].text) \cap Range(closed[j].text) = {}
    <3>1. CASE i = m + 1
      <4>1. \A j \in (1..(m + 1)) \ {i} : j \in 1..m BY <1>2, <3>1
      <4>2. closed[i] = item /\ item.id = i - 1 BY <1>2, <1>4, <1>7, <3>1
      <4>3. \A j \in 1..m : Range(item.text) \cap Range(s.completed[j].text) = {} BY <2>1
      <4> HIDE DEF m
      <4> QED BY <1>7, <4>1, <4>2, <4>3
    <3>2. CASE i # m + 1
      <4>1. i \in 1..m BY <1>2, <3>2
      <4>2. \A j \in (1..(m + 1)) \ {i} : j \in (1..m) \ {i} \/ j = m + 1 BY <1>2
      <4> QED BY <1>7, <2>1, <4>1, <4>2
    <3> QED BY <3>1, <3>2
  <2> QED BY <1>7, <2>2 DEF Distinct
<1>12. SinkSound(next, n + 1)
  <2>1. \A i \in 1..(m + 1) : \A t \in Range(closed[i].text) : t <= n + 1
    <3>1. \A t \in Range(item.text) : t <= n + 1 BY <1>1, <1>5 DEF SinkFields
    <3>2. \A i \in 1..m : \A t \in Range(s.completed[i].text) : t <= n + 1
      BY <1>1 DEF SinkFields
    <3> QED BY <1>7, <1>10, <3>1, <3>2
  <2>2. next.outputIndex = Len(closed) + 0 BY <1>2, <1>6, <1>7
  <2> HIDE DEF m
  <2> QED BY <1>6, <1>7, <1>8, <1>9, <1>11, <2>1, <2>2 DEF SinkSound
<1>13. Tokens(SinkOutput(s)) \subseteq Tokens(SinkOutput(next))
  <2>1. n + 1 \in Nat OBVIOUS
  <2>2. Tokens(SinkOutput(s)) = SinkTokens(s) BY SinkOutputFields
  <2>3. Tokens(SinkOutput(next)) = SinkTokens(next) BY <1>12, <2>1, SinkOutputFields
  <2>4. ASSUME NEW t \in SinkTokens(s) PROVE t \in SinkTokens(next)
    <3>1. CASE \E i \in 1..m : t \in Range(s.completed[i].text)
      <4>1. PICK i \in 1..m : t \in Range(s.completed[i].text) BY <3>1
      <4>2. i \in 1..(m + 1) /\ t \in Range(closed[i].text) BY <1>2, <1>7, <4>1
      <4> QED BY <1>6, <1>7, <4>2 DEF SinkTokens
    <3>2. CASE s.openItem.type = "message" /\ t \in Range(s.openText)
      <4>1. m + 1 \in 1..(m + 1) /\ t \in Range(closed[m + 1].text)
        BY <1>2, <1>5, <1>7, <3>2
      <4> QED BY <1>6, <1>7, <4>1 DEF SinkTokens
    <3> QED BY <3>1, <3>2 DEF SinkTokens
  <2> QED BY <2>2, <2>3, <2>4
<1>14. event \in Event /\ event.object = None
  BY <1>2, <1>3, <1>4 DEF ItemEvent, Event, EventKinds
<1>15. ASSUME NEW acc, Match(s, acc) PROVE Match(next, ReplayEvent(acc, event))
  <2> DEFINE after == ReplayEvent(acc, event)
             placed == [at |-> m, item |-> item]
  <2>1. /\ acc.items = [i \in 1..m |-> [at |-> i - 1, item |-> s.completed[i]]]
        /\ acc.open = [at |-> m, item |-> s.openItem]
    BY <1>15 DEF Match
  <2>2. OpenAt(acc, m)
    <3>1. acc.open # None BY <1>2, <2>1, NothingIsAbsent
    <3> QED BY <2>1, <3>1 DEF OpenAt
  <2>3. after = [items |-> Append(acc.items, placed), open |-> None, text |-> <<>>]
    BY <1>3, <2>2 DEF ReplayEvent, ReplayItemDone, ItemEvent
  <2>4. Append(acc.items, placed)
          = [i \in 1..(m + 1) |-> [at |-> i - 1, item |-> closed[i]]]
    <3> DEFINE old == acc.items
               new == [i \in 1..(m + 1) |-> [at |-> i - 1, item |-> closed[i]]]
               X == [at : Nat, item : Item]
    <3>1. old \in [1..m -> X] BY <1>2, <2>1
    <3>2. old \in Seq(X) /\ Len(old) = m
      <4> HIDE DEF old, X
      <4> QED BY <1>2, <3>1, FunctionIsList
    <3>3. placed \in X BY <1>2, <1>4
    <3>4. \A i \in 1..m : old[i] = [at |-> i - 1, item |-> s.completed[i]] BY <2>1
    <3>5. ASSUME NEW i \in 1..m PROVE i \in 1..(m + 1) /\ new[i] = old[i]
      <4>1. i \in 1..(m + 1) BY <1>2
      <4>2. new[i] = [at |-> i - 1, item |-> closed[i]] BY <4>1
      <4>3. closed[i] = s.completed[i] BY <1>7
      <4> QED BY <3>4, <4>1, <4>2, <4>3
    <3>6. new[m + 1] = placed BY <1>2, <1>7
    <3>7. new = [i \in 1..(m + 1) |-> new[i]] OBVIOUS
    <3> HIDE DEF old, new, X, placed, m
    <3>8. /\ \A i \in 1..m : Append(old, placed)[i] = old[i]
          /\ Append(old, placed)[m + 1] = placed
          /\ Append(old, placed) = [i \in 1..(m + 1) |-> Append(old, placed)[i]]
      BY <1>2, <3>2, <3>3, AppendedList
    <3>9. \A i \in 1..(m + 1) : Append(old, placed)[i] = new[i]
      BY <1>10, <3>5, <3>6, <3>8
    <3>10. Append(old, placed) = new BY <3>7, <3>8, <3>9
    <3> QED BY <3>10 DEF old, new
  <2> HIDE DEF after, m, placed
  <2>5. Match(next, after) BY <1>6, <1>7, <2>3, <2>4 DEF Match
  <2> QED BY <2>5 DEF after
<1> HIDE DEF event
<1>16. CallKept(s, next, n, event) BY <1>6, <1>12, <1>13, <1>14, <1>15 DEF CallKept
<1> QED BY <1>16 DEF next, event

----------------------------------------------------------------------------
(* The invariant.  A stream may have evicted its beginning, so the         *)
(* invariant speaks of a list h of everything ever published: what is left *)
(* of it is in the ring, and a[k], l[k] and o[k] are what the replay, the  *)
(* service and the runtime make of its first k events.                     *)

Entry == [seq : Nat, body : Event]
StreamLog ==
    [live : BOOLEAN, ring : Seq(Entry), nextSeq : Nat, evictedBefore : Nat,
     closedFor : Int, swept : BOOLEAN]

\* The ring holds the end of h.
Holds(log, h) ==
    /\ log \in StreamLog /\ log.live /\ ~log.swept
    /\ log.nextSeq = Len(h) /\ log.evictedBefore + Len(log.ring) = Len(h)
    /\ \A i \in 1..Len(log.ring) :
          /\ log.ring[i].seq = log.evictedBefore + i - 1
          /\ log.ring[i].body = h[log.evictedBefore + i]

Published(h) ==
    /\ h \in Seq(Event) /\ Len(h) \in Nat \ {0}
    /\ DOMAIN logs = Responses /\ Holds(logs[Id], h)

\* a, l and o are the runs of the three folds over h.
Runs(h, a, l, o) ==
    /\ a[0] = NoReplay /\ l[0] = None /\ o[0] = <<>>
    /\ \A k \in 1..Len(h) : /\ a[k] = ReplayEvent(a[k - 1], h[k])
                            /\ l[k] = LatestObject(l[k - 1], h[k])
                            /\ o[k] = AddOutput(o[k - 1], h[k])

\* One of the engine and the cleaner settles the response, and which one is
\* known from the status of the record.
StatusSound ==
    /\ status \in Ended \cup {"queued", "in_progress"}
    /\ engine.pc \in {"idle", "announce", "run", "error", "archive", "terminal", "done"}
    /\ engine = [pc |-> engine.pc, items |-> engine.items]
    /\ status = "queued" => engine.pc = "idle" /\ cleaner.pc = "idle"
    /\ status = "in_progress" =>
          engine.pc \in {"announce", "run", "error"} /\ cleaner.pc = "idle"
    /\ (status \in Ended /\ cleaner.pc = "idle") =>
          engine.pc \in {"archive", "terminal", "done"}
    /\ cleaner.pc # "idle" =>
          engine.pc \notin {"archive", "terminal"} /\ status \in {"cancelled", "failed"}
    /\ engine.pc \in {"archive", "terminal"} =>
          status \in {"completed", "incomplete", "failed"}
    /\ sink.stopped => status \in Ended
    /\ counts = [calls |-> counts.calls, asides |-> counts.asides] /\ counts.calls \in Nat

Announced == Lifecycle("in_progress", WithoutOutput("in_progress"))

\* The append in flight, and whose it is.
CallSound ==
    call # None =>
        /\ call \in Pending /\ ~sink.stopped
        /\ \/ engine.pc = "announce" /\ call.event = Announced
           \/ /\ engine.pc = "run" /\ call.event.object = None /\ ~IsTerminal(call.event)
              /\ call.event.kind = "delta" => call.event.text \in Range(sink.openText)

Ahead(acc) == IF call = None THEN acc ELSE ReplayEvent(acc, call.event)

\* Until the run is settled its sink has everything that was seen of it, and
\* while no append was refused or lost, what the stream tells with the append
\* in flight is what the sink holds.
SinkAgrees(acc) ==
    /\ engine.pc \in {"idle", "announce", "run", "error"} =>
          SinkSound(sink, counts.calls) /\ shown \subseteq Tokens(SinkOutput(sink))
    /\ (engine.pc \in {"idle", "announce", "run"} /\ ~sink.stopped) => Match(sink, Ahead(acc))

\* Whatever becomes of the run, its stream tells what some sink held, and
\* everything that was seen.
Rebuilt(acc) ==
    \E s : \E n \in Nat :
        SinkSound(s, n) /\ Match(s, acc) /\ shown \subseteq Tokens(SinkOutput(s))

Keeps(items) == items \in Seq(Item) /\ Distinct(items) /\ shown \subseteq Tokens(items)

ArchivesSound ==
    /\ engine.items \in Seq(Item)
    /\ engine.pc \in {"archive", "terminal"} => Keeps(engine.items)
    /\ archive # None => status \in Ended /\ Keeps(archive)
    /\ cleaner.pc = "archive" => Rebuilt(cleaner.acc)

CleanerSound(h, a) ==
    /\ cleaner = [pc |-> cleaner.pc, by |-> cleaner.by, cursor |-> cleaner.cursor,
                  acc |-> cleaner.acc]
    /\ cleaner.cursor \in -1..(Len(h) - 1)
    /\ cleaner.acc = a[cleaner.cursor + 1]

\* The events before position k end the response.
Over(h, k) == \E i \in 1..k : IsTerminal(h[i])

\* The first reader holds what the events up to some position tell, and while it
\* reads that position is its cursor; the second reads when the first is done.
ReaderSound(h, l) ==
    /\ reader = [pc |-> reader.pc, record |-> reader.record, cursor |-> reader.cursor,
                 latest |-> reader.latest, ended |-> reader.ended, lost |-> reader.lost]
    /\ reader.cursor \in -1..(Len(h) - 1)
    /\ \E k \in 0..Len(h) :
          /\ reader.latest = l[k] /\ (reader.ended <=> Over(h, k))
          /\ reader.pc # "done" => k = reader.cursor + 1 /\ ~reader.ended
          /\ (reader.pc = "done" /\ ~reader.lost) => k # 0
    /\ reader.record \in Ended => reader.record = status
    /\ reader.lost \in BOOLEAN /\ reader.ended \in BOOLEAN

HeirSound(h, o) ==
    /\ heir = [pc |-> heir.pc, cursor |-> heir.cursor, outputs |-> heir.outputs,
               lost |-> heir.lost]
    /\ heir.cursor \in -1..(Len(h) - 1)
    /\ \E k \in 0..Len(h) :
          /\ heir.outputs = o[k]
          /\ heir.pc # "done" => k = heir.cursor + 1
          /\ (heir.pc = "done" /\ ~heir.lost /\ reader.ended) => Over(h, k)
    /\ heir.lost \in BOOLEAN
    /\ heir.pc = "done" => reader.pc = "done"

ReadersSound(h, l, o) == ReaderSound(h, l) /\ HeirSound(h, o)

OutputOf(object) == IF object = None THEN <<>> ELSE object.output

\* What the last object met says of the response.
ObjectTrue(object) ==
    object # None =>
        /\ object \in ResponseObject
        /\ object.status \in Ended =>
              /\ object.status = status
              /\ status \in {"completed", "incomplete"} => object.output = engine.items

\* What a stream delivers that has told its end.
Delivered == IF status \in {"completed", "incomplete"} THEN engine.items ELSE <<>>

EndingsTold(h, o) ==
    \A k \in 0..Len(h) : /\ Over(h, k) => status \in Ended /\ o[k] = Delivered
                         /\ ~Over(h, k) => o[k] = <<>>

ObjectsSound(h, l, o) ==
    /\ \A k \in 0..Len(h) : /\ k # 0 => l[k] # None
                            /\ ObjectTrue(l[k])
                            /\ o[k] = OutputOf(l[k])
    /\ (engine.pc # "done" \/ cleaner.pc # "idle") => o[Len(h)] = <<>>
    /\ EndingsTold(h, o)

OutputSound(h, a, l, o) ==
    /\ Published(h) /\ Runs(h, a, l, o)
    /\ StatusSound /\ CallSound
    /\ SinkAgrees(a[Len(h)]) /\ Rebuilt(a[Len(h)]) /\ ArchivesSound
    /\ CleanerSound(h, a) /\ ReadersSound(h, l, o) /\ ObjectsSound(h, l, o)

OutputInvariant == \E h, a, l, o : OutputSound(h, a, l, o)

----------------------------------------------------------------------------
(* The stream.                                                             *)

LEMMA PushedHolds ==
    ASSUME NEW log, NEW h \in Seq(Event), NEW event \in Event, Holds(log, h)
    PROVE  Holds(Pushed(log, event), Append(h, event))
<1> DEFINE n == Len(h)
           m == Len(log.ring)
           e == log.evictedBefore
           entry == [seq |-> log.nextSeq, body |-> event]
           ring == Append(log.ring, entry)
           more == Append(h, event)
           new == Pushed(log, event)
<1>1. /\ log.ring \in Seq(Entry) /\ m \in Nat /\ e \in Nat /\ n \in Nat
      /\ log.nextSeq = n /\ e + m = n
  BY DEF Holds, StreamLog
<1>2. entry \in Entry /\ entry.seq = n /\ entry.body = event BY <1>1 DEF Entry
<1>3. /\ more \in Seq(Event) /\ Len(more) = n + 1 /\ more[n + 1] = event
      /\ \A i \in 1..n : more[i] = h[i]
  BY <1>1, AppendedList
<1>4. /\ ring \in Seq(Entry) /\ Len(ring) = m + 1 /\ ring[m + 1] = entry
      /\ \A i \in 1..m : ring[i] = log.ring[i]
  <2> HIDE DEF entry, m
  <2> QED BY <1>1, <1>2, AppendedList DEF m
<1> HIDE DEF n, m, e, entry, ring, more
<1>5. \A i \in 1..(m + 1) : ring[i].seq = e + i - 1 /\ ring[i].body = more[e + i]
  <2> SUFFICES ASSUME NEW i \in 1..(m + 1)
               PROVE  ring[i].seq = e + i - 1 /\ ring[i].body = more[e + i]
    OBVIOUS
  <2>1. CASE i = m + 1
    <3>1. e + i = n + 1 /\ e + i - 1 = n BY <1>1, <2>1
    <3> QED BY <1>2, <1>3, <1>4, <2>1, <3>1
  <2>2. CASE i # m + 1
    <3>1. i \in 1..m /\ e + i \in 1..n BY <1>1, <2>2
    <3>2. log.ring[i].seq = e + i - 1 /\ log.ring[i].body = h[e + i]
      BY <3>1 DEF Holds, e, m
    <3> QED BY <1>3, <1>4, <3>1, <3>2
  <2> QED BY <2>1, <2>2
<1>6. /\ log = [live |-> log.live, ring |-> log.ring, nextSeq |-> log.nextSeq,
                evictedBefore |-> log.evictedBefore, closedFor |-> log.closedFor,
                swept |-> log.swept]
      /\ log.closedFor \in Int /\ log.swept \in BOOLEAN /\ ~log.swept
  BY DEF Holds, StreamLog
<1>7. CASE m + 1 <= Capacity
  <2>1. new = [live |-> TRUE, ring |-> ring, nextSeq |-> n + 1, evictedBefore |-> e,
               closedFor |-> log.closedFor, swept |-> log.swept]
    <3>1. ~(Len(ring) > Capacity) BY <1>1, <1>4, <1>7, EventLogConstants
    <3>2. new = [log EXCEPT !.live = TRUE, !.nextSeq = n + 1, !.ring = ring,
                            !.evictedBefore = e]
      BY <1>1, <3>1 DEF Pushed, ring, entry, e
    <3> HIDE DEF new
    <3> QED BY <1>6, <3>2
  <2> HIDE DEF new
  <2>2. n + 1 \in Nat /\ e + (m + 1) = n + 1 BY <1>1
  <2>3. new \in StreamLog BY <1>1, <1>4, <1>6, <2>1, <2>2 DEF StreamLog
  <2>4. Holds(new, more) BY <1>3, <1>4, <1>5, <1>6, <2>1, <2>2, <2>3 DEF Holds
  <2> QED BY <2>4 DEF new, more
<1>8. CASE ~(m + 1 <= Capacity)
  <2> DEFINE rest == Tail(ring)
  <2>1. /\ rest \in Seq(Entry) /\ Len(rest) = m
        /\ \A i \in 1..m : rest[i] = ring[i + 1]
    BY <1>1, <1>4
  <2>2. new = [live |-> TRUE, ring |-> rest, nextSeq |-> n + 1, evictedBefore |-> e + 1,
               closedFor |-> log.closedFor, swept |-> log.swept]
    <3>1. Len(ring) > Capacity BY <1>1, <1>4, <1>8, EventLogConstants
    <3>2. new = [log EXCEPT !.live = TRUE, !.nextSeq = n + 1, !.ring = rest,
                            !.evictedBefore = e + 1]
      BY <1>1, <3>1 DEF Pushed, ring, entry, e
    <3> HIDE DEF new, rest
    <3> QED BY <1>6, <3>2
  <2> HIDE DEF new, rest
  <2>3. n + 1 \in Nat /\ e + 1 \in Nat /\ (e + 1) + m = n + 1 BY <1>1
  <2>4. new \in StreamLog BY <1>1, <1>6, <2>1, <2>2, <2>3 DEF StreamLog
  <2>5. \A i \in 1..m : rest[i].seq = (e + 1) + i - 1 /\ rest[i].body = more[(e + 1) + i]
    <3> SUFFICES ASSUME NEW i \in 1..m
                 PROVE  rest[i].seq = (e + 1) + i - 1 /\ rest[i].body = more[(e + 1) + i]
      OBVIOUS
    <3>1. /\ i + 1 \in 1..(m + 1) /\ e + (i + 1) = (e + 1) + i
          /\ e + (i + 1) - 1 = (e + 1) + i - 1
      BY <1>1
    <3>2. rest[i] = ring[i + 1] BY <2>1
    <3>3. ring[i + 1].seq = e + (i + 1) - 1 /\ ring[i + 1].body = more[e + (i + 1)]
      BY <1>5, <3>1
    <3> QED BY <3>1, <3>2, <3>3
  <2>6. Holds(new, more) BY <1>3, <1>6, <2>1, <2>2, <2>3, <2>4, <2>5 DEF Holds
  <2> QED BY <2>6 DEF new, more
<1> QED BY <1>7, <1>8

\* What a page holds is what was published after the cursor.
LEMMA PageIsPublished ==
    ASSUME NEW h, Published(h), NEW cursor \in -1..(Len(h) - 1),
           ReadOutcome(Id, cursor) = "batch",
           NEW batch, batch = ReadBatch(Id, cursor, Page)
    PROVE  /\ Len(batch) \in Nat \ {0} /\ cursor + Len(batch) <= Len(h) - 1
           /\ LastSeq(batch) = cursor + Len(batch)
           /\ DOMAIN BodiesOf(batch) = 1..Len(batch)
           /\ \A i \in 1..Len(batch) : BodiesOf(batch)[i] = h[cursor + 1 + i]
<1> DEFINE log == logs[Id]
           n == Len(h)
           m == Len(log.ring)
           e == log.evictedBefore
           off == cursor + 1 - e
           last == IF off + Page < m THEN off + Page ELSE m
<1>1. /\ log.ring \in Seq(Entry) /\ m \in Nat /\ e \in Nat /\ n \in Nat
      /\ log.nextSeq = n /\ e + m = n /\ log.live /\ ~log.swept
  <2>1. Holds(log, h) /\ n \in Nat BY DEF Published
  <2>2. log \in StreamLog /\ log.nextSeq = n /\ e + m = n /\ log.live /\ ~log.swept
    BY <2>1 DEF Holds
  <2> HIDE DEF log
  <2> QED BY <2>1, <2>2 DEF StreamLog
<1>2. ~(cursor + 1 < e) /\ cursor + 1 < n
  <2> HIDE DEF log, n, m, e
  <2>1. ReadOutcome(Id, cursor) = IF cursor + 1 < e THEN "expired"
                                  ELSE IF cursor + 1 < n THEN "batch" ELSE "empty"
    BY <1>1 DEF ReadOutcome, log, e
  <2> QED BY <2>1
<1>3. cursor \in Int /\ Page \in Nat \ {0} BY OutputConstants
<1>4. off \in Nat /\ off < m
  <2> HIDE DEF log, n, m, e
  <2> QED BY <1>1, <1>2, <1>3
<1>5. last \in (off + 1)..m
  <2> HIDE DEF log, n, m, e, off
  <2> QED BY <1>1, <1>3, <1>4
<1>6. batch = SubSeq(log.ring, off + 1, last) BY DEF ReadBatch
<1>7. /\ Len(batch) = last - off /\ Len(batch) \in Nat \ {0}
      /\ \A i \in 1..Len(batch) : batch[i] = log.ring[off + i] /\ off + i \in 1..m
  <2> HIDE DEF log, n, e, off, last
  <2>1. Len(batch) = last - off BY <1>1, <1>4, <1>5, <1>6
  <2>2. \A i \in 1..(last - off) : off + i \in 1..m BY <1>1, <1>4, <1>5
  <2>3. \A i \in 1..(last - off) : batch[i] = log.ring[off + i]
    BY <1>1, <1>4, <1>5, <1>6
  <2>4. last - off \in Nat \ {0} BY <1>1, <1>4, <1>5
  <2> QED BY <2>1, <2>2, <2>3, <2>4
<1>8. \A i \in 1..Len(batch) : batch[i].seq = cursor + i /\ batch[i].body = h[cursor + 1 + i]
  <2> SUFFICES ASSUME NEW i \in 1..Len(batch)
               PROVE  batch[i].seq = cursor + i /\ batch[i].body = h[cursor + 1 + i]
    OBVIOUS
  <2>1. batch[i] = log.ring[off + i] /\ off + i \in 1..m BY <1>7
  <2>2. batch[i].seq = e + (off + i) - 1 /\ batch[i].body = h[e + (off + i)]
    BY <2>1 DEF Published, Holds
  <2>3. i \in Nat BY <1>7
  <2>4. \A x, y \in Int, k \in Nat : /\ x + ((y + 1 - x) + k) - 1 = y + k
                                     /\ x + ((y + 1 - x) + k) = y + 1 + k
    OBVIOUS
  <2> HIDE DEF log, n, m, e
  <2>5. e + (off + i) - 1 = cursor + i /\ e + (off + i) = cursor + 1 + i
    BY <1>1, <1>3, <2>3, <2>4
  <2> HIDE DEF off
  <2> QED BY <2>2, <2>5
<1>9. LastSeq(batch) = cursor + Len(batch)
  <2>1. Len(batch) \in 1..Len(batch) BY <1>7
  <2> QED BY <1>8, <2>1 DEF LastSeq
<1>10. cursor + Len(batch) <= n - 1
  <2> HIDE DEF log, n, m, e, last
  <2> QED BY <1>1, <1>3, <1>5, <1>7
<1>11. /\ DOMAIN BodiesOf(batch) = 1..Len(batch)
       /\ \A i \in 1..Len(batch) : BodiesOf(batch)[i] = h[cursor + 1 + i]
  BY <1>8 DEF BodiesOf
<1> QED BY <1>7, <1>9, <1>10, <1>11

\* One more event, and the runs one step further.
Extends(h, a, l, o, event, H, A, L, O) ==
    /\ Len(H) = Len(h) + 1 /\ Runs(H, A, L, O)
    /\ \A k \in 1..Len(h) : H[k] = h[k]
    /\ H[Len(H)] = event
    /\ \A k \in 0..Len(h) : A[k] = a[k] /\ L[k] = l[k] /\ O[k] = o[k]
    /\ A[Len(H)] = ReplayEvent(a[Len(h)], event)
    /\ L[Len(H)] = LatestObject(l[Len(h)], event)
    /\ O[Len(H)] = AddOutput(o[Len(h)], event)

LEMMA PushExtends ==
    ASSUME NEW h, NEW a, NEW l, NEW o, Published(h), Runs(h, a, l, o),
           NEW event \in Event, LogPush(Id, event)
    PROVE  \E H, A, L, O : Published(H)' /\ Extends(h, a, l, o, event, H, A, L, O)
<1> DEFINE n == Len(h)
           H == Append(h, event)
           A == [k \in 0..(n + 1) |-> IF k # n + 1 THEN a[k] ELSE ReplayEvent(a[n], event)]
           L == [k \in 0..(n + 1) |-> IF k # n + 1 THEN l[k] ELSE LatestObject(l[n], event)]
           O == [k \in 0..(n + 1) |-> IF k # n + 1 THEN o[k] ELSE AddOutput(o[n], event)]
<1>1. h \in Seq(Event) /\ n \in Nat \ {0} BY DEF Published
<1>2. /\ H \in Seq(Event) /\ Len(H) = n + 1 /\ H[n + 1] = event
      /\ \A k \in 1..n : H[k] = h[k]
  BY <1>1, AppendedList
<1>3. Published(H)'
  <2>1. Holds(logs[Id], h) /\ DOMAIN logs = Responses /\ Id \in Responses
    BY OutputConstants DEF Published
  <2>2. logs' = [logs EXCEPT ![Id] = Pushed(logs[Id], event)] BY DEF LogPush
  <2>3. DOMAIN logs' = Responses /\ logs'[Id] = Pushed(logs[Id], event) BY <2>1, <2>2
  <2>4. Holds(Pushed(logs[Id], event), H) BY <1>1, <2>1, PushedHolds
  <2>5. Len(H) \in Nat \ {0} BY <1>1, <1>2
  <2> HIDE DEF H
  <2> QED BY <1>2, <2>3, <2>4, <2>5 DEF Published
<1> HIDE DEF H
<1>4. \A k \in 0..n : k \in 0..(n + 1) /\ k # n + 1 BY <1>1
<1>5. \A k \in 0..n : A[k] = a[k] /\ L[k] = l[k] /\ O[k] = o[k] BY <1>4
<1>6. n + 1 \in 0..(n + 1) BY <1>1
<1>7. /\ A[n + 1] = ReplayEvent(a[n], event) /\ L[n + 1] = LatestObject(l[n], event)
      /\ O[n + 1] = AddOutput(o[n], event)
  BY <1>6
<1> HIDE DEF n, A, L, O
<1>8. Runs(H, A, L, O)
  <2>1. 0 \in 0..n /\ n \in 0..n BY <1>1
  <2>2. A[0] = NoReplay /\ L[0] = None /\ O[0] = <<>> BY <1>5, <2>1 DEF Runs
  <2>3. ASSUME NEW k \in 1..(n + 1)
        PROVE  /\ A[k] = ReplayEvent(A[k - 1], H[k])
               /\ L[k] = LatestObject(L[k - 1], H[k])
               /\ O[k] = AddOutput(O[k - 1], H[k])
    <3>1. CASE k = n + 1
      <4>1. k - 1 = n BY <1>1, <3>1
      <4> QED BY <1>2, <1>5, <1>7, <2>1, <3>1, <4>1
    <3>2. CASE k # n + 1
      <4>1. k \in 1..n /\ k \in 0..n /\ k - 1 \in 0..n BY <1>1, <3>2
      <4>2. /\ a[k] = ReplayEvent(a[k - 1], h[k]) /\ l[k] = LatestObject(l[k - 1], h[k])
            /\ o[k] = AddOutput(o[k - 1], h[k])
        BY <4>1 DEF Runs, n
      <4>3. A[k] = a[k] /\ A[k - 1] = a[k - 1] /\ L[k] = l[k] /\ L[k - 1] = l[k - 1]
            /\ O[k] = o[k] /\ O[k - 1] = o[k - 1] /\ H[k] = h[k]
        BY <1>2, <1>5, <4>1
      <4> QED BY <4>2, <4>3
    <3> QED BY <3>1, <3>2
  <2> QED BY <1>2, <2>2, <2>3 DEF Runs
<1>9. Extends(h, a, l, o, event, H, A, L, O) BY <1>2, <1>5, <1>7, <1>8 DEF Extends, n
<1> QED BY <1>3, <1>9

LEMMA ExtendedPlaces ==
    ASSUME NEW h, NEW a, NEW l, NEW o, NEW event, NEW H, NEW A, NEW L, NEW O,
           Len(h) \in Nat \ {0}, Extends(h, a, l, o, event, H, A, L, O)
    PROVE  /\ CleanerSound(h, a) => CleanerSound(H, A)
           /\ ReadersSound(h, l, o) => ReadersSound(H, L, O)
<1>1. \A c \in -1..(Len(h) - 1) : c \in -1..(Len(H) - 1) /\ c + 1 \in 0..Len(h)
  BY DEF Extends
<1>2. \A k \in 0..Len(h) : A[k] = a[k] /\ L[k] = l[k] /\ O[k] = o[k] BY DEF Extends
<1>3. CleanerSound(h, a) => CleanerSound(H, A) BY <1>1, <1>2 DEF CleanerSound
<1>4. \A k \in 0..Len(h) : k \in 0..Len(H) /\ (Over(h, k) <=> Over(H, k))
  BY DEF Extends, Over
<1> HIDE DEF Over
<1>5. ReaderSound(h, l) => ReaderSound(H, L) BY <1>1, <1>2, <1>4 DEF ReaderSound
<1>6. HeirSound(h, o) => HeirSound(H, O) BY <1>1, <1>2, <1>4 DEF HeirSound
<1> QED BY <1>3, <1>5, <1>6 DEF ReadersSound

\* An event that tells nothing leaves what was delivered, and one that tells the
\* end tells all of it.
LEMMA ExtendedEndings ==
    ASSUME NEW h, NEW a, NEW l, NEW o, NEW event, NEW H, NEW A, NEW L, NEW O,
           Len(h) \in Nat \ {0}, Extends(h, a, l, o, event, H, A, L, O), EndingsTold(h, o),
           \/ event.object = None /\ ~IsTerminal(event)
           \/ /\ event.object # None /\ o[Len(h)] = <<>>
              /\ event.object.output \in Seq(Item)
              /\ \/ ~IsTerminal(event) /\ event.object.output = <<>>
                 \/ /\ IsTerminal(event) /\ status \in Ended
                    /\ event.object.output = Delivered
    PROVE  EndingsTold(H, O)
<1> DEFINE n == Len(h)
<1>1. n \in Nat /\ n \in 0..n /\ Len(H) = n + 1 BY DEF Extends
<1>2. /\ H[n + 1] = event /\ O[n + 1] = AddOutput(o[n], event)
      /\ \A k \in 0..n : O[k] = o[k] /\ (Over(H, k) <=> Over(h, k))
  BY <1>1 DEF Extends, Over
<1>3. Over(H, n + 1) <=> Over(h, n) \/ IsTerminal(event)
  <2>1. \A i \in 1..n : H[i] = h[i] /\ i \in 1..(n + 1) BY <1>1 DEF Extends
  <2>2. n + 1 \in 1..(n + 1) /\ \A i \in 1..(n + 1) : i \in 1..n \/ i = n + 1 BY <1>1
  <2> HIDE DEF n
  <2> QED BY <1>2, <2>1, <2>2 DEF Over
<1>4. \A k \in 0..(n + 1) : k \in 0..n \/ k = n + 1 BY <1>1
<1>5. \A k \in 0..n : /\ Over(h, k) => status \in Ended /\ o[k] = Delivered
                      /\ ~Over(h, k) => o[k] = <<>>
  BY DEF EndingsTold
<1>6. event.object # None => O[n + 1] = event.object.output
  <2> SUFFICES ASSUME event.object # None PROVE O[n + 1] = event.object.output OBVIOUS
  <2>1. o[n] = <<>> /\ event.object.output \in Seq(Item) OBVIOUS
  <2>2. <<>> \o event.object.output = event.object.output BY <2>1
  <2> QED BY <1>2, <2>1, <2>2 DEF AddOutput
<1>7. event.object = None => O[n + 1] = o[n] BY <1>2 DEF AddOutput
<1> HIDE DEF n, Over, IsTerminal, Delivered
<1>8. /\ Over(H, n + 1) => status \in Ended /\ O[n + 1] = Delivered
      /\ ~Over(H, n + 1) => O[n + 1] = <<>>
  BY <1>1, <1>3, <1>5, <1>6, <1>7 DEF n
<1> QED BY <1>1, <1>2, <1>4, <1>5, <1>8 DEF EndingsTold

\* An event tells nothing of the response, or it is the first to tell its output.
LEMMA ExtendedObjects ==
    ASSUME NEW h, NEW a, NEW l, NEW o, NEW event, NEW H, NEW A, NEW L, NEW O,
           Len(h) \in Nat \ {0}, Extends(h, a, l, o, event, H, A, L, O),
           ObjectsSound(h, l, o),
           \/ event.object = None
           \/ event.object # None /\ o[Len(h)] = <<>> /\ ObjectTrue(event.object)
    PROVE  /\ \A k \in 0..Len(H) : /\ k # 0 => L[k] # None
                                   /\ ObjectTrue(L[k])
                                   /\ O[k] = OutputOf(L[k])
           /\ OutputOf(event.object) = <<>> /\ o[Len(h)] = <<>> => O[Len(H)] = <<>>
<1> DEFINE n == Len(h)
<1>1. n \in 0..n /\ n # 0 /\ n \in Nat OBVIOUS
<1>2. \A k \in 0..n : /\ k # 0 => l[k] # None
                      /\ ObjectTrue(l[k])
                      /\ o[k] = OutputOf(l[k])
  BY DEF ObjectsSound
<1>3. /\ Len(H) = n + 1 /\ L[n + 1] = LatestObject(l[n], event)
      /\ O[n + 1] = AddOutput(o[n], event)
      /\ \A k \in 0..n : L[k] = l[k] /\ O[k] = o[k]
  BY DEF Extends
<1>4. /\ L[n + 1] # None /\ ObjectTrue(L[n + 1]) /\ O[n + 1] = OutputOf(L[n + 1])
      /\ OutputOf(event.object) = <<>> /\ o[n] = <<>> => O[n + 1] = <<>>
  <2> HIDE DEF n
  <2>1. CASE event.object = None
    <3>1. L[n + 1] = l[n] /\ O[n + 1] = o[n] BY <1>3, <2>1 DEF LatestObject, AddOutput
    <3> QED BY <1>1, <1>2, <3>1
  <2>2. CASE event.object # None /\ o[n] = <<>> /\ ObjectTrue(event.object)
    <3>1. event.object \in ResponseObject BY <2>2 DEF ObjectTrue
    <3>2. event.object.output \in Seq(Item) BY <3>1 DEF ResponseObject
    <3>3. <<>> \o event.object.output = event.object.output BY <3>2
    <3>4. L[n + 1] = event.object /\ O[n + 1] = event.object.output
      BY <1>3, <2>2, <3>3 DEF LatestObject, AddOutput
    <3> QED BY <2>2, <3>4 DEF OutputOf
  <2> QED BY <2>1, <2>2 DEF n
<1>5. \A k \in 0..(n + 1) : k \in 0..n \/ k = n + 1 BY <1>1
<1> HIDE DEF n
<1>6. \A k \in 0..(n + 1) : /\ k # 0 => L[k] # None
                            /\ ObjectTrue(L[k])
                            /\ O[k] = OutputOf(L[k])
  BY <1>2, <1>3, <1>4, <1>5
<1> QED BY <1>3, <1>4, <1>6 DEF n

----------------------------------------------------------------------------
(* What steps share.                                                       *)

LEMMA StatusNames ==
    /\ "queued" \notin Ended /\ "in_progress" \notin Ended
    /\ {"completed", "incomplete", "failed", "cancelled"} \subseteq Ended
BY DEF Ended

\* The events the engine and the cleaner append themselves.
LEMMA LifecycleEvent ==
    ASSUME NEW kind \in {"created", "in_progress", "completed", "incomplete", "failed"},
           NEW state \in Ended \cup {"queued", "in_progress"}, NEW output \in Seq(Item)
    PROVE  /\ Lifecycle(kind, Object(state, output)) \in Event
           /\ Lifecycle(kind, Object(state, output)).object = Object(state, output)
           /\ Object(state, output) # None /\ Object(state, output) \in ResponseObject
           /\ Object(state, output).status = state /\ Object(state, output).output = output
           /\ Lifecycle(kind, Object(state, output)).kind = kind
           /\ \A acc : ReplayEvent(acc, Lifecycle(kind, Object(state, output))) = acc
<1> DEFINE object == Object(state, output)
<1>1. object \in ResponseObject /\ object # None BY NothingIsAbsent
<1>2. object.status = state /\ object.output = output BY DEF Object
<1> HIDE DEF object
<1>3. /\ Lifecycle(kind, object) \in Event /\ Lifecycle(kind, object).object = object
      /\ Lifecycle(kind, object).kind = kind
  BY <1>1 DEF Lifecycle, Event, EventKinds
<1>4. \A acc : ReplayEvent(acc, Lifecycle(kind, object)) = acc
  BY DEF ReplayEvent, Lifecycle
<1> QED BY <1>1, <1>2, <1>3, <1>4 DEF object

LEMMA AnnouncedEvent ==
    /\ Announced \in Event /\ Announced.kind = "in_progress"
    /\ Announced.object # None /\ OutputOf(Announced.object) = <<>>
    /\ Announced.object.output = <<>> /\ Announced.object.output \in Seq(Item)
    /\ ObjectTrue(Announced.object)
    /\ \A acc : ReplayEvent(acc, Announced) = acc
<1>1. <<>> \in Seq(Item) OBVIOUS
<1>2. Announced = Lifecycle("in_progress", Object("in_progress", <<>>))
  BY DEF Announced, WithoutOutput
<1>3. Announced.kind = "in_progress" BY <1>2 DEF Lifecycle
<1> DEFINE kind == "in_progress"
           state == "in_progress"
           output == <<>>
           object == Object(state, output)
<1>4. /\ Announced \in Event /\ Announced.object = object
      /\ object # None /\ object \in ResponseObject
      /\ object.status = state /\ object.output = output
      /\ \A acc : ReplayEvent(acc, Announced) = acc
  <2>1. /\ kind \in {"created", "in_progress", "completed", "incomplete", "failed"}
        /\ state \in Ended \cup {"queued", "in_progress"} /\ output \in Seq(Item)
        /\ Announced = Lifecycle(kind, Object(state, output))
    BY <1>1, <1>2
  <2> HIDE DEF kind, state, output
  <2> QED BY <2>1, LifecycleEvent
<1>5. OutputOf(Announced.object) = <<>> /\ ObjectTrue(Announced.object)
  BY <1>4, StatusNames DEF OutputOf, ObjectTrue
<1>6. Announced.object.output = <<>> /\ Announced.object.output \in Seq(Item)
  BY <1>1, <1>4
<1> QED BY <1>3, <1>4, <1>5, <1>6

\* A sink that was dropped, or that has only been stopped.
LEMMA NewSinkSound ==
    ASSUME NEW n \in Nat
    PROVE  SinkSound(NewSink, n) /\ Tokens(SinkOutput(NewSink)) = {} /\ ~NewSink.stopped
<1>1. /\ NewSink.completed = <<>> /\ Len(NewSink.completed) = 0 /\ NewSink.openItem = None
      /\ NewSink.openText = <<>> /\ NewSink.outputIndex = 0 /\ ~NewSink.stopped
  BY DEF NewSink
<1>2. NewSink \in Sink BY DEF NewSink, Sink
<1>3. Range(<<>>) = {} BY DEF Range
<1> HIDE DEF NewSink
<1>4. SinkSound(NewSink, n) BY <1>1, <1>2, <1>3 DEF SinkSound, Distinct
<1>5. SinkTokens(NewSink) = {} BY <1>1 DEF SinkTokens
<1> QED BY <1>1, <1>4, <1>5, SinkOutputFields

LEMMA StoppedSink ==
    ASSUME NEW s, NEW n \in Nat, SinkSound(s, n), NEW next, next = [s EXCEPT !.stopped = TRUE]
    PROVE  SinkSound(next, n) /\ Tokens(SinkOutput(next)) = Tokens(SinkOutput(s)) /\ next.stopped
<1>1. SinkFields(s, n) BY SinkHasFields
<1>2. /\ next.completed = s.completed /\ next.openItem = s.openItem
      /\ next.openText = s.openText /\ next.outputIndex = s.outputIndex /\ next.stopped
  BY <1>1 DEF SinkFields
<1>3. next \in Sink BY DEF SinkSound, Sink
<1>4. SinkSound(next, n) BY <1>2, <1>3 DEF SinkSound
<1>5. SinkTokens(next) = SinkTokens(s) BY <1>2 DEF SinkTokens
<1> QED BY <1>2, <1>4, <1>5, SinkOutputFields

\* What a sound sink would archive can be kept, and so can what is rebuilt.
LEMMA SinkKeeps ==
    ASSUME NEW s, NEW n \in Nat, SinkSound(s, n), shown \subseteq Tokens(SinkOutput(s))
    PROVE  Keeps(SinkOutput(s))
BY SinkOutputFields DEF Keeps

LEMMA RebuiltKeeps ==
    ASSUME NEW acc, Rebuilt(acc)
    PROVE  Keeps(ReplayedItems(acc))
<1>1. PICK s : \E n \in Nat :
         SinkSound(s, n) /\ Match(s, acc) /\ shown \subseteq Tokens(SinkOutput(s))
  BY DEF Rebuilt
<1>2. PICK n \in Nat :
         SinkSound(s, n) /\ Match(s, acc) /\ shown \subseteq Tokens(SinkOutput(s))
  BY <1>1
<1>3. ReplayedItems(acc) = SinkOutput(s) BY <1>2, FunnelsMatch
<1> QED BY <1>2, <1>3, SinkKeeps

\* A step that moves only the engine.
LEMMA RestFields ==
    ASSUME engine = [pc |-> engine.pc, items |-> engine.items], NEW pc, Rest(pc)
    PROVE  engine' = [pc |-> pc, items |-> engine.items]
BY DEF Rest

\* Nothing that readers hold of a stream depends on what else moves.
LEMMA ReadersWait ==
    ASSUME NEW h, NEW l, NEW o, ReadersSound(h, l, o), UNCHANGED <<reader, heir>>,
           status \in Ended => status' = status
    PROVE  ReadersSound(h, l, o)'
<1>1. ReaderSound(h, l)' BY DEF ReadersSound, ReaderSound
<1>2. HeirSound(h, o)' BY DEF ReadersSound, HeirSound
<1> QED BY <1>1, <1>2 DEF ReadersSound

LEMMA CleanerWaits ==
    ASSUME NEW h, NEW a, CleanerSound(h, a), UNCHANGED cleaner
    PROVE  CleanerSound(h, a)'
BY DEF CleanerSound

LEMMA StreamWaits ==
    ASSUME NEW h, NEW a, NEW l, NEW o, Published(h), Runs(h, a, l, o), UNCHANGED logs
    PROVE  Published(h)' /\ Runs(h, a, l, o)'
BY DEF Published, Runs, Holds

LEMMA RebuiltWaits ==
    ASSUME NEW acc, Rebuilt(acc), UNCHANGED shown
    PROVE  Rebuilt(acc)'
BY DEF Rebuilt

\* What was told of an ended response stays true of it.
LEMMA ObjectsWait ==
    ASSUME NEW h, NEW l, NEW o, ObjectsSound(h, l, o),
           status \in Ended => status' = status /\ engine'.items = engine.items,
           (engine'.pc # "done" \/ cleaner'.pc # "idle") => o[Len(h)] = <<>>
    PROVE  ObjectsSound(h, l, o)'
<1>1. \A object : ObjectTrue(object) => ObjectTrue(object)' BY DEF ObjectTrue
<1>2. EndingsTold(h, o)' BY DEF ObjectsSound, EndingsTold, Delivered
<1> QED BY <1>1, <1>2 DEF ObjectsSound

----------------------------------------------------------------------------
(* The runner and its sink.                                                *)

LEMMA BeginStep ==
    ASSUME NEW h, NEW a, NEW l, NEW o, OutputSound(h, a, l, o), Begin
    PROVE  OutputInvariant'
<1> DEFINE acc == a[Len(h)]
<1>1. /\ status = "queued" /\ engine.pc = "idle" /\ cleaner.pc = "idle" /\ status' = "in_progress"
      /\ call' = [event |-> Announced, fenced |-> FALSE]
      /\ engine' = [pc |-> "announce", items |-> engine.items]
      /\ ~sink.stopped
      /\ UNCHANGED <<logs, readOnly, sink, cleaner, archive, reader, heir, counts, shown>>
  BY StatusNames DEF Begin, OutputSound, StatusSound, Announced, Rest
<1>2. call = None BY <1>1 DEF OutputSound, CallSound
<1>3. call' # None /\ call' \in Pending
  BY <1>1, AnnouncedEvent, NothingIsAbsent DEF Pending
<1>4. Published(h)' /\ Runs(h, a, l, o)' BY <1>1, StreamWaits DEF OutputSound
<1>5. StatusSound' BY <1>1, StatusNames DEF OutputSound, StatusSound
<1>6. CallSound' BY <1>1, <1>3 DEF CallSound
<1>7. SinkAgrees(acc)'
  <2>1. SinkSound(sink, counts.calls) /\ shown \subseteq Tokens(SinkOutput(sink))
        /\ Match(sink, Ahead(acc))
    BY <1>1 DEF OutputSound, SinkAgrees
  <2>2. Ahead(acc) = acc BY <1>2 DEF Ahead
  <2>3. Ahead(acc)' = acc BY <1>1, <1>3, AnnouncedEvent DEF Ahead
  <2> QED BY <1>1, <2>1, <2>2, <2>3 DEF SinkAgrees
<1>8. Rebuilt(acc)' BY <1>1, RebuiltWaits DEF OutputSound
<1>9. ArchivesSound'
  <2>1. archive = None /\ engine.items \in Seq(Item)
    BY <1>1, StatusNames DEF OutputSound, ArchivesSound
  <2> QED BY <1>1, <2>1 DEF ArchivesSound
<1>10. CleanerSound(h, a)' BY <1>1, CleanerWaits DEF OutputSound
<1>11. ReadersSound(h, l, o)' BY <1>1, StatusNames, ReadersWait DEF OutputSound
<1>12. ObjectsSound(h, l, o)'
  <2>1. ObjectsSound(h, l, o) /\ o[Len(h)] = <<>> BY <1>1 DEF OutputSound, ObjectsSound
  <2> QED BY <1>1, <2>1, StatusNames, ObjectsWait
<1>13. OutputSound(h, a, l, o)'
  BY <1>4, <1>5, <1>6, <1>7, <1>8, <1>9, <1>10, <1>11, <1>12 DEF OutputSound
<1> QED BY <1>13 DEF OutputInvariant

\* An append that came to nothing: refused, or lost before its fence.
LEMMA CallDropped ==
    ASSUME NEW h, NEW a, NEW l, NEW o, OutputSound(h, a, l, o), call # None,
           UNCHANGED <<logs, readOnly, status, cleaner, archive, reader, heir, counts,
                       shown>>,
           call' = None,
           NEW pc, engine' = [pc |-> pc, items |-> engine.items],
           IF engine.pc = "announce" THEN pc = "run" /\ UNCHANGED sink
           ELSE \/ pc = "run" /\ status # "in_progress" /\ sink' = [sink EXCEPT !.stopped = TRUE]
                \/ pc = "error" /\ UNCHANGED sink
    PROVE  OutputInvariant'
<1> DEFINE acc == a[Len(h)]
<1>1. /\ StatusSound /\ CallSound /\ SinkAgrees(acc) /\ ~sink.stopped
      /\ engine.pc = "announce" => call.event = Announced
      /\ engine.pc \in {"announce", "run"} /\ pc \in {"run", "error"}
  BY DEF OutputSound, CallSound
<1>2. status # "queued" /\ (sink'.stopped => status \in Ended) /\ counts.calls \in Nat
  <2>1. status # "queued" /\ counts.calls \in Nat BY <1>1 DEF StatusSound
  <2>2. sink'.stopped => status # "in_progress" BY <1>1
  <2>3. status \in Ended \cup {"queued", "in_progress"} BY <1>1 DEF StatusSound
  <2> QED BY <2>1, <2>2, <2>3
<1>3. Published(h)' /\ Runs(h, a, l, o)' BY StreamWaits DEF OutputSound
<1>4. StatusSound' BY <1>1, <1>2, StatusNames DEF StatusSound
<1>5. CallSound' BY DEF CallSound
<1>6. SinkAgrees(acc)'
  <2>1. SinkSound(sink, counts.calls) /\ shown \subseteq Tokens(SinkOutput(sink))
        /\ Match(sink, Ahead(acc))
    BY <1>1 DEF SinkAgrees
  <2>2. Ahead(acc)' = acc BY DEF Ahead
  <2>3. CASE engine.pc = "announce"
    <3>1. Ahead(acc) = acc BY <1>1, <2>3, AnnouncedEvent DEF Ahead
    <3> QED BY <2>1, <2>2, <2>3, <3>1 DEF SinkAgrees
  <2>4. CASE pc = "run" /\ sink' = [sink EXCEPT !.stopped = TRUE]
    <3>1. SinkSound(sink', counts.calls) /\ Tokens(SinkOutput(sink')) = Tokens(SinkOutput(sink))
          /\ sink'.stopped
      BY <1>2, <2>1, <2>4, StoppedSink
    <3> QED BY <2>1, <3>1 DEF SinkAgrees
  <2>5. CASE pc = "error" /\ UNCHANGED sink BY <2>1, <2>5 DEF SinkAgrees
  <2> QED BY <1>1, <2>3, <2>4, <2>5
<1>7. Rebuilt(acc)' BY RebuiltWaits DEF OutputSound
<1>8. ArchivesSound' BY <1>1, RebuiltWaits DEF OutputSound, ArchivesSound, Keeps
<1>9. CleanerSound(h, a)' BY CleanerWaits DEF OutputSound
<1>10. ReadersSound(h, l, o)' BY ReadersWait DEF OutputSound
<1>11. ObjectsSound(h, l, o)'
  <2>1. ObjectsSound(h, l, o) /\ o[Len(h)] = <<>> BY <1>1 DEF OutputSound, ObjectsSound
  <2> QED BY <2>1, ObjectsWait
<1>12. OutputSound(h, a, l, o)'
  BY <1>3, <1>4, <1>5, <1>6, <1>7, <1>8, <1>9, <1>10, <1>11 DEF OutputSound
<1> QED BY <1>12 DEF OutputInvariant

LEMMA FenceCallStep ==
    ASSUME NEW h, NEW a, NEW l, NEW o, OutputSound(h, a, l, o), FenceCall
    PROVE  OutputInvariant'
<1> DEFINE acc == a[Len(h)]
<1>1. StatusSound /\ CallSound /\ call # None /\ engine = [pc |-> engine.pc, items |-> engine.items]
  BY DEF OutputSound, FenceCall, StatusSound
<1>2. CASE status = "in_progress"
  <2>1. /\ call' = [call EXCEPT !.fenced = TRUE]
        /\ UNCHANGED <<logs, readOnly, status, sink, engine, cleaner, archive, reader,
                       heir, counts, shown>>
    BY <1>2 DEF FenceCall
  <2>2. call \in Pending BY <1>1 DEF CallSound
  <2>3. call' \in Pending /\ call' # None /\ call'.event = call.event
    BY <2>1, <2>2, OutputConstants DEF Pending
  <2>4. Published(h)' /\ Runs(h, a, l, o)' BY <2>1, StreamWaits DEF OutputSound
  <2>5. StatusSound' BY <1>1, <2>1 DEF StatusSound
  <2>6. CallSound' BY <1>1, <2>1, <2>3 DEF CallSound
  <2>7. SinkAgrees(acc)'
    <3>1. Ahead(acc)' = Ahead(acc) BY <1>1, <2>3 DEF Ahead
    <3> QED BY <2>1, <3>1 DEF OutputSound, SinkAgrees
  <2>8. Rebuilt(acc)' BY <2>1, RebuiltWaits DEF OutputSound
  <2>9. ArchivesSound' BY <2>1, RebuiltWaits DEF OutputSound, ArchivesSound, Keeps
  <2>10. CleanerSound(h, a)' BY <2>1, CleanerWaits DEF OutputSound
  <2>11. ReadersSound(h, l, o)' BY <2>1, ReadersWait DEF OutputSound
  <2>12. ObjectsSound(h, l, o)' BY <2>1, ObjectsWait DEF OutputSound, ObjectsSound
  <2>13. OutputSound(h, a, l, o)'
    BY <2>4, <2>5, <2>6, <2>7, <2>8, <2>9, <2>10, <2>11, <2>12 DEF OutputSound
  <2> QED BY <2>13 DEF OutputInvariant
<1>3. CASE status # "in_progress"
  <2>1. /\ call' = None
        /\ UNCHANGED <<logs, readOnly, status, cleaner, archive, reader, heir, counts,
                       shown>>
        /\ IF engine.pc = "announce" THEN Rest("run") /\ UNCHANGED sink
           ELSE sink' = [sink EXCEPT !.stopped = TRUE] /\ UNCHANGED engine
    BY <1>3 DEF FenceCall
  <2> DEFINE pc == "run"
  <2>2. engine.pc \in {"announce", "run"} BY <1>1 DEF CallSound
  <2>3. engine' = [pc |-> pc, items |-> engine.items]
    BY <1>1, <2>1, <2>2, RestFields
  <2>4. IF engine.pc = "announce" THEN pc = "run" /\ UNCHANGED sink
        ELSE \/ pc = "run" /\ status # "in_progress" /\ sink' = [sink EXCEPT !.stopped = TRUE]
             \/ pc = "error" /\ UNCHANGED sink
    BY <1>3, <2>1
  <2> HIDE DEF pc
  <2> QED BY <1>1, <2>1, <2>3, <2>4, CallDropped
<1> QED BY <1>2, <1>3

\* An append that got through, whether or not its answer comes back.
LEMMA CallPushed ==
    ASSUME NEW h, NEW a, NEW l, NEW o, OutputSound(h, a, l, o), call # None,
           LogPush(Id, call.event),
           shown' = IF ShowsToken(call.event) /\ status = "in_progress"
                    THEN shown \cup {call.event.text} ELSE shown,
           call' = None,
           NEW pc \in {"run", "error"}, engine' = [pc |-> pc, items |-> engine.items],
           engine.pc = "announce" => pc = "run",
           UNCHANGED <<readOnly, status, sink, cleaner, archive, reader, heir, counts>>
    PROVE  OutputInvariant'
<1> DEFINE event == call.event
           n == Len(h)
<1>1. /\ StatusSound /\ CallSound /\ SinkAgrees(a[n]) /\ ~sink.stopped
      /\ event \in Event /\ engine.pc \in {"announce", "run"}
      /\ Published(h) /\ Runs(h, a, l, o) /\ n \in Nat \ {0}
  BY DEF OutputSound, CallSound, Pending, Published
<1>2. status # "queued" /\ counts.calls \in Nat /\ status \in Ended \cup {"queued", "in_progress"}
  BY <1>1 DEF StatusSound
<1>3. PICK H, A, L, O : Published(H)' /\ Extends(h, a, l, o, event, H, A, L, O)
  BY <1>1, PushExtends
<1> DEFINE acc == A[Len(H)]
<1>4. acc = ReplayEvent(a[n], event) /\ acc = Ahead(a[n]) /\ Runs(H, A, L, O)
  BY <1>3 DEF Extends, Ahead
<1>5. /\ SinkSound(sink, counts.calls) /\ shown \subseteq Tokens(SinkOutput(sink))
      /\ Match(sink, acc)
  BY <1>1, <1>4 DEF SinkAgrees
<1>6. shown' \subseteq Tokens(SinkOutput(sink))
  <2>1. CASE ShowsToken(event)
    <3>1. event.kind = "delta" /\ sink.openItem # None /\ sink.openItem.type = "message"
      BY <2>1 DEF ShowsToken
    <3>2. event.kind # "in_progress" BY <3>1
    <3>3. event.text \in Range(sink.openText) BY <1>1, <3>1, <3>2, AnnouncedEvent DEF CallSound
    <3>4. event.text \in SinkTokens(sink) BY <3>1, <3>3 DEF SinkTokens
    <3>5. Tokens(SinkOutput(sink)) = SinkTokens(sink) BY <1>2, <1>5, SinkOutputFields
    <3> QED BY <1>5, <3>4, <3>5
  <2> QED BY <1>5, <2>1
<1>7. shown' = shown \/ status = "in_progress" OBVIOUS
<1>8. event.object = None \/ event = Announced BY <1>1 DEF CallSound
<1>9. StatusSound' BY <1>1, <1>2, StatusNames DEF StatusSound
<1>10. CallSound' BY DEF CallSound
<1>11. SinkAgrees(acc)'
  <2>1. Ahead(acc)' = acc BY DEF Ahead
  <2> QED BY <1>5, <1>6, <2>1 DEF SinkAgrees
<1>12. Rebuilt(acc)' BY <1>2, <1>5, <1>6 DEF Rebuilt
<1>13. ArchivesSound'
  <2>1. ArchivesSound BY DEF OutputSound
  <2>2. archive # None => status # "in_progress" BY <2>1, StatusNames DEF ArchivesSound
  <2>3. cleaner.pc = "archive" => status # "in_progress" BY <1>1 DEF StatusSound
  <2>4. archive # None => Keeps(archive)'
    BY <1>7, <2>1, <2>2 DEF ArchivesSound, Keeps
  <2>5. cleaner.pc = "archive" => Rebuilt(cleaner.acc)'
    BY <1>7, <2>1, <2>3, RebuiltWaits DEF ArchivesSound
  <2> QED BY <2>1, <2>4, <2>5 DEF ArchivesSound
<1>14. CleanerSound(H, A)'
  <2>1. CleanerSound(H, A) BY <1>1, <1>3, ExtendedPlaces DEF OutputSound
  <2> QED BY <2>1, CleanerWaits
<1>15. ReadersSound(H, L, O)'
  <2>1. ReadersSound(H, L, O) BY <1>1, <1>3, ExtendedPlaces DEF OutputSound
  <2> QED BY <2>1, ReadersWait
<1>16. ObjectsSound(H, L, O)'
  <2>1. ObjectsSound(h, l, o) /\ o[n] = <<>> BY <1>1 DEF OutputSound, ObjectsSound
  <2>2. OutputOf(event.object) = <<>> BY <1>8, AnnouncedEvent DEF OutputOf
  <2>3. \/ event.object = None
        \/ event.object # None /\ o[n] = <<>> /\ ObjectTrue(event.object)
    BY <1>8, <2>1, AnnouncedEvent
  <2>4. O[Len(H)] = <<>> BY <1>1, <1>3, <2>1, <2>2, <2>3, ExtendedObjects
  <2>5. \/ event.object = None /\ ~IsTerminal(event)
        \/ event = Announced /\ ~IsTerminal(event)
    BY <1>1, <1>8, AnnouncedEvent DEF CallSound, IsTerminal, TerminalKinds
  <2>6. EndingsTold(H, O)
    BY <1>1, <1>3, <2>1, <2>5, AnnouncedEvent, ExtendedEndings DEF ObjectsSound
  <2>7. ObjectsSound(H, L, O)
    BY <1>1, <1>3, <2>1, <2>2, <2>3, <2>6, ExtendedObjects DEF ObjectsSound
  <2> QED BY <2>4, <2>7, ObjectsWait
<1>17. Runs(H, A, L, O)' BY <1>4 DEF Runs
<1>18. OutputSound(H, A, L, O)'
  BY <1>3, <1>9, <1>10, <1>11, <1>12, <1>13, <1>14, <1>15, <1>16, <1>17 DEF OutputSound
<1> QED BY <1>18 DEF OutputInvariant

LEMMA PushCallStep ==
    ASSUME NEW h, NEW a, NEW l, NEW o, OutputSound(h, a, l, o), PushCall
    PROVE  OutputInvariant'
<1> DEFINE pc == "run"
<1>1. /\ call # None /\ LogPush(Id, call.event) /\ call' = None
      /\ shown' = IF ShowsToken(call.event) /\ status = "in_progress"
                  THEN shown \cup {call.event.text} ELSE shown
      /\ IF engine.pc = "announce" THEN Rest("run") ELSE UNCHANGED engine
      /\ UNCHANGED <<readOnly, status, sink, cleaner, archive, reader, heir, counts>>
  BY DEF PushCall
<1>2. engine.pc \in {"announce", "run"} BY <1>1 DEF OutputSound, CallSound
<1>3. engine = [pc |-> engine.pc, items |-> engine.items] BY DEF OutputSound, StatusSound
<1>4. engine' = [pc |-> pc, items |-> engine.items] BY <1>1, <1>2, <1>3, RestFields
<1>5. pc \in {"run", "error"} /\ (engine.pc = "announce" => pc = "run") OBVIOUS
<1> HIDE DEF pc
<1> QED BY <1>1, <1>4, <1>5, CallPushed

LEMMA LoseCallStep ==
    ASSUME NEW h, NEW a, NEW l, NEW o, OutputSound(h, a, l, o), LoseCall
    PROVE  OutputInvariant'
<1> DEFINE pc == IF engine.pc = "announce" THEN "run" ELSE "error"
<1>1. /\ call # None /\ call' = None /\ Rest(pc)
      /\ UNCHANGED <<readOnly, status, sink, cleaner, archive, reader, heir, counts>>
  BY DEF LoseCall
<1>2. engine.pc \in {"announce", "run"} BY <1>1 DEF OutputSound, CallSound
<1>3. engine = [pc |-> engine.pc, items |-> engine.items] BY DEF OutputSound, StatusSound
<1>4. pc \in {"run", "error"} /\ (engine.pc = "announce" => pc = "run")
      /\ (engine.pc # "announce" => pc = "error")
  OBVIOUS
<1> HIDE DEF pc
<1>5. engine' = [pc |-> pc, items |-> engine.items] BY <1>1, <1>3, RestFields
<1>6. CASE call.fenced
  <2>1. /\ LogPush(Id, call.event)
        /\ shown' = IF ShowsToken(call.event) /\ status = "in_progress"
                    THEN shown \cup {call.event.text} ELSE shown
    BY <1>6 DEF LoseCall
  <2> QED BY <1>1, <1>4, <1>5, <2>1, CallPushed
<1>7. CASE ~call.fenced
  <2>1. UNCHANGED <<logs, shown>> BY <1>7 DEF LoseCall
  <2> QED BY <1>1, <1>4, <1>5, <2>1, CallDropped
<1> QED BY <1>6, <1>7

\* A call on the sink: what it records and what it is about to append.
LEMMA SinkCallStep ==
    ASSUME NEW h, NEW a, NEW l, NEW o, OutputSound(h, a, l, o), NEW next, NEW event,
           SinkCall(next, event), CallKept(sink, next, counts.calls, event),
           event.kind = "delta" => event.text \in Range(next.openText),
           ~IsTerminal(event)
    PROVE  OutputInvariant'
<1> DEFINE acc == a[Len(h)]
           n == counts.calls
<1>1. /\ engine.pc = "run" /\ call = None /\ sink' = next
      /\ call' = IF sink.stopped THEN None ELSE [event |-> event, fenced |-> FALSE]
      /\ UNCHANGED <<logs, readOnly, status, engine, cleaner, archive, reader, heir, shown>>
  BY DEF SinkCall
<1>2. StatusSound /\ SinkAgrees(acc) /\ n \in Nat
  BY DEF OutputSound, StatusSound
<1>3. counts' = [calls |-> n + 1, asides |-> counts'.asides]
  <2>1. counts = [calls |-> n, asides |-> counts.asides] BY <1>2 DEF StatusSound
  <2>2. counts' = [counts EXCEPT !.calls = @ + 1,
                                 !.asides = IF event.kind \in Asides THEN @ + 1 ELSE @]
    BY DEF SinkCall
  <2>3. counts' = [calls |-> n + 1,
                   asides |-> IF event.kind \in Asides THEN counts.asides + 1 ELSE counts.asides]
    BY <2>1, <2>2
  <2> QED BY <2>3
<1>4. /\ SinkSound(next, n + 1) /\ next.stopped = sink.stopped
      /\ Tokens(SinkOutput(sink)) \subseteq Tokens(SinkOutput(next))
      /\ event \in Event /\ event.object = None
      /\ \A x : Match(sink, x) => Match(next, ReplayEvent(x, event))
  BY DEF CallKept
<1>5. sink.stopped \/ (call' \in Pending /\ call' # None /\ call'.event = event)
  BY <1>1, <1>4, NothingIsAbsent DEF Pending
<1>6. Published(h)' /\ Runs(h, a, l, o)' BY <1>1, StreamWaits DEF OutputSound
<1>7. StatusSound'
  <2>1. counts'.calls = n + 1 /\ n + 1 \in Nat BY <1>2, <1>3
  <2>2. counts' = [calls |-> counts'.calls, asides |-> counts'.asides] BY <1>3
  <2>3. sink'.stopped = sink.stopped BY <1>1, <1>4
  <2> HIDE DEF n
  <2> QED BY <1>1, <1>2, <2>1, <2>2, <2>3 DEF StatusSound
<1>8. CallSound' BY <1>1, <1>4, <1>5 DEF CallSound
<1>9. SinkAgrees(acc)'
  <2>1. shown \subseteq Tokens(SinkOutput(sink)) /\ (~sink.stopped => Match(sink, acc))
    BY <1>1, <1>2 DEF SinkAgrees, Ahead
  <2>2. SinkSound(sink', counts'.calls) /\ shown' \subseteq Tokens(SinkOutput(sink'))
    BY <1>1, <1>3, <1>4, <2>1
  <2>3. ~sink.stopped => Match(sink', Ahead(acc)')
    BY <1>1, <1>4, <1>5, <2>1 DEF Ahead
  <2> QED BY <1>1, <1>4, <2>2, <2>3 DEF SinkAgrees
<1>10. Rebuilt(acc)' BY <1>1, RebuiltWaits DEF OutputSound
<1>11. ArchivesSound' BY <1>1, RebuiltWaits DEF OutputSound, ArchivesSound, Keeps
<1>12. CleanerSound(h, a)' BY <1>1, CleanerWaits DEF OutputSound
<1>13. ReadersSound(h, l, o)' BY <1>1, ReadersWait DEF OutputSound
<1>14. ObjectsSound(h, l, o)' BY <1>1, ObjectsWait DEF OutputSound, ObjectsSound
<1>15. OutputSound(h, a, l, o)'
  BY <1>6, <1>7, <1>8, <1>9, <1>10, <1>11, <1>12, <1>13, <1>14 DEF OutputSound
<1> QED BY <1>15 DEF OutputInvariant

\* The sink of a run on its way, and how many calls it has had.
LEMMA RunningSink ==
    ASSUME NEW h, NEW a, NEW l, NEW o, OutputSound(h, a, l, o), engine.pc = "run"
    PROVE  counts.calls \in Nat /\ SinkSound(sink, counts.calls)
BY DEF OutputSound, StatusSound, SinkAgrees

LEMMA OutputItemAddedStep ==
    ASSUME NEW h, NEW a, NEW l, NEW o, OutputSound(h, a, l, o), OutputItemAdded
    PROVE  OutputInvariant'
<1>1. PICK item \in {Message(sink.outputIndex, <<>>, "in_progress"),
                     FunctionCall(sink.outputIndex, "in_progress")} :
         SinkCall(AfterAdded(sink, item), ItemEvent(FALSE, sink.outputIndex, item))
  BY DEF OutputItemAdded
<1> DEFINE next == AfterAdded(sink, item)
           event == ItemEvent(FALSE, sink.outputIndex, item)
<1>2. SinkCall(next, event) /\ sink.openItem = None /\ engine.pc = "run"
  BY <1>1 DEF OutputItemAdded, SinkCall
<1>3. CallKept(sink, next, counts.calls, event) BY <1>2, RunningSink, AddedCall
<1>4. event.kind = "added" BY DEF ItemEvent
<1>5. event.kind # "delta" /\ ~IsTerminal(event) BY <1>4 DEF IsTerminal, TerminalKinds
<1> HIDE DEF next, event
<1> QED BY <1>2, <1>3, <1>5, SinkCallStep

LEMMA OutputItemDoneStep ==
    ASSUME NEW h, NEW a, NEW l, NEW o, OutputSound(h, a, l, o), OutputItemDone
    PROVE  OutputInvariant'
<1> DEFINE item == [sink.openItem EXCEPT
                       !.status = "completed",
                       !.text = IF sink.openItem.type = "message" THEN sink.openText ELSE @]
           next == AfterDone(sink, item)
           event == ItemEvent(TRUE, CurrentIndex(sink), item)
<1>1. SinkCall(next, event) /\ sink.openItem # None /\ engine.pc = "run"
  BY DEF OutputItemDone, SinkCall
<1>2. CallKept(sink, next, counts.calls, event) BY <1>1, RunningSink, DoneCall
<1>3. event.kind = "done" BY DEF ItemEvent
<1>4. event.kind # "delta" /\ ~IsTerminal(event) BY <1>3 DEF IsTerminal, TerminalKinds
<1> HIDE DEF next, event
<1> QED BY <1>1, <1>2, <1>4, SinkCallStep

LEMMA TextDeltaCallStep ==
    ASSUME NEW h, NEW a, NEW l, NEW o, OutputSound(h, a, l, o), TextDeltaCall
    PROVE  OutputInvariant'
<1> DEFINE n == counts.calls
           next == AfterDelta(sink, n + 1)
           event == TextDelta(CurrentIndex(sink), n + 1)
<1>1. SinkCall(next, event) /\ engine.pc = "run" BY DEF TextDeltaCall, SinkCall, Token
<1>2. CallKept(sink, next, n, event) /\ n + 1 \in Range(next.openText)
  BY <1>1, RunningSink, DeltaCall
<1>3. event.text = n + 1 /\ ~IsTerminal(event) BY DEF TextDelta, IsTerminal, TerminalKinds
<1> HIDE DEF next, event
<1> QED BY <1>1, <1>2, <1>3, SinkCallStep

LEMMA AsideCallStep ==
    ASSUME NEW h, NEW a, NEW l, NEW o, OutputSound(h, a, l, o), AsideCall
    PROVE  OutputInvariant'
<1> DEFINE n == counts.calls
<1>1. PICK kind \in Asides :
         SinkCall(AfterAside(sink, kind, n + 1),
                  Aside(kind, IF kind = "reasoning" THEN 0 ELSE CurrentIndex(sink)))
  BY DEF AsideCall, Token
<1> DEFINE next == AfterAside(sink, kind, n + 1)
           event == Aside(kind, IF kind = "reasoning" THEN 0 ELSE CurrentIndex(sink))
<1>2. SinkCall(next, event) /\ engine.pc = "run" BY <1>1 DEF SinkCall
<1>3. CallKept(sink, next, n, event) BY <1>2, RunningSink, AsideKept
<1>4. event.kind = kind BY DEF Aside
<1>5. event.kind # "delta" /\ ~IsTerminal(event)
  BY <1>4, OutputConstants DEF IsTerminal, TerminalKinds
<1> HIDE DEF next, event
<1> QED BY <1>2, <1>3, <1>5, SinkCallStep

----------------------------------------------------------------------------
(* The end of the run.                                                     *)

\* A step after which the run is out of the sink's hands.
LEMMA RunOver ==
    ASSUME NEW h, NEW a, NEW l, NEW o, OutputSound(h, a, l, o),
           UNCHANGED <<logs, call, cleaner, archive, reader, heir, counts, shown>>,
           call = None, sink' = NewSink,
           engine' = [pc |-> engine'.pc, items |-> engine'.items],
           status' = status \/ status = "in_progress",
           \/ /\ status # "in_progress" /\ engine.pc \in {"run", "error"}
              /\ engine'.pc = "done" /\ engine'.items = engine.items /\ status' = status
           \/ /\ status = "in_progress" /\ status' \in {"completed", "incomplete", "failed"}
              /\ engine'.pc = "archive" /\ Keeps(engine'.items)
    PROVE  OutputInvariant'
<1> DEFINE acc == a[Len(h)]
<1>1. StatusSound /\ CallSound /\ SinkAgrees(acc) /\ ArchivesSound
  BY DEF OutputSound
<1>2. /\ status \in Ended \cup {"queued", "in_progress"}
      /\ counts.calls \in Nat /\ counts = [calls |-> counts.calls, asides |-> counts.asides]
      /\ status = "queued" => engine.pc = "idle"
      /\ status = "in_progress" =>
            engine.pc \in {"announce", "run", "error"} /\ cleaner.pc = "idle"
  BY <1>1 DEF StatusSound
<1>3. ~NewSink.stopped BY <1>2, NewSinkSound
<1>4. Published(h)' /\ Runs(h, a, l, o)' BY StreamWaits DEF OutputSound
<1>5. StatusSound' BY <1>1, <1>2, <1>3, StatusNames DEF StatusSound
<1>6. CallSound' BY DEF CallSound
<1>7. SinkAgrees(acc)' BY DEF SinkAgrees
<1>8. Rebuilt(acc)' BY RebuiltWaits DEF OutputSound
<1>9. ArchivesSound'
  <2>1. archive # None => status \in Ended /\ Keeps(archive) BY <1>1 DEF ArchivesSound
  <2>2. (cleaner.pc = "archive" => Rebuilt(cleaner.acc)') BY <1>1, RebuiltWaits DEF ArchivesSound
  <2>3. engine'.items \in Seq(Item) BY <1>1 DEF ArchivesSound, Keeps
  <2>4. (engine.pc \in {"archive", "terminal"} => Keeps(engine.items))' BY DEF Keeps
  <2>5. archive' # None => status' \in Ended /\ Keeps(archive)'
    BY <2>1, StatusNames DEF Keeps
  <2> QED BY <2>2, <2>3, <2>4, <2>5 DEF ArchivesSound
<1>10. CleanerSound(h, a)' BY CleanerWaits DEF OutputSound
<1>11. ReadersSound(h, l, o)' BY StatusNames, ReadersWait DEF OutputSound
<1>12. ObjectsSound(h, l, o)'
  <2>1. ObjectsSound(h, l, o) BY DEF OutputSound
  <2>2. status \in Ended => status' = status /\ engine'.items = engine.items BY StatusNames
  <2>3. engine.pc # "done" BY <1>2
  <2>4. o[Len(h)] = <<>> BY <2>1, <2>3 DEF ObjectsSound
  <2> QED BY <2>1, <2>2, <2>4, ObjectsWait
<1>13. OutputSound(h, a, l, o)'
  BY <1>4, <1>5, <1>6, <1>7, <1>8, <1>9, <1>10, <1>11, <1>12 DEF OutputSound
<1> QED BY <1>13 DEF OutputInvariant

LEMMA RunDiscardedStep ==
    ASSUME NEW h, NEW a, NEW l, NEW o, OutputSound(h, a, l, o), RunDiscarded
    PROVE  OutputInvariant'
<1>1. /\ engine.pc = "run" /\ call = None /\ sink.stopped /\ Rest("done") /\ sink' = NewSink
      /\ UNCHANGED <<logs, readOnly, status, call, cleaner, archive, reader, heir,
                     counts, shown>>
  BY DEF RunDiscarded
<1>2. engine = [pc |-> engine.pc, items |-> engine.items] /\ status \in Ended
  BY <1>1 DEF OutputSound, StatusSound
<1> DEFINE pc == "done"
<1>3. engine' = [pc |-> pc, items |-> engine.items] BY <1>1, <1>2, RestFields
<1>4. /\ engine' = [pc |-> engine'.pc, items |-> engine'.items]
      /\ engine'.pc = pc /\ engine'.items = engine.items
  BY <1>3
<1>5. status # "in_progress" BY <1>2, StatusNames
<1> QED BY <1>1, <1>4, <1>5, RunOver

LEMMA CommitStep ==
    ASSUME NEW h, NEW a, NEW l, NEW o, OutputSound(h, a, l, o), call = None,
           engine.pc \in {"run", "error"},
           NEW outcome \in {"completed", "incomplete", "failed"}, NEW items, Keeps(items),
           Commit(outcome, items)
    PROVE  OutputInvariant'
<1>1. /\ IF status = "in_progress"
         THEN status' = outcome /\ engine' = [pc |-> "archive", items |-> items]
         ELSE UNCHANGED status /\ Rest("done")
      /\ sink' = NewSink
      /\ UNCHANGED <<logs, readOnly, call, cleaner, archive, reader, heir, counts, shown>>
  BY DEF Commit
<1>2. engine = [pc |-> engine.pc, items |-> engine.items]
  BY DEF OutputSound, StatusSound
<1>3. CASE status = "in_progress"
  <2>1. /\ status' = outcome /\ engine'.pc = "archive" /\ engine'.items = items
        /\ engine' = [pc |-> engine'.pc, items |-> engine'.items]
    BY <1>1, <1>3
  <2> QED BY <1>1, <1>3, <2>1, RunOver
<1>4. CASE status # "in_progress"
  <2>1. /\ status' = status /\ engine'.pc = "done" /\ engine'.items = engine.items
        /\ engine' = [pc |-> engine'.pc, items |-> engine'.items]
    BY <1>1, <1>2, <1>4 DEF Rest
  <2> QED BY <1>1, <1>4, <2>1, RunOver
<1> QED BY <1>3, <1>4

LEMMA RunCompletesStep ==
    ASSUME NEW h, NEW a, NEW l, NEW o, OutputSound(h, a, l, o), RunCompletes
    PROVE  OutputInvariant'
<1>1. engine.pc = "run" /\ call = None /\ sink.openItem = None BY DEF RunCompletes
<1>2. PICK outcome \in {"completed", "incomplete"} : Commit(outcome, sink.completed)
  BY DEF RunCompletes
<1>3. /\ counts.calls \in Nat /\ SinkSound(sink, counts.calls)
      /\ shown \subseteq Tokens(SinkOutput(sink))
  BY <1>1, RunningSink DEF OutputSound, SinkAgrees
<1>4. SinkOutput(sink) = sink.completed
  <2>1. sink.completed \in Seq(Item) BY <1>3 DEF SinkSound, Sink
  <2>2. sink.completed \o <<>> = sink.completed BY <2>1
  <2> QED BY <1>1, <2>2 DEF SinkOutput, PartialItem
<1>5. Keeps(sink.completed) BY <1>3, <1>4, SinkKeeps
<1> QED BY <1>1, <1>2, <1>5, CommitStep

LEMMA RunFailsStep ==
    ASSUME NEW h, NEW a, NEW l, NEW o, OutputSound(h, a, l, o), RunFails
    PROVE  OutputInvariant'
<1>1. engine.pc \in {"run", "error"} /\ Commit("failed", SinkOutput(sink))
  BY DEF RunFails
<1>2. call = None
  <2>1. CASE engine.pc = "run" BY <2>1 DEF RunFails
  <2>2. CASE engine.pc = "error" BY <2>2 DEF OutputSound, CallSound
  <2> QED BY <1>1, <2>1, <2>2
<1>3. /\ counts.calls \in Nat /\ SinkSound(sink, counts.calls)
      /\ shown \subseteq Tokens(SinkOutput(sink))
  BY <1>1 DEF OutputSound, StatusSound, SinkAgrees
<1>4. Keeps(SinkOutput(sink)) BY <1>3, SinkKeeps
<1> DEFINE outcome == "failed"
           items == SinkOutput(sink)
<1>5. outcome \in {"completed", "incomplete", "failed"} /\ Commit(outcome, items) /\ Keeps(items)
  BY <1>1, <1>4
<1> HIDE DEF outcome, items
<1> QED BY <1>1, <1>2, <1>5, CommitStep

LEMMA ArchiveRunStep ==
    ASSUME NEW h, NEW a, NEW l, NEW o, OutputSound(h, a, l, o), ArchiveRun
    PROVE  OutputInvariant'
<1> DEFINE acc == a[Len(h)]
<1>1. /\ engine.pc = "archive" /\ archive' = engine.items /\ Rest("terminal")
      /\ UNCHANGED <<logs, readOnly, status, sink, call, cleaner, reader, heir, counts,
                     shown>>
  BY DEF ArchiveRun
<1>2. StatusSound /\ CallSound /\ SinkAgrees(acc) /\ ArchivesSound /\ ObjectsSound(h, l, o)
  BY DEF OutputSound
<1>3. engine' = [pc |-> "terminal", items |-> engine.items]
  BY <1>1, <1>2, RestFields DEF StatusSound
<1>4. Published(h)' /\ Runs(h, a, l, o)' BY <1>1, StreamWaits DEF OutputSound
<1>5. StatusSound' BY <1>1, <1>2, <1>3, StatusNames DEF StatusSound
<1>6. CallSound' BY <1>1, <1>2 DEF CallSound
<1>7. SinkAgrees(acc)' BY <1>3 DEF SinkAgrees
<1>8. Rebuilt(acc)' BY <1>1, RebuiltWaits DEF OutputSound
<1>9. ArchivesSound'
  <2>1. Keeps(engine.items) /\ status \in Ended
    BY <1>1, <1>2, StatusNames DEF ArchivesSound, StatusSound
  <2>2. Keeps(engine.items)' /\ Keeps(archive)' BY <1>1, <1>3, <2>1 DEF Keeps
  <2>3. cleaner.pc = "idle" BY <1>1, <1>2 DEF StatusSound
  <2>4. engine'.items = engine.items /\ engine.items \in Seq(Item)
    BY <1>2, <1>3 DEF ArchivesSound
  <2> QED BY <1>1, <2>1, <2>2, <2>3, <2>4 DEF ArchivesSound
<1>10. CleanerSound(h, a)' BY <1>1, CleanerWaits DEF OutputSound
<1>11. ReadersSound(h, l, o)' BY <1>1, ReadersWait DEF OutputSound
<1>12. ObjectsSound(h, l, o)'
  <2>1. o[Len(h)] = <<>> BY <1>1, <1>2 DEF ObjectsSound
  <2> QED BY <1>1, <1>2, <1>3, <2>1, ObjectsWait
<1>13. OutputSound(h, a, l, o)'
  BY <1>4, <1>5, <1>6, <1>7, <1>8, <1>9, <1>10, <1>11, <1>12 DEF OutputSound
<1> QED BY <1>13 DEF OutputInvariant

\* The event that ends a stream: it rebuilds nothing, and its object is true.
LEMMA LifecyclePushed ==
    ASSUME NEW h, NEW a, NEW l, NEW o, OutputSound(h, a, l, o),
           NEW kind \in {"completed", "incomplete", "failed"}, status \in Ended,
           NEW output \in Seq(Item), LogPush(Id, Lifecycle(kind, Object(status, output))),
           output = Delivered,
           engine.pc = "terminal" \/ (cleaner.pc = "terminal" /\ output = <<>>),
           UNCHANGED <<readOnly, status, sink, call, archive, reader, heir, counts, shown>>,
           engine' = [pc |-> engine'.pc, items |-> engine.items],
           cleaner' = [pc |-> cleaner'.pc, by |-> cleaner.by, cursor |-> cleaner.cursor,
                       acc |-> cleaner.acc],
           \/ engine.pc = "terminal" /\ engine'.pc = "done" /\ UNCHANGED cleaner
           \/ /\ cleaner.pc = "terminal" /\ cleaner'.pc \in {"done", "replay"} /\ output = <<>>
              /\ UNCHANGED engine
    PROVE  OutputInvariant'
<1> DEFINE n == Len(h)
           object == Object(status, output)
           event == Lifecycle(kind, object)
<1>1. /\ StatusSound /\ CallSound /\ SinkAgrees(a[n]) /\ ArchivesSound
      /\ ObjectsSound(h, l, o) /\ Published(h) /\ Runs(h, a, l, o) /\ n \in Nat \ {0}
  BY DEF OutputSound, Published
<1>2. /\ event \in Event /\ event.object = object
      /\ object # None /\ object \in ResponseObject
      /\ object.status = status /\ object.output = output
      /\ event.kind = kind
      /\ \A acc : ReplayEvent(acc, event) = acc
  BY LifecycleEvent
<1>3. ObjectTrue(object) /\ IsTerminal(event)
  BY <1>2 DEF ObjectTrue, Delivered, IsTerminal, TerminalKinds
<1>4. o[n] = <<>>
  <2>1. "terminal" # "done" /\ "terminal" # "idle" OBVIOUS
  <2> QED BY <1>1, <2>1 DEF ObjectsSound
<1> HIDE DEF event, object
<1>5. LogPush(Id, event) BY DEF event, object
<1>6. PICK H, A, L, O : Published(H)' /\ Extends(h, a, l, o, event, H, A, L, O)
  BY <1>1, <1>2, <1>5, PushExtends
<1> DEFINE acc == A[Len(H)]
<1>7. acc = a[n] /\ Runs(H, A, L, O)' BY <1>2, <1>6 DEF Extends, Runs
<1>8. StatusSound' BY <1>1 DEF StatusSound
<1>9. CallSound' BY <1>1 DEF CallSound
<1>10. SinkAgrees(acc)' BY <1>1, <1>7 DEF SinkAgrees, Ahead
<1>11. Rebuilt(acc)' BY <1>7, RebuiltWaits DEF OutputSound
<1>12. ArchivesSound' BY <1>1, RebuiltWaits DEF ArchivesSound, Keeps
<1>13. CleanerSound(H, A)'
  <2>1. CleanerSound(H, A) BY <1>1, <1>6, ExtendedPlaces DEF OutputSound
  <2> QED BY <2>1 DEF CleanerSound
<1>14. ReadersSound(H, L, O)'
  <2>1. ReadersSound(H, L, O) BY <1>1, <1>6, ExtendedPlaces DEF OutputSound
  <2> QED BY <2>1, ReadersWait
<1>15. ObjectsSound(H, L, O)'
  <2>1. \A k \in 0..Len(H) : /\ k # 0 => L[k] # None
                             /\ ObjectTrue(L[k])
                             /\ O[k] = OutputOf(L[k])
    BY <1>1, <1>2, <1>3, <1>4, <1>6, ExtendedObjects
  <2>2. OutputOf(event.object) = <<>> => O[Len(H)] = <<>>
    BY <1>1, <1>2, <1>3, <1>4, <1>6, ExtendedObjects
  <2>3. \A x : ObjectTrue(x) => ObjectTrue(x)' BY DEF ObjectTrue
  <2>4. (engine.pc # "done" \/ cleaner.pc # "idle")' => O[Len(H)] = <<>>
    <3>1. CASE engine.pc = "terminal" /\ engine'.pc = "done" /\ UNCHANGED cleaner
      BY <1>1, <3>1 DEF StatusSound
    <3>2. CASE output = <<>> BY <1>2, <2>2, <3>2 DEF OutputOf
    <3> QED BY <3>1, <3>2
  <2>5. EndingsTold(H, O)
    BY <1>1, <1>2, <1>3, <1>4, <1>6, ExtendedEndings DEF ObjectsSound
  <2>6. EndingsTold(H, O)' BY <2>5 DEF EndingsTold, Delivered
  <2> QED BY <2>1, <2>3, <2>4, <2>6 DEF ObjectsSound
<1>16. OutputSound(H, A, L, O)'
  BY <1>6, <1>7, <1>8, <1>9, <1>10, <1>11, <1>12, <1>13, <1>14, <1>15 DEF OutputSound
<1> QED BY <1>16 DEF OutputInvariant

LEMMA EndRunStep ==
    ASSUME NEW h, NEW a, NEW l, NEW o, OutputSound(h, a, l, o), EndRun
    PROVE  OutputInvariant'
<1>1. /\ engine.pc = "terminal" /\ Rest("done")
      /\ LogPush(Id, Lifecycle(status, TerminalObject(status, engine.items)))
      /\ UNCHANGED <<readOnly, status, sink, call, cleaner, archive, reader, heir,
                     counts, shown>>
  BY DEF EndRun
<1>2. /\ status \in {"completed", "incomplete", "failed"}
      /\ engine = [pc |-> engine.pc, items |-> engine.items]
      /\ engine.items \in Seq(Item)
      /\ cleaner = [pc |-> cleaner.pc, by |-> cleaner.by, cursor |-> cleaner.cursor,
                    acc |-> cleaner.acc]
  BY <1>1 DEF OutputSound, StatusSound, ArchivesSound, CleanerSound
<1>3. engine' = [pc |-> "done", items |-> engine.items] BY <1>1, <1>2, RestFields
<1> DEFINE output == IF status = "failed" THEN <<>> ELSE engine.items
<1>4. /\ output \in Seq(Item) /\ status \in Ended /\ output = Delivered
      /\ TerminalObject(status, engine.items) = Object(status, output)
  BY <1>2, StatusNames DEF TerminalObject, WithoutOutput, Delivered
<1>5. /\ engine' = [pc |-> engine'.pc, items |-> engine.items] /\ engine'.pc = "done"
      /\ cleaner' = [pc |-> cleaner'.pc, by |-> cleaner.by, cursor |-> cleaner.cursor,
                     acc |-> cleaner.acc]
  BY <1>1, <1>2, <1>3
<1> HIDE DEF output
<1>6. LogPush(Id, Lifecycle(status, Object(status, output))) BY <1>1, <1>4
<1> QED BY <1>1, <1>2, <1>4, <1>5, <1>6, LifecyclePushed

----------------------------------------------------------------------------
(* Cancel and reap.                                                        *)

\* The response is settled by someone else than its run.
LEMMA SettledElsewhere ==
    ASSUME NEW h, NEW a, NEW l, NEW o, OutputSound(h, a, l, o),
           status \in {"queued", "in_progress"}, status' \in {"cancelled", "failed"},
           cleaner' = [pc |-> cleaner'.pc, by |-> cleaner'.by, cursor |-> -1, acc |-> NoReplay],
           cleaner'.pc \in {"replay", "terminal"},
           UNCHANGED <<logs, readOnly, sink, call, engine, archive, reader, heir, counts,
                       shown>>
    PROVE  OutputInvariant'
<1> DEFINE acc == a[Len(h)]
<1>1. StatusSound /\ CallSound /\ SinkAgrees(acc) /\ ArchivesSound /\ ObjectsSound(h, l, o)
  BY DEF OutputSound
<1>2. status \notin Ended /\ status' \in Ended BY StatusNames
<1>3. engine.pc \in {"idle", "announce", "run", "error"} BY <1>1 DEF StatusSound
<1>4. Published(h)' /\ Runs(h, a, l, o)' BY StreamWaits DEF OutputSound
<1>5. StatusSound' BY <1>1, <1>2, <1>3, StatusNames DEF StatusSound
<1>6. CallSound' BY <1>1 DEF CallSound
<1>7. SinkAgrees(acc)' BY <1>1 DEF SinkAgrees, Ahead
<1>8. Rebuilt(acc)' BY RebuiltWaits DEF OutputSound
<1>9. ArchivesSound' BY <1>1, <1>2, <1>3 DEF ArchivesSound
<1>10. CleanerSound(h, a)'
  <2>1. Len(h) \in Nat \ {0} /\ a[0] = NoReplay BY DEF OutputSound, Published, Runs
  <2>2. -1 \in -1..(Len(h) - 1) BY <2>1
  <2>3. a[-1 + 1] = NoReplay BY <2>1
  <2>4. cleaner'.cursor = -1 /\ cleaner'.acc = NoReplay OBVIOUS
  <2> QED BY <2>2, <2>3, <2>4 DEF CleanerSound
<1>11. ReadersSound(h, l, o)' BY <1>2, ReadersWait DEF OutputSound
<1>12. ObjectsSound(h, l, o)'
  <2>1. o[Len(h)] = <<>> BY <1>1, <1>3 DEF ObjectsSound
  <2> QED BY <1>1, <1>2, <2>1, ObjectsWait
<1>13. OutputSound(h, a, l, o)'
  BY <1>4, <1>5, <1>6, <1>7, <1>8, <1>9, <1>10, <1>11, <1>12 DEF OutputSound
<1> QED BY <1>13 DEF OutputInvariant

LEMMA CancelStep ==
    ASSUME NEW h, NEW a, NEW l, NEW o, OutputSound(h, a, l, o), Cancel
    PROVE  OutputInvariant'
<1>1. /\ status \in {"queued", "in_progress"} /\ status' = "cancelled"
      /\ cleaner' = [Idle EXCEPT !.pc = "replay"]
      /\ UNCHANGED <<logs, readOnly, sink, call, engine, archive, reader, heir, counts,
                     shown>>
  BY DEF Cancel
<1>2. /\ cleaner' = [pc |-> cleaner'.pc, by |-> cleaner'.by, cursor |-> -1, acc |-> NoReplay]
      /\ cleaner'.pc \in {"replay", "terminal"}
  BY <1>1 DEF Idle
<1> QED BY <1>1, <1>2, SettledElsewhere

LEMMA ReapStep ==
    ASSUME NEW h, NEW a, NEW l, NEW o, OutputSound(h, a, l, o), Reap
    PROVE  OutputInvariant'
<1>1. /\ status \in {"queued", "in_progress"} /\ status' = "failed"
      /\ cleaner' = [Idle EXCEPT !.pc = "terminal", !.by = "reap"]
      /\ UNCHANGED <<logs, readOnly, sink, call, engine, archive, reader, heir, counts,
                     shown>>
  BY DEF Reap
<1>2. /\ cleaner' = [pc |-> cleaner'.pc, by |-> cleaner'.by, cursor |-> -1, acc |-> NoReplay]
      /\ cleaner'.pc \in {"replay", "terminal"}
  BY <1>1 DEF Idle
<1> QED BY <1>1, <1>2, SettledElsewhere

\* The cleaner moves on over the stream.
LEMMA CleanerMoves ==
    ASSUME NEW h, NEW a, NEW l, NEW o, OutputSound(h, a, l, o), cleaner.pc # "idle",
           cleaner' = [pc |-> cleaner'.pc, by |-> cleaner.by, cursor |-> cleaner'.cursor,
                       acc |-> cleaner'.acc],
           cleaner'.pc # "idle", CleanerSound(h, a)',
           cleaner'.pc = "archive" => Rebuilt(cleaner'.acc),
           archive' = archive \/ Keeps(archive'),
           UNCHANGED <<logs, readOnly, status, sink, call, engine, reader, heir, counts,
                       shown>>
    PROVE  OutputInvariant'
<1> DEFINE acc == a[Len(h)]
<1>1. StatusSound /\ CallSound /\ SinkAgrees(acc) /\ ArchivesSound /\ ObjectsSound(h, l, o)
  BY DEF OutputSound
<1>2. Published(h)' /\ Runs(h, a, l, o)' BY StreamWaits DEF OutputSound
<1>3. StatusSound' BY <1>1 DEF StatusSound
<1>4. CallSound' BY <1>1 DEF CallSound
<1>5. SinkAgrees(acc)' BY <1>1 DEF SinkAgrees, Ahead
<1>6. Rebuilt(acc)' BY RebuiltWaits DEF OutputSound
<1>7. ArchivesSound'
  <2>1. (cleaner.pc = "archive" => Rebuilt(cleaner.acc))' BY DEF Rebuilt
  <2>2. archive' # None => status \in Ended /\ Keeps(archive')
    BY <1>1, StatusNames DEF ArchivesSound, StatusSound
  <2>3. (archive # None => status \in Ended /\ Keeps(archive))' BY <2>2 DEF Keeps
  <2>4. (engine.pc \in {"archive", "terminal"} => Keeps(engine.items))'
    BY <1>1 DEF ArchivesSound, Keeps
  <2>5. engine'.items \in Seq(Item) BY <1>1 DEF ArchivesSound
  <2> QED BY <2>1, <2>3, <2>4, <2>5 DEF ArchivesSound
<1>8. ReadersSound(h, l, o)' BY ReadersWait DEF OutputSound
<1>9. ObjectsSound(h, l, o)'
  <2>1. o[Len(h)] = <<>> BY <1>1 DEF ObjectsSound
  <2> QED BY <1>1, <2>1, ObjectsWait
<1>10. OutputSound(h, a, l, o)'
  BY <1>2, <1>3, <1>4, <1>5, <1>6, <1>7, <1>8, <1>9 DEF OutputSound
<1> QED BY <1>10 DEF OutputInvariant

\* What a reader is told, against what was published.
LEMMA OutcomeOfRead ==
    ASSUME NEW h, Published(h), NEW cursor \in -1..(Len(h) - 1)
    PROVE  /\ ReadOutcome(Id, cursor) \in {"expired", "batch", "empty"}
           /\ ReadOutcome(Id, cursor) = "empty" => cursor + 1 = Len(h)
<1> DEFINE log == logs[Id]
           n == Len(h)
<1>1. n \in Nat /\ log.live /\ ~log.swept /\ log.nextSeq = n BY DEF Published, Holds
<1>2. ReadOutcome(Id, cursor) = IF cursor + 1 < log.evictedBefore THEN "expired"
                                ELSE IF cursor + 1 < n THEN "batch" ELSE "empty"
  BY <1>1 DEF ReadOutcome
<1> HIDE DEF log, n
<1>3. ReadOutcome(Id, cursor) \in {"expired", "batch", "empty"} BY <1>2
<1>4. ReadOutcome(Id, cursor) = "empty" => ~(cursor + 1 < n) BY <1>2
<1>5. ~(cursor + 1 < n) => cursor + 1 = n BY <1>1 DEF n
<1> QED BY <1>3, <1>4, <1>5 DEF n

LEMMA ReplayPageStep ==
    ASSUME NEW h, NEW a, NEW l, NEW o, OutputSound(h, a, l, o), ReplayPage
    PROVE  OutputInvariant'
<1> DEFINE n == Len(h)
           cursor == cleaner.cursor
<1>1. /\ cleaner.pc = "replay"
      /\ UNCHANGED <<logs, readOnly, status, sink, call, engine, archive, reader, heir,
                     counts, shown>>
  BY DEF ReplayPage
<1>2. /\ cleaner = [pc |-> cleaner.pc, by |-> cleaner.by, cursor |-> cursor, acc |-> cleaner.acc]
      /\ cursor \in -1..(n - 1) /\ cleaner.acc = a[cursor + 1]
      /\ Published(h) /\ Runs(h, a, l, o) /\ n \in Nat \ {0} /\ Rebuilt(a[n])
  BY DEF OutputSound, CleanerSound, Published
<1>3. CASE ReadOutcome(Id, cursor) = "batch"
  <2> DEFINE batch == ReadBatch(Id, cursor, Page)
             m == Len(batch)
             events == BodiesOf(batch)
             run == [k \in 0..m |-> a[cursor + 1 + k]]
  <2>1. cleaner' = [cleaner EXCEPT !.cursor = LastSeq(batch), !.acc = ReplayBatch(@, batch)]
    BY <1>3 DEF ReplayPage, ReplayDone
  <2>2. /\ m \in Nat \ {0} /\ cursor + m <= n - 1 /\ LastSeq(batch) = cursor + m
        /\ DOMAIN events = 1..m /\ \A i \in 1..m : events[i] = h[cursor + 1 + i]
    BY <1>2, <1>3, PageIsPublished
  <2> HIDE DEF batch, m, events, cursor
  <2>3. \A k \in 1..m : run[k] = ReplayEvent(run[k - 1], events[k])
    <3> SUFFICES ASSUME NEW k \in 1..m PROVE run[k] = ReplayEvent(run[k - 1], events[k])
      OBVIOUS
    <3>1. cursor + 1 + k \in 1..n /\ (cursor + 1 + k) - 1 = cursor + 1 + (k - 1)
      BY <1>2, <2>2 DEF cursor
    <3>2. a[cursor + 1 + k] = ReplayEvent(a[cursor + 1 + (k - 1)], h[cursor + 1 + k])
      BY <1>2, <3>1 DEF Runs
    <3>3. k \in 0..m /\ k - 1 \in 0..m BY <2>2
    <3> QED BY <2>2, <3>2, <3>3
  <2>4. run[0] = a[cursor + 1] /\ run[m] = a[cursor + 1 + m]
    BY <1>2, <2>2 DEF cursor
  <2> HIDE DEF run
  <2>5. FoldLeft(ReplayEvent, run[0], events) = run[m] BY <2>2, <2>3, ReplayFold
  <2>6. ReplayBatch(cleaner.acc, batch) = a[cursor + m + 1]
    <3>1. cursor + 1 + m = cursor + m + 1 BY <1>2, <2>2 DEF cursor
    <3> QED BY <1>2, <2>4, <2>5, <3>1 DEF ReplayBatch, events, cursor
  <2>7. cleaner' = [pc |-> "replay", by |-> cleaner.by, cursor |-> cursor + m,
                    acc |-> a[cursor + m + 1]]
    BY <1>1, <1>2, <2>1, <2>2, <2>6
  <2>8. cursor + m \in -1..(n - 1) BY <1>2, <2>2 DEF cursor
  <2>9. CleanerSound(h, a)' BY <2>7, <2>8 DEF CleanerSound
  <2>10. /\ cleaner' = [pc |-> cleaner'.pc, by |-> cleaner.by, cursor |-> cleaner'.cursor,
                        acc |-> cleaner'.acc]
         /\ cleaner'.pc # "idle" /\ cleaner'.pc # "archive"
    BY <2>7
  <2> QED BY <1>1, <2>9, <2>10, CleanerMoves
<1>4. CASE ReadOutcome(Id, cursor) # "batch"
  <2>1. \/ ReadOutcome(Id, cursor) = "empty" /\ CleanerTo("archive")
        \/ CleanerTo(IF cleaner.by = "cancel" THEN "terminal" ELSE "done")
    BY <1>4 DEF ReplayPage, ReplayDone
  <2>2. \E pc \in {"archive", "terminal", "done"} :
           /\ cleaner' = [pc |-> pc, by |-> cleaner.by, cursor |-> cursor, acc |-> cleaner.acc]
           /\ pc = "archive" => ReadOutcome(Id, cursor) = "empty"
    BY <1>2, <2>1 DEF CleanerTo
  <2>3. PICK pc \in {"archive", "terminal", "done"} :
           /\ cleaner' = [pc |-> pc, by |-> cleaner.by, cursor |-> cursor, acc |-> cleaner.acc]
           /\ pc = "archive" => ReadOutcome(Id, cursor) = "empty"
    BY <2>2
  <2>4. pc = "archive" => Rebuilt(cleaner.acc)
    BY <1>2, <2>3, OutcomeOfRead
  <2>5. CleanerSound(h, a)' BY <1>2, <2>3 DEF CleanerSound
  <2>6. /\ cleaner' = [pc |-> cleaner'.pc, by |-> cleaner.by, cursor |-> cleaner'.cursor,
                       acc |-> cleaner'.acc]
        /\ cleaner'.pc # "idle" /\ cleaner'.pc = pc /\ cleaner'.acc = cleaner.acc
    BY <2>3
  <2> QED BY <1>1, <2>4, <2>5, <2>6, CleanerMoves
<1> QED BY <1>3, <1>4

LEMMA ArchiveReplayStep ==
    ASSUME NEW h, NEW a, NEW l, NEW o, OutputSound(h, a, l, o), ArchiveReplay
    PROVE  OutputInvariant'
<1>1. /\ cleaner.pc = "archive" /\ archive' = ReplayedItems(cleaner.acc)
      /\ cleaner' = [Idle EXCEPT !.by = cleaner.by,
                                 !.pc = IF cleaner.by = "cancel" THEN "terminal" ELSE "done"]
      /\ UNCHANGED <<logs, readOnly, status, sink, call, engine, reader, heir, counts,
                     shown>>
  BY DEF ArchiveReplay
<1>2. Rebuilt(cleaner.acc) BY <1>1 DEF OutputSound, ArchivesSound
<1>3. Keeps(archive') BY <1>1, <1>2, RebuiltKeeps
<1>4. /\ cleaner' = [pc |-> cleaner'.pc, by |-> cleaner.by, cursor |-> cleaner'.cursor,
                     acc |-> cleaner'.acc]
      /\ cleaner'.pc \in {"terminal", "done"}
      /\ cleaner'.cursor = -1 /\ cleaner'.acc = NoReplay
  BY <1>1 DEF Idle
<1>5. CleanerSound(h, a)'
  <2>1. Len(h) \in Nat \ {0} /\ a[0] = NoReplay BY DEF OutputSound, Published, Runs
  <2>2. -1 \in -1..(Len(h) - 1) /\ a[-1 + 1] = NoReplay BY <2>1
  <2>3. cleaner'.by = cleaner.by BY <1>4
  <2> QED BY <1>4, <2>2, <2>3 DEF CleanerSound
<1>6. cleaner.pc # "idle" /\ cleaner'.pc # "idle" /\ cleaner'.pc # "archive" BY <1>1, <1>4
<1> QED BY <1>1, <1>3, <1>4, <1>5, <1>6, CleanerMoves

LEMMA EndStreamStep ==
    ASSUME NEW h, NEW a, NEW l, NEW o, OutputSound(h, a, l, o), EndStream
    PROVE  OutputInvariant'
<1>1. /\ cleaner.pc = "terminal" /\ LogPush(Id, Lifecycle("failed", WithoutOutput(status)))
      /\ CleanerTo(IF cleaner.by = "cancel" THEN "done" ELSE "replay")
      /\ UNCHANGED <<readOnly, status, sink, call, engine, archive, reader, heir, counts,
                     shown>>
  BY DEF EndStream
<1>2. /\ StatusSound
      /\ cleaner = [pc |-> cleaner.pc, by |-> cleaner.by, cursor |-> cleaner.cursor,
                    acc |-> cleaner.acc]
  BY DEF OutputSound, CleanerSound
<1>3. /\ engine = [pc |-> engine.pc, items |-> engine.items] /\ status \in {"cancelled", "failed"}
  BY <1>1, <1>2 DEF StatusSound
<1> DEFINE kind == "failed"
           output == <<>>
           pc == IF cleaner.by = "cancel" THEN "done" ELSE "replay"
<1>4. /\ kind \in {"completed", "incomplete", "failed"} /\ output \in Seq(Item) /\ output = <<>>
      /\ status \in Ended /\ output = Delivered
      /\ LogPush(Id, Lifecycle(kind, Object(status, output)))
  BY <1>1, <1>3, StatusNames DEF WithoutOutput, Delivered
<1>5. pc \in {"done", "replay"} OBVIOUS
<1> HIDE DEF kind, output, pc
<1>6. cleaner' = [pc |-> pc, by |-> cleaner.by, cursor |-> cleaner.cursor, acc |-> cleaner.acc]
  BY <1>1, <1>2 DEF CleanerTo, pc
<1>7. /\ cleaner' = [pc |-> cleaner'.pc, by |-> cleaner.by, cursor |-> cleaner.cursor,
                     acc |-> cleaner.acc]
      /\ cleaner'.pc \in {"done", "replay"}
      /\ engine' = [pc |-> engine'.pc, items |-> engine.items]
  BY <1>1, <1>3, <1>5, <1>6
<1> QED BY <1>1, <1>4, <1>7, LifecyclePushed

----------------------------------------------------------------------------
(* Readers.                                                                *)

\* A reader moves on over the stream.
LEMMA ReaderMoves ==
    ASSUME NEW h, NEW a, NEW l, NEW o, OutputSound(h, a, l, o), ReadersSound(h, l, o)',
           UNCHANGED <<logs, readOnly, status, sink, call, engine, cleaner, archive, counts,
                       shown>>
    PROVE  OutputInvariant'
<1> DEFINE acc == a[Len(h)]
<1>1. Published(h)' /\ Runs(h, a, l, o)' BY StreamWaits DEF OutputSound
<1>2. StatusSound' BY DEF OutputSound, StatusSound
<1>3. CallSound' BY DEF OutputSound, CallSound
<1>4. SinkAgrees(acc)' BY DEF OutputSound, SinkAgrees, Ahead
<1>5. Rebuilt(acc)' BY RebuiltWaits DEF OutputSound
<1>6. ArchivesSound' BY RebuiltWaits DEF OutputSound, ArchivesSound, Keeps
<1>7. CleanerSound(h, a)' BY CleanerWaits DEF OutputSound
<1>8. ObjectsSound(h, l, o)' BY ObjectsWait DEF OutputSound, ObjectsSound
<1>9. OutputSound(h, a, l, o)'
  BY <1>1, <1>2, <1>3, <1>4, <1>5, <1>6, <1>7, <1>8 DEF OutputSound
<1> QED BY <1>9 DEF OutputInvariant

\* The second reader has not ended when the first still moves.
LEMMA HeirWaits ==
    ASSUME NEW h, NEW o, HeirSound(h, o), UNCHANGED heir, reader.pc # "done"
    PROVE  HeirSound(h, o)'
BY DEF HeirSound

LEMMA StartReadingStep ==
    ASSUME NEW h, NEW a, NEW l, NEW o, OutputSound(h, a, l, o), StartReading
    PROVE  OutputInvariant'
<1>1. /\ reader.pc = "idle" /\ reader' = [reader EXCEPT !.pc = "read", !.record = status]
      /\ UNCHANGED <<logs, readOnly, status, sink, call, engine, cleaner, archive, heir,
                     counts, shown>>
  BY DEF StartReading
<1>2. ReaderSound(h, l) /\ HeirSound(h, o) BY DEF OutputSound, ReadersSound
<1>3. reader' = [pc |-> "read", record |-> status, cursor |-> reader.cursor,
                 latest |-> reader.latest, ended |-> reader.ended, lost |-> reader.lost]
  BY <1>1, <1>2 DEF ReaderSound
<1>4. ReaderSound(h, l)' BY <1>1, <1>2, <1>3 DEF ReaderSound
<1>5. HeirSound(h, o)' BY <1>1, <1>2, HeirWaits
<1> QED BY <1>1, <1>4, <1>5, ReaderMoves DEF ReadersSound

\* What the next page holds, the two folds over it, and whether it ends the
\* response.
LEMMA PageFolds ==
    ASSUME NEW h, NEW a, NEW l, NEW o, OutputSound(h, a, l, o),
           NEW cursor \in -1..(Len(h) - 1), ReadOutcome(Id, cursor) = "batch"
    PROVE  LET last   == LastSeq(ReadBatch(Id, cursor, Page))
               events == BodiesOf(ReadBatch(Id, cursor, Page))
           IN  /\ last \in 0..(Len(h) - 1)
               /\ FoldLeft(LatestObject, l[cursor + 1], events) = l[last + 1]
               /\ FoldLeft(AddOutput, o[cursor + 1], events) = o[last + 1]
               /\ Ends(events) \in BOOLEAN
               /\ Over(h, last + 1) <=> Over(h, cursor + 1) \/ Ends(events)
<1> DEFINE n == Len(h)
           batch == ReadBatch(Id, cursor, Page)
           events == BodiesOf(batch)
           m == Len(batch)
           latest == [k \in 0..m |-> l[cursor + 1 + k]]
           outputs == [k \in 0..m |-> o[cursor + 1 + k]]
<1>1. Published(h) /\ Runs(h, a, l, o) /\ n \in Nat \ {0} BY DEF OutputSound, Published
<1>2. /\ m \in Nat \ {0} /\ cursor + m <= n - 1 /\ LastSeq(batch) = cursor + m
      /\ DOMAIN events = 1..m /\ \A i \in 1..m : events[i] = h[cursor + 1 + i]
  BY <1>1, PageIsPublished
<1> HIDE DEF batch, events, m
<1>3. /\ \A k \in 1..m : latest[k] = LatestObject(latest[k - 1], events[k])
      /\ \A k \in 1..m : outputs[k] = AddOutput(outputs[k - 1], events[k])
  <2> SUFFICES ASSUME NEW k \in 1..m
               PROVE  /\ latest[k] = LatestObject(latest[k - 1], events[k])
                      /\ outputs[k] = AddOutput(outputs[k - 1], events[k])
    OBVIOUS
  <2>1. cursor + 1 + k \in 1..n /\ (cursor + 1 + k) - 1 = cursor + 1 + (k - 1)
    BY <1>1, <1>2
  <2>2. /\ l[cursor + 1 + k] = LatestObject(l[cursor + 1 + (k - 1)], h[cursor + 1 + k])
        /\ o[cursor + 1 + k] = AddOutput(o[cursor + 1 + (k - 1)], h[cursor + 1 + k])
    BY <1>1, <2>1 DEF Runs
  <2>3. k \in 0..m /\ k - 1 \in 0..m BY <1>2
  <2> QED BY <1>2, <2>2, <2>3
<1>4. /\ latest[0] = l[cursor + 1] /\ latest[m] = l[cursor + 1 + m]
      /\ outputs[0] = o[cursor + 1] /\ outputs[m] = o[cursor + 1 + m]
  BY <1>2
<1> HIDE DEF latest, outputs
<1>5. /\ FoldLeft(LatestObject, latest[0], events) = latest[m]
      /\ FoldLeft(AddOutput, outputs[0], events) = outputs[m]
  BY <1>2, <1>3, ObjectFold, OutputFold
<1>6. cursor + 1 + m = LastSeq(batch) + 1 /\ LastSeq(batch) \in 0..(n - 1) BY <1>1, <1>2
<1>7. Over(h, cursor + 1 + m) <=> Over(h, cursor + 1) \/ Ends(events)
  <2>1. \A i \in 1..(cursor + 1 + m) :
           i \in 1..(cursor + 1) \/ (i - (cursor + 1) \in 1..m /\ cursor + 1 + (i - (cursor + 1)) = i)
    BY <1>2
  <2>2. \A i \in 1..(cursor + 1) : i \in 1..(cursor + 1 + m) BY <1>2
  <2>3. \A i \in 1..m : cursor + 1 + i \in 1..(cursor + 1 + m) BY <1>2
  <2> HIDE DEF n
  <2>4. ASSUME Over(h, cursor + 1 + m) PROVE Over(h, cursor + 1) \/ Ends(events)
    <3>1. PICK i \in 1..(cursor + 1 + m) : IsTerminal(h[i]) BY <2>4 DEF Over
    <3>2. CASE i \in 1..(cursor + 1) BY <3>1, <3>2 DEF Over
    <3>3. CASE i - (cursor + 1) \in 1..m /\ cursor + 1 + (i - (cursor + 1)) = i
      <4>1. events[i - (cursor + 1)] = h[i] BY <1>2, <3>3
      <4> QED BY <1>2, <3>1, <3>3, <4>1 DEF Ends
    <3> QED BY <2>1, <3>2, <3>3
  <2>5. Over(h, cursor + 1) => Over(h, cursor + 1 + m) BY <2>2 DEF Over
  <2>6. ASSUME Ends(events) PROVE Over(h, cursor + 1 + m)
    <3>1. PICK i \in 1..m : IsTerminal(events[i]) BY <1>2, <2>6 DEF Ends
    <3> QED BY <1>2, <2>3, <3>1 DEF Over
  <2> QED BY <2>4, <2>5, <2>6
<1>8. Ends(events) \in BOOLEAN BY DEF Ends
<1> QED BY <1>4, <1>5, <1>6, <1>7, <1>8 DEF batch, events

LEMMA ReadPageStep ==
    ASSUME NEW h, NEW a, NEW l, NEW o, OutputSound(h, a, l, o), ReadPage
    PROVE  OutputInvariant'
<1> DEFINE n == Len(h)
           cursor == reader.cursor
           batch == ReadBatch(Id, cursor, Page)
           events == BodiesOf(batch)
<1>1. /\ reader.pc = "read"
      /\ UNCHANGED <<logs, readOnly, status, sink, call, engine, cleaner, archive, heir,
                     counts, shown>>
  BY DEF ReadPage
<1>2. /\ ReaderSound(h, l) /\ HeirSound(h, o) /\ Published(h) /\ n \in Nat \ {0}
  BY DEF OutputSound, ReadersSound, Published
<1>3. /\ reader = [pc |-> reader.pc, record |-> reader.record, cursor |-> cursor,
                   latest |-> reader.latest, ended |-> reader.ended, lost |-> reader.lost]
      /\ cursor \in -1..(n - 1) /\ cursor + 1 \in 0..n
      /\ reader.latest = l[cursor + 1] /\ ~reader.ended /\ ~Over(h, cursor + 1)
      /\ reader.record \in Ended => reader.record = status
      /\ reader.lost \in BOOLEAN
  BY <1>1, <1>2 DEF ReaderSound
<1>4. HeirSound(h, o)' BY <1>1, <1>2, HeirWaits
<1>5. CASE ReadOutcome(Id, cursor) = "batch"
  <2> DEFINE last == LastSeq(batch)
             ends == Ends(events)
             pc == IF ends THEN "done" ELSE "read"
             next == IF ends THEN -1 ELSE last
  <2>1. reader' = [reader EXCEPT !.pc = pc, !.cursor = next,
                                 !.latest = FoldLeft(LatestObject, @, events),
                                 !.ended = ends]
    BY <1>5 DEF ReadPage
  <2>2. /\ last \in 0..(n - 1) /\ ends \in BOOLEAN
        /\ FoldLeft(LatestObject, l[cursor + 1], events) = l[last + 1]
        /\ Over(h, last + 1) <=> ends
    BY <1>3, <1>5, PageFolds
  <2> HIDE DEF batch, events, cursor, last, ends
  <2>3. /\ next \in -1..(n - 1) /\ (pc # "done" => next = last /\ ~ends)
        /\ last + 1 \in 0..n /\ last + 1 # 0
    BY <1>2, <2>2
  <2> HIDE DEF pc, next
  <2>4. reader' = [pc |-> pc, record |-> reader.record, cursor |-> next,
                   latest |-> l[last + 1], ended |-> ends, lost |-> reader.lost]
    BY <1>3, <2>1, <2>2
  <2>5. ReaderSound(h, l)' BY <1>1, <1>3, <2>2, <2>3, <2>4 DEF ReaderSound
  <2> QED BY <1>1, <1>4, <2>5, ReaderMoves DEF ReadersSound
<1>6. CASE ReadOutcome(Id, cursor) \in {"empty", "expired"}
  <2> DEFINE lost == ReadOutcome(Id, cursor) = "expired"
  <2>1. reader' = [reader EXCEPT !.pc = "done", !.cursor = -1, !.lost = lost]
    BY <1>6 DEF ReadPage
  <2>2. ~lost => cursor + 1 = n BY <1>2, <1>3, <1>6, OutcomeOfRead
  <2>3. lost \in BOOLEAN /\ -1 \in -1..(n - 1) BY <1>2
  <2> HIDE DEF lost, cursor
  <2>4. reader' = [pc |-> "done", record |-> reader.record, cursor |-> -1,
                   latest |-> reader.latest, ended |-> reader.ended, lost |-> lost]
    BY <1>3, <2>1
  <2>5. ReaderSound(h, l)' BY <1>1, <1>2, <1>3, <2>2, <2>3, <2>4 DEF ReaderSound
  <2> QED BY <1>1, <1>4, <2>5, ReaderMoves DEF ReadersSound
<1> QED BY <1>2, <1>3, <1>5, <1>6, OutcomeOfRead

LEMMA InheritPageStep ==
    ASSUME NEW h, NEW a, NEW l, NEW o, OutputSound(h, a, l, o), InheritPage
    PROVE  OutputInvariant'
<1> DEFINE n == Len(h)
           cursor == heir.cursor
           batch == ReadBatch(Id, cursor, Page)
           events == BodiesOf(batch)
<1>1. /\ reader.pc = "done" /\ heir.pc = "read"
      /\ UNCHANGED <<logs, readOnly, status, sink, call, engine, cleaner, archive, reader,
                     counts, shown>>
  BY DEF InheritPage
<1>2. /\ ReaderSound(h, l) /\ HeirSound(h, o) /\ Published(h) /\ n \in Nat \ {0}
  BY DEF OutputSound, ReadersSound, Published
<1>3. /\ heir = [pc |-> heir.pc, cursor |-> cursor, outputs |-> heir.outputs,
                 lost |-> heir.lost]
      /\ cursor \in -1..(n - 1) /\ cursor + 1 \in 0..n
      /\ heir.outputs = o[cursor + 1]
      /\ heir.lost \in BOOLEAN
  BY <1>1, <1>2 DEF HeirSound
<1>4. ReaderSound(h, l)' BY <1>1, <1>2 DEF ReaderSound
\* What the create read to the end is over for whoever reads to the end later.
<1>5. reader.ended => Over(h, n)
  <2>1. \A k \in 0..n : Over(h, k) => Over(h, n) BY <1>2 DEF Over
  <2> QED BY <1>2, <2>1 DEF ReaderSound
<1>6. CASE ReadOutcome(Id, cursor) = "batch"
  <2> DEFINE last == LastSeq(batch)
             ends == Ends(events)
             pc == IF ends THEN "done" ELSE "read"
             next == IF ends THEN -1 ELSE last
  <2>1. heir' = [heir EXCEPT !.pc = pc, !.cursor = next,
                             !.outputs = FoldLeft(AddOutput, @, events)]
    BY <1>6 DEF InheritPage
  <2>2. /\ last \in 0..(n - 1) /\ ends \in BOOLEAN
        /\ FoldLeft(AddOutput, o[cursor + 1], events) = o[last + 1]
        /\ ends => Over(h, last + 1)
    BY <1>3, <1>6, PageFolds
  <2> HIDE DEF batch, events, cursor, last, ends
  <2>3. /\ next \in -1..(n - 1) /\ (pc # "done" => next = last) /\ (pc = "done" => ends)
        /\ last + 1 \in 0..n
    BY <1>2, <2>2
  <2> HIDE DEF pc, next
  <2>4. heir' = [pc |-> pc, cursor |-> next, outputs |-> o[last + 1], lost |-> heir.lost]
    BY <1>3, <2>1, <2>2
  <2>5. HeirSound(h, o)' BY <1>1, <1>3, <2>2, <2>3, <2>4 DEF HeirSound
  <2> QED BY <1>1, <1>4, <2>5, ReaderMoves DEF ReadersSound
<1>7. CASE ReadOutcome(Id, cursor) \in {"empty", "expired"}
  <2> DEFINE lost == ReadOutcome(Id, cursor) = "expired"
  <2>1. heir' = [heir EXCEPT !.pc = "done", !.cursor = -1, !.lost = lost]
    BY <1>7 DEF InheritPage
  <2>2. ~lost => cursor + 1 = n BY <1>2, <1>3, <1>7, OutcomeOfRead
  <2>3. lost \in BOOLEAN /\ -1 \in -1..(n - 1) BY <1>2
  <2> HIDE DEF lost, cursor
  <2>4. heir' = [pc |-> "done", cursor |-> -1, outputs |-> heir.outputs, lost |-> lost]
    BY <1>3, <2>1
  <2>5. HeirSound(h, o)' BY <1>1, <1>2, <1>3, <1>5, <2>2, <2>3, <2>4 DEF HeirSound
  <2> QED BY <1>1, <1>4, <2>5, ReaderMoves DEF ReadersSound
<1> QED BY <1>2, <1>3, <1>6, <1>7, OutcomeOfRead

----------------------------------------------------------------------------
(* The invariant holds.                                                    *)

LEMMA StartedLog ==
    ASSUME NEW event \in Event
    PROVE  Holds(Pushed(NoLog, event), <<event>>)
<1> DEFINE entry == [seq |-> 0, body |-> event]
           ring == <<entry>>
           log == Pushed(NoLog, event)
<1>1. Append(<<>>, entry) = ring /\ Len(ring) = 1 /\ ring[1] = entry OBVIOUS
<1>2. entry \in Entry /\ entry.seq = 0 /\ entry.body = event BY DEF Entry
<1>3. ~(1 > Capacity) BY EventLogConstants
<1> HIDE DEF entry
<1>4. ring \in Seq(Entry) BY <1>2
<1>5. log = [live |-> TRUE, ring |-> ring, nextSeq |-> 1, evictedBefore |-> 0,
             closedFor |-> -1, swept |-> FALSE]
  <2>1. /\ NoLog.ring = <<>> /\ NoLog.nextSeq = 0
        /\ Append(NoLog.ring, [seq |-> NoLog.nextSeq, body |-> event]) = ring
    BY <1>1 DEF NoLog, entry
  <2>2. log = [NoLog EXCEPT !.live = TRUE, !.nextSeq = @ + 1, !.ring = ring,
                            !.evictedBefore = @]
    BY <1>1, <1>3, <2>1 DEF Pushed
  <2> HIDE DEF ring, log
  <2>3. log = [live |-> TRUE, ring |-> ring, nextSeq |-> 0 + 1, evictedBefore |-> 0,
               closedFor |-> -1, swept |-> FALSE]
    BY <2>2 DEF NoLog
  <2> QED BY <2>3
<1> HIDE DEF ring, log
<1>6. /\ log \in StreamLog /\ log.live /\ ~log.swept
      /\ log.nextSeq = 1 /\ log.evictedBefore = 0 /\ log.ring = ring
  BY <1>4, <1>5 DEF StreamLog
<1> DEFINE h == <<event>>
<1>7. Len(h) = 1 /\ h[1] = event OBVIOUS
<1>8. \A i \in 1..1 : i = 1 OBVIOUS
<1> HIDE DEF h
<1>9. /\ Len(log.ring) = 1 /\ log.ring[1] = entry /\ log.evictedBefore + 1 - 1 = 0
      /\ log.evictedBefore + 1 = 1
  BY <1>1, <1>6
<1>10. Holds(log, h) BY <1>2, <1>6, <1>7, <1>8, <1>9 DEF Holds
<1> QED BY <1>10 DEF log, h

LEMMA InitSound ==
    ASSUME Init
    PROVE  OutputInvariant
<1> DEFINE kind == "created"
           state == "queued"
           output == <<>>
           object == Object(state, output)
           event == Lifecycle(kind, object)
           h == <<event>>
           a == [k \in 0..1 |-> NoReplay]
           l == [k \in 0..1 |-> IF k = 0 THEN None ELSE object]
           o == [k \in 0..1 |-> output]
<1>1. /\ logs = [r \in Responses |-> Pushed(NoLog, event)]
      /\ status = "queued" /\ sink = NewSink /\ call = None
      /\ engine = [pc |-> "idle", items |-> output]
      /\ cleaner = Idle /\ archive = None /\ reader = NoReader /\ heir = NoHeir
      /\ counts = [calls |-> 0, asides |-> 0] /\ shown = {}
  BY DEF Init, WithoutOutput
<1>2. /\ kind \in {"created", "in_progress", "completed", "incomplete", "failed"}
      /\ state \in Ended \cup {"queued", "in_progress"} /\ output \in Seq(Item)
      /\ state \notin Ended
  BY StatusNames
<1>3. output = <<>> /\ output \o output = output OBVIOUS
<1> HIDE DEF kind, state, output
<1>4. /\ event \in Event /\ event.object = object
      /\ object # None /\ object \in ResponseObject
      /\ object.status = state /\ object.output = output
      /\ \A acc : ReplayEvent(acc, event) = acc
  BY <1>2, LifecycleEvent
<1> HIDE DEF object, event
<1>5. h \in Seq(Event) /\ Len(h) = 1 /\ h[1] = event BY <1>4
<1>6. /\ a[0] = NoReplay /\ a[1] = NoReplay /\ l[0] = None /\ l[1] = object
      /\ o[0] = output /\ o[1] = output
  OBVIOUS
<1>7. Published(h)
  <2>1. DOMAIN logs = Responses /\ logs[Id] = Pushed(NoLog, event) BY <1>1, OutputConstants
  <2>2. Holds(logs[Id], h) BY <1>4, <2>1, StartedLog
  <2>3. Len(h) \in Nat \ {0} BY <1>5
  <2> HIDE DEF h
  <2> QED BY <1>5, <2>1, <2>2, <2>3 DEF Published
<1> HIDE DEF h, a, l, o
<1>8. Runs(h, a, l, o)
  <2>1. \A k \in 1..1 : k = 1 /\ k - 1 = 0 OBVIOUS
  <2>2. LatestObject(None, event) = object BY <1>4 DEF LatestObject
  <2>3. AddOutput(output, event) = output BY <1>3, <1>4 DEF AddOutput
  <2> QED BY <1>3, <1>4, <1>5, <1>6, <2>1, <2>2, <2>3 DEF Runs
<1>9. SinkSound(NewSink, 0) /\ Tokens(SinkOutput(NewSink)) = {} /\ ~NewSink.stopped
  BY NewSinkSound
<1>10. Match(NewSink, NoReplay)
  <2>1. NewSink.completed = <<>> /\ NewSink.openItem = None BY DEF NewSink
  <2>2. NoReplay = [items |-> <<>>, open |-> None, text |-> NoReplay.text] BY DEF NoReplay
  <2>3. [i \in 1..Len(<<>>) |-> [at |-> i - 1, item |-> <<>>[i]]] = <<>> OBVIOUS
  <2> QED BY <2>1, <2>2, <2>3 DEF Match
<1>11. StatusSound
  <2>1. cleaner.pc = "idle" BY <1>1 DEF Idle
  <2> QED BY <1>1, <1>9, <2>1, StatusNames DEF StatusSound
<1>12. CallSound BY <1>1 DEF CallSound
<1>13. SinkAgrees(a[Len(h)]) BY <1>1, <1>5, <1>6, <1>9, <1>10 DEF SinkAgrees, Ahead
<1>14. Rebuilt(a[Len(h)]) BY <1>1, <1>5, <1>6, <1>9, <1>10 DEF Rebuilt
<1>15. ArchivesSound BY <1>1, <1>2 DEF ArchivesSound, Idle
<1>16. CleanerSound(h, a) BY <1>1, <1>5, <1>6 DEF CleanerSound, Idle
<1>17. ReadersSound(h, l, o)
  <2>1. /\ reader = [pc |-> "idle", record |-> "queued", cursor |-> -1, latest |-> None,
                     ended |-> FALSE, lost |-> FALSE]
        /\ heir = [pc |-> "read", cursor |-> -1, outputs |-> output, lost |-> FALSE]
    BY <1>1, <1>3 DEF NoReader, NoHeir
  <2>2. 0 \in 0..1 /\ ~Over(h, 0) /\ -1 + 1 = 0 /\ -1 \in -1..(1 - 1) BY DEF Over
  <2>3. ReaderSound(h, l) BY <1>2, <1>5, <1>6, <2>1, <2>2, StatusNames DEF ReaderSound
  <2>4. HeirSound(h, o) BY <1>5, <1>6, <2>1, <2>2 DEF HeirSound
  <2> QED BY <2>3, <2>4 DEF ReadersSound
<1>18. ObjectsSound(h, l, o)
  <2>1. \A k \in 0..1 : k = 0 \/ k = 1 OBVIOUS
  <2>2. ObjectTrue(object) /\ ObjectTrue(None) BY <1>2, <1>4 DEF ObjectTrue
  <2>3. OutputOf(object) = output /\ OutputOf(None) = output
    BY <1>3, <1>4 DEF OutputOf
  <2>4. \A k \in 0..1 : ~Over(h, k)
    <3>1. event.kind = kind /\ ~IsTerminal(event)
      BY <1>2, LifecycleEvent DEF event, object, IsTerminal, TerminalKinds, kind
    <3>2. \A k \in 0..1 : \A i \in 1..k : i = 1 OBVIOUS
    <3> QED BY <1>5, <3>1, <3>2 DEF Over
  <2>5. EndingsTold(h, o) BY <1>3, <1>5, <1>6, <2>1, <2>4 DEF EndingsTold
  <2> QED BY <1>3, <1>4, <1>5, <1>6, <2>1, <2>2, <2>3, <2>5 DEF ObjectsSound
<1>19. OutputSound(h, a, l, o)
  BY <1>7, <1>8, <1>11, <1>12, <1>13, <1>14, <1>15, <1>16, <1>17, <1>18 DEF OutputSound
<1> QED BY <1>19 DEF OutputInvariant

\* No step of the runner, the stores, the cleaners or the readers breaks it.
LEMMA NextSound ==
    ASSUME OutputInvariant, [Next]_vars
    PROVE  OutputInvariant'
<1>1. PICK h, a, l, o : OutputSound(h, a, l, o) BY DEF OutputInvariant
<1>2. CASE Begin BY <1>1, <1>2, BeginStep
<1>3. CASE FenceCall BY <1>1, <1>3, FenceCallStep
<1>4. CASE PushCall BY <1>1, <1>4, PushCallStep
<1>5. CASE LoseCall BY <1>1, <1>5, LoseCallStep
<1>6. CASE OutputItemAdded BY <1>1, <1>6, OutputItemAddedStep
<1>7. CASE OutputItemDone BY <1>1, <1>7, OutputItemDoneStep
<1>8. CASE TextDeltaCall BY <1>1, <1>8, TextDeltaCallStep
<1>9. CASE AsideCall BY <1>1, <1>9, AsideCallStep
<1>10. CASE RunDiscarded BY <1>1, <1>10, RunDiscardedStep
<1>11. CASE RunCompletes BY <1>1, <1>11, RunCompletesStep
<1>12. CASE RunFails BY <1>1, <1>12, RunFailsStep
<1>13. CASE ArchiveRun BY <1>1, <1>13, ArchiveRunStep
<1>14. CASE EndRun BY <1>1, <1>14, EndRunStep
<1>15. CASE Cancel BY <1>1, <1>15, CancelStep
<1>16. CASE Reap BY <1>1, <1>16, ReapStep
<1>17. CASE ReplayPage BY <1>1, <1>17, ReplayPageStep
<1>18. CASE ArchiveReplay BY <1>1, <1>18, ArchiveReplayStep
<1>19. CASE EndStream BY <1>1, <1>19, EndStreamStep
<1>20. CASE StartReading BY <1>1, <1>20, StartReadingStep
<1>21. CASE ReadPage BY <1>1, <1>21, ReadPageStep
<1>22. CASE InheritPage BY <1>1, <1>22, InheritPageStep
<1>23. CASE UNCHANGED vars
  <2>1. ReadersSound(h, l, o)' BY <1>1, <1>23, ReadersWait DEF OutputSound, vars
  <2> QED BY <1>1, <1>23, <2>1, ReaderMoves DEF vars
<1> QED
  BY <1>2, <1>3, <1>4, <1>5, <1>6, <1>7, <1>8, <1>9, <1>10, <1>11, <1>12, <1>13, <1>14,
     <1>15, <1>16, <1>17, <1>18, <1>19, <1>20, <1>21, <1>22, <1>23 DEF Next

\* The sink, the stream and everyone who reads it keep telling one story of a
\* response, however often the stream has evicted its beginning.
THEOREM OutputStaysSound == Spec => []OutputInvariant
<1>1. Init => OutputInvariant BY InitSound
<1>2. OutputInvariant /\ [Next]_vars => OutputInvariant' BY NextSound
<1> QED BY <1>1, <1>2, PTL DEF Spec

\* The two ways to save an interrupted run save the same: what the runtime
\* would archive from its sink (EventSink::completed_output and partial_item)
\* is what a cancel or a reap replays from the stream (replay_completed_items).
THEOREM FunnelsAlwaysAgree == Spec => []FunnelsAgree
<1>1. OutputInvariant => FunnelsAgree
  <2> SUFFICES ASSUME OutputInvariant, engine.pc = "run", call = None, ~sink.stopped,
                      ~Overflowed
               PROVE  SinkOutput(sink) = ReplayedItems(ReplayBatch(NoReplay, logs[Id].ring))
    BY DEF FunnelsAgree
  <2>1. PICK h, a, l, o : OutputSound(h, a, l, o) BY DEF OutputInvariant
  <2> DEFINE n == Len(h)
             ring == logs[Id].ring
             events == BodiesOf(ring)
  <2>2. /\ n \in Nat /\ Len(ring) \in Nat /\ logs[Id].evictedBefore \in Nat
        /\ logs[Id].evictedBefore + Len(ring) = n
        /\ \A i \in 1..Len(ring) : ring[i].body = h[logs[Id].evictedBefore + i]
    BY <2>1 DEF OutputSound, Published, Holds, StreamLog
  <2>3. logs[Id].evictedBefore = 0 BY <2>2 DEF Overflowed
  <2>4. Len(ring) = n /\ \A i \in 1..n : ring[i].body = h[i] BY <2>2, <2>3
  <2>5. DOMAIN events = 1..n /\ \A i \in 1..n : events[i] = h[i] BY <2>4 DEF BodiesOf
  <2> HIDE DEF n, ring, events
  <2>6. a[0] = NoReplay /\ \A k \in 1..n : a[k] = ReplayEvent(a[k - 1], events[k])
    BY <2>1, <2>5 DEF OutputSound, Runs, n
  <2>7. FoldLeft(ReplayEvent, a[0], events) = a[n] BY <2>2, <2>5, <2>6, ReplayFold
  <2>8. ReplayBatch(NoReplay, ring) = a[n] BY <2>6, <2>7 DEF ReplayBatch, events
  <2>9. Match(sink, a[n]) BY <2>1 DEF OutputSound, SinkAgrees, Ahead, n
  <2>10. counts.calls \in Nat /\ SinkSound(sink, counts.calls) BY <2>1, RunningSink
  <2>11. ReplayedItems(a[n]) = SinkOutput(sink) BY <2>9, <2>10, FunnelsMatch
  <2> QED BY <2>8, <2>11 DEF ring
<1> QED BY <1>1, OutputStaysSound, PTL

\* INV-61: whoever archives an interrupted turn keeps every token of an
\* announced message its subscribers could read while the response ran.
THEOREM SeenTokensAlwaysArchived == Spec => []SeenTokensAreArchived
<1>1. OutputInvariant => SeenTokensAreArchived
  BY DEF OutputInvariant, OutputSound, ArchivesSound, Keeps, SeenTokensAreArchived
<1> QED BY <1>1, OutputStaysSound, PTL

\* No item and no token is archived twice, whichever of the run, the cancel and
\* the reap archives the turn.
THEOREM AlwaysArchivedOnce == Spec => []ArchivedOnce
<1>1. OutputInvariant => ArchivedOnce
  <2> SUFFICES ASSUME OutputInvariant, archive # None,
                      NEW i \in DOMAIN archive, NEW j \in DOMAIN archive, i < j
               PROVE  /\ archive[i].id < archive[j].id
                      /\ Range(archive[i].text) \cap Range(archive[j].text) = {}
    BY DEF ArchivedOnce
  <2>1. archive \in Seq(Item) /\ Distinct(archive)
    BY DEF OutputInvariant, OutputSound, ArchivesSound, Keeps
  <2>2. DOMAIN archive = 1..Len(archive) /\ Len(archive) \in Nat BY <2>1
  <2>3. archive[i].id = i - 1 /\ archive[j].id = j - 1 BY <2>1, <2>2 DEF Distinct
  <2>4. i \in Int /\ j \in Int /\ i - 1 < j - 1 BY <2>2
  <2>5. j \in (1..Len(archive)) \ {i} BY <2>2, <2>4
  <2>6. Range(archive[i].text) \cap Range(archive[j].text) = {}
    BY <2>1, <2>2, <2>5 DEF Distinct
  <2> QED BY <2>3, <2>4, <2>6
<1> QED BY <1>1, OutputStaysSound, PTL

\* INV-41: what a later turn inherits of a bare response is what its create
\* checked, though the service (latest_response_object) and the runtime
\* (reconstruct_bare) read at different times and in different ways; or the
\* create met no end of the response, and the turn inherits what the response
\* completed with since.
THEOREM OnlyLaterOutputUnchecked == Spec => []OnlyLaterOutputIsUnchecked
<1>1. OutputInvariant => OnlyLaterOutputIsUnchecked
  <2> SUFFICES ASSUME OutputInvariant, heir.pc = "done", ~heir.lost
               PROVE  \/ heir.outputs = CheckedOutput
                      \/ /\ ~reader.ended /\ status \in {"completed", "incomplete"}
                         /\ heir.outputs = engine.items
    BY DEF OnlyLaterOutputIsUnchecked, InheritedOutput
  <2>1. PICK h, a, l, o : OutputSound(h, a, l, o) BY DEF OutputInvariant
  <2>2. PICK i \in 0..Len(h) : reader.latest = l[i] /\ (reader.ended <=> Over(h, i))
    BY <2>1 DEF OutputSound, ReadersSound, ReaderSound
  <2>3. PICK j \in 0..Len(h) : heir.outputs = o[j] /\ (reader.ended => Over(h, j))
    BY <2>1 DEF OutputSound, ReadersSound, HeirSound
  <2>4. CheckedOutput = o[i]
    BY <2>1, <2>2 DEF OutputSound, ObjectsSound, OutputOf, CheckedOutput
  <2>5. \A k \in 0..Len(h) : o[k] = IF Over(h, k) THEN Delivered ELSE <<>>
    BY <2>1 DEF OutputSound, ObjectsSound, EndingsTold
  <2>6. CASE reader.ended BY <2>2, <2>3, <2>4, <2>5, <2>6
  <2>7. CASE ~reader.ended
    <3>1. CheckedOutput = <<>> BY <2>2, <2>4, <2>5, <2>7
    <3>2. heir.outputs = Delivered \/ heir.outputs = <<>> BY <2>3, <2>5
    <3> QED BY <2>7, <3>1, <3>2 DEF Delivered
  <2> QED BY <2>6, <2>7
<1> QED BY <1>1, OutputStaysSound, PTL

\* A client told that a response is over is told how it is over in the ledger,
\* by a GET and by the answer to a synchronous create; a completed response is
\* shown with the items its run handed over.
THEOREM AnswersAlwaysTrue == Spec => []AnswersAreTrue
<1>1. OutputInvariant => AnswersAreTrue
  <2> SUFFICES ASSUME OutputInvariant, reader.pc = "done",
                      NEW answer \in {Retrieved, SyncAnswer}, answer.status \in Ended
               PROVE  /\ answer.status = status
                      /\ (status \in {"completed", "incomplete"} /\ ~reader.lost) =>
                             answer.output = engine.items
    BY DEF AnswersAreTrue
  <2>1. PICK h, a, l, o : OutputSound(h, a, l, o) BY DEF OutputInvariant
  <2>2. PICK k \in 0..Len(h) : reader.latest = l[k] /\ (~reader.lost => k # 0)
    BY <2>1 DEF OutputSound, ReadersSound, ReaderSound
  <2>3. reader.record \in Ended => reader.record = status
    BY <2>1 DEF OutputSound, ReadersSound, ReaderSound
  <2>4. (k # 0 => l[k] # None) /\ ObjectTrue(l[k])
    BY <2>1 DEF OutputSound, ObjectsSound
  <2>5. CASE reader.latest # None
    <3>1. answer = reader.latest BY <2>5 DEF Retrieved, SyncAnswer, CurrentObject
    <3> QED BY <2>2, <2>4, <2>5, <3>1 DEF ObjectTrue
  <2>6. CASE reader.latest = None
    <3>1. reader.lost BY <2>2, <2>4, <2>6
    <3>2. answer.status \in {reader.record, "queued"}
      BY <2>6 DEF Retrieved, SyncAnswer, CurrentObject, WithoutOutput, Object
    <3> QED BY <2>3, <3>1, <3>2, StatusNames
  <2> QED BY <2>5, <2>6
<1> QED BY <1>1, OutputStaysSound, PTL
=============================================================================
