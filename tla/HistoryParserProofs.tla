------------------------- MODULE HistoryParserProofs -------------------------
(***************************************************************************)
(* The parser of room histories is memory safe: it neither uses an id it   *)
(* has not read nor adds to a batch it has not begun, whatever the nodes.  *)
(* What it accepts is the encoding of what it returns, and it accepts the  *)
(* encoding of all batches.                                                *)
(***************************************************************************)
EXTENDS HistoryReference, TLAPS, WellFoundedInduction

\* A message is added to the last batch: redis_serialization.cpp's
\* res.back() exists and the sequence keeps its type and its length.
LEMMA AddedToLast ==
  ASSUME NEW batches \in Seq(Seq(Message)), batches # << >>,
         NEW m \in Message
  PROVE  LET added == [batches EXCEPT ![Len(batches)] = Append(@, m)]
         IN  added \in Seq(Seq(Message)) /\ added # << >>
<1> DEFINE added == [batches EXCEPT ![Len(batches)] = Append(@, m)]
<1>1. Len(batches) \in 1..Len(batches)
  OBVIOUS
<1>2. batches[Len(batches)] \in Seq(Message)
  BY <1>1
<1>3. Append(batches[Len(batches)], m) \in Seq(Message)
  BY <1>2
<1>4. added \in [1..Len(batches) -> Seq(Message)]
  BY <1>1, <1>3
<1>5. added \in Seq(Seq(Message)) /\ Len(added) = Len(batches)
  BY <1>4
<1>6. QED
  BY <1>5

\* A round of the loop keeps the invariant: one step per parser state.
LEMMA FeedIInv ==
  ASSUME IInv, NEW node \in Nodes, Feed(node)
  PROVE  IInv'
<1> USE DEF IInv, TypeOK
<1>1. fed' \in Seq(Nodes)
  BY DEF Feed
<1>2. state \in States /\ id \in Values \cup {"null"} /\ res \in Seq(Seq(Message))
  OBVIOUS
<1>3. "null" \notin Values /\ Payloads \subseteq Values
  BY ParserAssumption DEF Values
<1>4. node.type = "blob" => node.value \in Values
  <2>1. CASE node \in {Array(size, depth) :
                        size \in 0..MaxSize, depth \in 0..MaxDepth}
    <3>1. PICK size \in 0..MaxSize, depth \in 0..MaxDepth :
            node = Array(size, depth)
      BY <2>1
    <3>2. node.type = "array"
      BY <3>1 DEF Array
    <3>3. QED
      BY <3>2
  <2>2. CASE node \in {Blob(depth, value) :
                        depth \in 0..MaxDepth, value \in Values}
    <3>1. PICK depth \in 0..MaxDepth, value \in Values :
            node = Blob(depth, value)
      BY <2>2
    <3>2. QED
      BY <3>1 DEF Blob
  <2>3. CASE node = Other
    BY <2>3 DEF Other
  <2>4. QED
    BY <2>1, <2>2, <2>3 DEF Nodes
<1>5. Append(res, << >>) \in Seq(Seq(Message)) /\ Append(res, << >>) # << >>
  BY <1>2
<1>6. CASE Level0List(node)
  BY <1>1, <1>2, <1>5, <1>6
     DEF Level0List, Accept, Reject, DereferencesSafe, States, Results
<1>7. CASE Level0OrEntryList(node)
  BY <1>1, <1>2, <1>5, <1>7
     DEF Level0OrEntryList, Accept, Reject, DereferencesSafe, States, Results
<1>8. CASE Id(node)
  BY <1>1, <1>2, <1>3, <1>4, <1>8
     DEF Id, Accept, Reject, DereferencesSafe, States, Results
<1>9. CASE AttrList(node)
  BY <1>1, <1>2, <1>9
     DEF AttrList, Accept, Reject, DereferencesSafe, States, Results
<1>10. CASE Key(node)
  BY <1>1, <1>2, <1>10
     DEF Key, Accept, Reject, DereferencesSafe, States, Results
<1>11. CASE Value(node)
  <2>1. id \in Values /\ res # << >>
    BY <1>2, <1>11 DEF Value, DereferencesSafe
  <2>2. CASE node.value \in Payloads
    <3> DEFINE m == [id |-> id, payload |-> node.value]
               added == [res EXCEPT ![Len(res)] = Append(@, m)]
    <3>1. m \in Message
      BY <2>1, <2>2 DEF Message
    <3>2. added \in Seq(Seq(Message)) /\ added # << >>
      BY <1>2, <2>1, <3>1, AddedToLast
    <3> HIDE DEF m
    <3>3. \/ Reject
          \/ Accept("wants_level0_or_entry_list", "null", added)
      BY <1>11 DEF Value, m
    <3> HIDE DEF added
    <3>4. CASE Reject
      BY <1>1, <1>11, <3>4 DEF Value, Reject, DereferencesSafe, Results
    <3>5. CASE Accept("wants_level0_or_entry_list", "null", added)
      BY <1>1, <3>2, <3>5 DEF Accept, DereferencesSafe, States, Results
    <3>6. QED
      BY <3>3, <3>4, <3>5
  <2>3. CASE node.value \notin Payloads
    BY <1>1, <1>11, <2>3 DEF Value, Reject, DereferencesSafe, Results
  <2>4. QED
    BY <2>2, <2>3
<1>12. QED
  BY <1>6, <1>7, <1>8, <1>9, <1>10, <1>11 DEF Feed

\* parse_room_history_batch() keeps its invariant for every input, of any
\* length, whatever the nodes: the types and the two dereferences.
THEOREM ParserInvariant == Spec => []IInv
<1>1. Init => IInv
  BY DEF Init, IInv, TypeOK, DereferencesSafe, States, Results
<1>2. IInv /\ [Next]_vars => IInv'
  <2> SUFFICES ASSUME IInv, [Next]_vars
               PROVE  IInv'
    OBVIOUS
  <2>1. CASE \E node \in Nodes : Feed(node)
    BY <2>1, FeedIInv
  <2>2. CASE End
    BY <2>2 DEF End, IInv, TypeOK, DereferencesSafe, Results
  <2>3. CASE UNCHANGED vars
    BY <2>3 DEF vars, IInv, TypeOK, DereferencesSafe
  <2>4. QED
    BY <2>1, <2>2, <2>3 DEF Next, Returned
<1>3. QED
  BY <1>1, <1>2, PTL DEF Spec

\* The two dereferences, of data.id and of res.back(), are safe on every input.
THEOREM DereferencesAreSafe == Spec => []DereferencesSafe
<1>1. IInv => DereferencesSafe
  BY DEF IInv
<1>2. QED
  BY <1>1, ParserInvariant, PTL

-----------------------------------------------------------------------------

\* Induction over sequences.

\* The order of the natural numbers.
Below == {p \in Nat \X Nat : p[1] < p[2]}

\* The principle of the least number.
LEMMA LeastNumber ==
  ASSUME NEW T \in SUBSET Nat, T # {}
  PROVE  \E x \in T : \A y \in T : x <= y
<1>1. Below = OpToRel(<, Nat)
  BY DEF Below, OpToRel
<1>2. IsWellFoundedOn(Below, Nat)
  BY <1>1, NatLessThanWellFounded
<1>3. PICK x \in T : \A y \in T : ~ (<<y, x>> \in Below)
  BY <1>2, WFMin
<1>4. ASSUME NEW y \in T PROVE x <= y
  <2>1. <<y, x>> \in Nat \X Nat /\ <<y, x>>[1] = y /\ <<y, x>>[2] = x
    OBVIOUS
  <2>2. x \in Nat /\ y \in Nat
    OBVIOUS
  <2>3. ~(y < x)
    BY <2>1, <1>3 DEF Below
  <2> QED BY <2>2, <2>3
<1> QED BY <1>4

\* One element more of a sequence.
LEMMA PrefixNext ==
  ASSUME NEW S, NEW s \in Seq(S), NEW n \in 1..Len(s)
  PROVE  SubSeq(s, 1, n) = Append(SubSeq(s, 1, n - 1), s[n])
<1>1. n - 1 \in 0..Len(s) /\ Len(s) \in Nat
  OBVIOUS
<1>2. PICK t : t = SubSeq(s, 1, n - 1)
  OBVIOUS
<1>3. t \in Seq(S) /\ Len(t) = n - 1 /\ \A k \in 1..(n - 1) : t[k] = s[k]
  BY <1>1, <1>2
<1>4. PICK u : u = SubSeq(s, 1, n)
  OBVIOUS
<1>5. u \in Seq(S) /\ Len(u) = n /\ \A k \in 1..n : u[k] = s[k]
  BY <1>1, <1>4
<1>6. PICK v : v = Append(t, s[n])
  OBVIOUS
<1>7. v \in Seq(S) /\ Len(v) = n /\ v[n] = s[n] /\ \A k \in 1..(n - 1) : v[k] = s[k]
  BY <1>1, <1>3, <1>6
<1>8. \A k \in 1..n : u[k] = v[k]
  BY <1>1, <1>5, <1>7
<1>9. u = v
  BY <1>5, <1>7, <1>8
<1> QED BY <1>2, <1>4, <1>6, <1>9

\* Induction over sequences, for a set of them.
LEMMA PrefixInduction ==
  ASSUME NEW S, NEW T, << >> \in T,
         \A s \in Seq(S), x \in S : s \in T => Append(s, x) \in T
  PROVE  Seq(S) \subseteq T
<1> SUFFICES ASSUME NEW s \in Seq(S), s \notin T PROVE FALSE
  OBVIOUS
<1> DEFINE N == {n \in 0..Len(s) : SubSeq(s, 1, n) \notin T}
<1>1. N \in SUBSET Nat /\ N # {}
  <2>1. SubSeq(s, 1, Len(s)) = s /\ Len(s) \in 0..Len(s) /\ Len(s) \in Nat
    OBVIOUS
  <2>2. Len(s) \in N
    BY <2>1
  <2>3. N \subseteq Nat
    BY <2>1
  <2> QED BY <2>2, <2>3
<1>2. PICK n \in N : \A m \in N : n <= m
  <2> HIDE DEF N
  <2> QED BY <1>1, LeastNumber
<1>3. n # 0
  <2>1. SubSeq(s, 1, 0) = << >>
    OBVIOUS
  <2> QED BY <1>2, <2>1
<1>4. n \in 1..Len(s) /\ n - 1 \in 0..Len(s) /\ ~(n <= n - 1)
  BY <1>1, <1>2, <1>3
<1>5. SubSeq(s, 1, n - 1) \in T
  BY <1>2, <1>4
<1>6. SubSeq(s, 1, n - 1) \in Seq(S) /\ s[n] \in S
  BY <1>4
<1>7. SubSeq(s, 1, n) \in T
  BY <1>4, <1>5, <1>6, PrefixNext
<1> QED BY <1>2, <1>7

\* FlattenSeq() joins the sequences one by one.
IsFlat(f, ss) ==
  f = [k \in 1..Len(ss) |-> IF k = 1 THEN ss[k] ELSE f[k - 1] \o ss[k]]

\* tt goes on where ss ends.
Begins(ss, tt) ==
  /\ Len(ss) \in Nat /\ Len(tt) \in Nat /\ Len(ss) <= Len(tt)
  /\ \A k \in 1..Len(ss) : tt[k] = ss[k]

\* The sequences are the same up to n.
SameUpTo(f, g, n) == \A k \in 1..n : f[k] = g[k]

\* What FlattenSeq() computes of the beginning is the same for both.
LEMMA FlatsAgree ==
  ASSUME NEW ss, NEW tt, Begins(ss, tt), NEW f, IsFlat(f, ss), NEW g, IsFlat(g, tt)
  PROVE  SameUpTo(f, g, Len(ss))
<1> DEFINE N == {k \in 1..Len(ss) : f[k] # g[k]}
<1> SUFFICES ASSUME N # {} PROVE FALSE
  BY DEF SameUpTo
<1>1. /\ N \in SUBSET Nat /\ Len(ss) \in Nat /\ Len(tt) \in Nat /\ Len(ss) <= Len(tt)
      /\ \A k \in 1..Len(ss) : tt[k] = ss[k]
  BY DEF Begins
<1>2. PICK k \in N : \A m \in N : k <= m
  <2> HIDE DEF N
  <2> QED BY <1>1, LeastNumber
<1>3. k \in 1..Len(ss) /\ k \in 1..Len(tt)
  BY <1>1, <1>2
<1>4. /\ f[k] = IF k = 1 THEN ss[k] ELSE f[k - 1] \o ss[k]
      /\ g[k] = IF k = 1 THEN tt[k] ELSE g[k - 1] \o tt[k]
  BY <1>3 DEF IsFlat
<1>5. CASE k = 1
  BY <1>1, <1>2, <1>3, <1>4, <1>5
<1>6. CASE k # 1
  <2>1. k - 1 \in 1..Len(ss) /\ ~(k <= k - 1)
    BY <1>1, <1>3, <1>6
  <2>2. f[k - 1] = g[k - 1]
    BY <1>2, <2>1
  <2> QED BY <1>1, <1>2, <1>3, <1>4, <1>6, <2>2
<1> QED BY <1>5, <1>6

\* The function that FlattenSeq() defines by recursion exists: it can be
\* extended by one element.
LEMMA FlatNext ==
  ASSUME NEW S, NEW ss \in Seq(S), NEW s \in S, NEW f, IsFlat(f, ss)
  PROVE  \E g : IsFlat(g, Append(ss, s))
<1>1. PICK n \in Nat : n = Len(ss)
  OBVIOUS
<1>2. PICK tt : tt = Append(ss, s)
  OBVIOUS
<1>3. Len(tt) = n + 1 /\ tt[n + 1] = s /\ \A k \in 1..n : tt[k] = ss[k]
  BY <1>1, <1>2
<1>4. PICK x : x = IF n = 0 THEN s ELSE f[n] \o s
  OBVIOUS
<1>5. PICK g : g = [k \in 1..(n + 1) |-> IF k = n + 1 THEN x ELSE f[k]]
  OBVIOUS
<1>6. ASSUME NEW k \in 1..(n + 1)
      PROVE  g[k] = IF k = 1 THEN tt[k] ELSE g[k - 1] \o tt[k]
  <2>1. CASE k = n + 1
    <3>1. g[k] = x /\ tt[k] = s
      BY <1>3, <1>5, <2>1
    <3>2. CASE n = 0
      BY <1>4, <2>1, <3>1, <3>2
    <3>3. CASE n # 0
      <4>1. k # 1 /\ k - 1 = n /\ n \in 1..(n + 1) /\ n # n + 1
        BY <2>1, <3>3
      <4>2. g[n] = f[n]
        BY <1>5, <4>1
      <4> QED BY <1>4, <3>1, <3>3, <4>1, <4>2
    <3> QED BY <3>2, <3>3
  <2>2. CASE k # n + 1
    <3>1. k \in 1..n /\ g[k] = f[k]
      BY <1>5, <2>2
    <3>2. f[k] = IF k = 1 THEN ss[k] ELSE f[k - 1] \o ss[k]
      BY <1>1, <3>1 DEF IsFlat
    <3>3. k # 1 => g[k - 1] = f[k - 1]
      BY <1>5, <3>1
    <3> QED BY <1>3, <3>1, <3>2, <3>3
  <2> QED BY <2>1, <2>2
<1>7. g = [k \in 1..(n + 1) |-> IF k = 1 THEN tt[k] ELSE g[k - 1] \o tt[k]]
  <2>1. g = [k \in 1..(n + 1) |-> g[k]]
    BY <1>5
  <2> QED BY <1>6, <2>1
<1>8. IsFlat(g, tt)
  BY <1>3, <1>7 DEF IsFlat
<1> QED BY <1>2, <1>8

\* It exists, hence for every sequence of sequences.
LEMMA FlatExists ==
  ASSUME NEW S, NEW ss \in Seq(S)
  PROVE  \E f : IsFlat(f, ss)
<1> DEFINE T == {tt \in Seq(S) : \E f : IsFlat(f, tt)}
<1>1. << >> \in T
  <2>1. PICK f : f = [k \in {} |-> << >>]
    OBVIOUS
  <2>2. f = [k \in 1..Len(<< >>) |-> IF k = 1 THEN << >>[k] ELSE f[k - 1] \o << >>[k]]
    BY <2>1
  <2>3. IsFlat(f, << >>)
    BY <2>2 DEF IsFlat
  <2> QED BY <2>3
<1>2. \A tt \in Seq(S), s \in S : tt \in T => Append(tt, s) \in T
  BY FlatNext
<1>3. Seq(S) \subseteq T
  <2> HIDE DEF T
  <2> QED BY <1>1, <1>2, PrefixInduction
<1> QED BY <1>3

\* FlattenSeq() is its last value.
LEMMA FlattenIs ==
  ASSUME NEW S, NEW ss \in Seq(S), ss # << >>
  PROVE  \E f : IsFlat(f, ss) /\ FlattenSeq(ss) = f[Len(ss)]
<1> DEFINE f == CHOOSE f : IsFlat(f, ss)
<1>1. IsFlat(f, ss)
  BY FlatExists
<1>2. Len(ss) # 0
  OBVIOUS
<1>3. FlattenSeq(ss) = f[Len(ss)]
  BY <1>2 DEF FlattenSeq, IsFlat
<1> QED BY <1>1, <1>3

\* Nothing joined is nothing.
LEMMA FlattenEmpty == FlattenSeq(<< >>) = << >>
BY DEF FlattenSeq

\* FlattenSeq() adds what is appended at the end.
LEMMA FlattenAppend ==
  ASSUME NEW S, NEW ss \in Seq(Seq(S)), NEW s \in Seq(S)
  PROVE  FlattenSeq(Append(ss, s)) = FlattenSeq(ss) \o s
<1>1. PICK tt : tt = Append(ss, s)
  OBVIOUS
<1>2. PICK n \in Nat : n = Len(ss)
  OBVIOUS
<1>3. /\ tt \in Seq(Seq(S)) /\ tt # << >> /\ Len(tt) = n + 1 /\ tt[n + 1] = s
      /\ \A k \in 1..n : tt[k] = ss[k]
  BY <1>1, <1>2
<1>4. PICK g : IsFlat(g, tt) /\ FlattenSeq(tt) = g[n + 1]
  BY <1>3, FlattenIs
<1>5. g[n + 1] = IF n + 1 = 1 THEN s ELSE g[(n + 1) - 1] \o s
  <2>1. n + 1 \in 1..Len(tt)
    BY <1>3
  <2> QED BY <1>3, <1>4, <2>1 DEF IsFlat
<1>6. CASE n = 0
  <2>3. ss = << >>
    <3>1. Len(ss) = 0
      BY <1>2, <1>6
    <3> QED BY <3>1
  <2>1. FlattenSeq(ss) = << >>
    BY <2>3, FlattenEmpty
  <2>2. << >> \o s = s
    OBVIOUS
  <2> QED BY <1>1, <1>4, <1>5, <1>6, <2>1, <2>2
<1>7. CASE n # 0
  <2>1. PICK f : IsFlat(f, ss) /\ FlattenSeq(ss) = f[n]
    BY <1>2, <1>7, FlattenIs
  <2>2. f[n] = g[n]
    <3>1. Begins(ss, tt)
      BY <1>2, <1>3, <1>7 DEF Begins
    <3>2. SameUpTo(f, g, Len(ss))
      BY <1>4, <2>1, <3>1, FlatsAgree
    <3>3. n \in 1..n
      BY <1>7
    <3> QED BY <1>2, <3>2, <3>3 DEF SameUpTo
  <2>3. (n + 1) - 1 = n /\ n + 1 # 1
    BY <1>7
  <2> QED BY <1>1, <1>4, <1>5, <2>1, <2>2, <2>3
<1> QED BY <1>6, <1>7

-----------------------------------------------------------------------------

\* Encodings, message by message.

\* Nodes of any size and depth: encodings have no bounds.
NodeValues == Values \cup {""}
NodeType == [type : {"array", "blob", "other"}, depth : Int, size : Int,
             value : NodeValues]

\* A blob is a node.
LEMMA BlobType ==
  ASSUME NEW depth \in Int, NEW v \in Values
  PROVE  Blob(depth, v) \in NodeType
<1>1. v \in NodeValues
  BY DEF NodeValues
<1> QED BY <1>1 DEF NodeType, Blob

\* An aggregate is a node.
LEMMA ArrayType ==
  ASSUME NEW size \in Int, NEW depth \in Int
  PROVE  Array(size, depth) \in NodeType
<1>1. "" \in NodeValues
  BY DEF NodeValues
<1> QED BY <1>1 DEF NodeType, Array

\* Nodes joined are nodes; stated for any set.
LEMMA FlattenType ==
  ASSUME NEW S, NEW ss \in Seq(Seq(S))
  PROVE  FlattenSeq(ss) \in Seq(S)
<1> DEFINE T == {tt \in Seq(Seq(S)) : FlattenSeq(tt) \in Seq(S)}
<1>1. << >> \in T
  <2>1. << >> \in Seq(S) /\ << >> \in Seq(Seq(S))
    OBVIOUS
  <2> QED BY <2>1, FlattenEmpty
<1>2. ASSUME NEW tt \in Seq(Seq(S)), NEW s \in Seq(S), tt \in T
      PROVE  Append(tt, s) \in T
  <2>1. FlattenSeq(Append(tt, s)) = FlattenSeq(tt) \o s
    BY FlattenAppend
  <2>2. FlattenSeq(tt) \in Seq(S)
    BY <1>2
  <2>3. FlattenSeq(tt) \o s \in Seq(S) /\ Append(tt, s) \in Seq(Seq(S))
    BY <2>2
  <2> QED BY <2>1, <2>3
<1>3. PICK SS : SS = Seq(S)
  OBVIOUS
<1>4. Seq(SS) \subseteq T
  <2> HIDE DEF T
  <2> QED BY <1>1, <1>2, <1>3, PrefixInduction
<1> QED BY <1>3, <1>4

\* tt is ss and e behind it; n is the length of ss.
LongerByOne(tt, ss, e, n) ==
  tt = [k \in 1..(n + 1) |-> IF k = n + 1 THEN e ELSE ss[k]]

\* That is Append().
LEMMA AppendIs ==
  ASSUME NEW S, NEW ss \in Seq(S), NEW e \in S,
         NEW tt, NEW n \in Nat, n = Len(ss), LongerByOne(tt, ss, e, n)
  PROVE  tt = Append(ss, e)
<1> USE DEF LongerByOne
<1>1. PICK uu : uu = Append(ss, e)
  OBVIOUS
<1>2. /\ uu \in Seq(S) /\ Len(uu) = n + 1 /\ uu[n + 1] = e
      /\ \A k \in 1..n : uu[k] = ss[k]
  BY <1>1
<1>3. tt \in [1..(n + 1) -> S]
  OBVIOUS
<1>4. tt \in Seq(S) /\ Len(tt) = n + 1
  BY <1>3
<1>5. \A k \in 1..(n + 1) : tt[k] = uu[k]
  BY <1>2
<1>6. tt = uu
  BY <1>2, <1>4, <1>5
<1> QED BY <1>1, <1>6

\* The messages of a response.
Parts(b) == FlattenSeq([k \in DOMAIN b |-> EncodeMessage(b[k])])

\* A message is five nodes.
LEMMA MessageType ==
  ASSUME NEW m \in Message
  PROVE  /\ EncodeMessage(m) \in Seq(NodeType)
         /\ EncodeMessage(m) =
              <<Array(2, 1), Blob(2, m.id), Array(2, 2), Blob(3, "payload"),
                Blob(3, m.payload)>>
<1>1. m.id \in Values /\ m.payload \in Values /\ "payload" \in Values
  BY DEF Message, Values
<1>2. /\ Array(2, 1) \in NodeType /\ Array(2, 2) \in NodeType
      /\ Blob(2, m.id) \in NodeType /\ Blob(3, "payload") \in NodeType
      /\ Blob(3, m.payload) \in NodeType
  <2>1. \A depth \in Int : Array(2, depth) \in NodeType
    BY ArrayType
  <2>2. \A depth \in Int, v \in Values : Blob(depth, v) \in NodeType
    BY BlobType
  <2>3. Array(2, 1) \in NodeType /\ Array(2, 2) \in NodeType
    BY <2>1
  <2>4. /\ Blob(2, m.id) \in NodeType /\ Blob(3, "payload") \in NodeType
        /\ Blob(3, m.payload) \in NodeType
    BY <1>1, <2>2
  <2> QED BY <2>3, <2>4
<1>3. PICK a, b, c, d, e : /\ a = Array(2, 1) /\ b = Blob(2, m.id) /\ c = Array(2, 2)
                           /\ d = Blob(3, "payload") /\ e = Blob(3, m.payload)
  OBVIOUS
<1>4. <<a, b, c, d, e>> \in Seq(NodeType)
  BY <1>2, <1>3
<1> QED BY <1>3, <1>4 DEF EncodeMessage

\* A message more.
LEMMA PartsNext ==
  ASSUME NEW b \in Seq(Message), NEW m \in Message
  PROVE  Parts(Append(b, m)) = Parts(b) \o EncodeMessage(m)
<1>1. PICK c : c = Append(b, m)
  OBVIOUS
<1>2. PICK n \in Nat : n = Len(b)
  OBVIOUS
<1>3. /\ DOMAIN b = 1..n /\ DOMAIN c = 1..(n + 1) /\ c[n + 1] = m
      /\ \A k \in 1..n : c[k] = b[k] /\ b[k] \in Message
  BY <1>1, <1>2
<1>4. PICK ss : ss = [k \in DOMAIN b |-> EncodeMessage(b[k])]
  OBVIOUS
<1>5. PICK tt : tt = [k \in DOMAIN c |-> EncodeMessage(c[k])]
  OBVIOUS
<1>6. PICK e : e = EncodeMessage(m)
  OBVIOUS
<1>7. e \in Seq(NodeType)
  BY <1>6, MessageType
<1>8. ss \in [1..n -> Seq(NodeType)]
  BY <1>3, <1>4, MessageType
<1>9. ss \in Seq(Seq(NodeType)) /\ Len(ss) = n
  BY <1>8
<1>10. tt = Append(ss, e)
  <2>3. \A k \in 1..(n + 1) : tt[k] = IF k = n + 1 THEN e ELSE ss[k]
    <3> SUFFICES ASSUME NEW k \in 1..(n + 1)
                 PROVE  tt[k] = IF k = n + 1 THEN e ELSE ss[k]
      OBVIOUS
    <3>1. tt[k] = EncodeMessage(c[k])
      BY <1>3, <1>5
    <3>2. CASE k = n + 1
      BY <1>3, <1>6, <3>1, <3>2
    <3>3. CASE k # n + 1
      <4>1. k \in 1..n
        BY <3>3
      <4> QED BY <1>3, <1>4, <3>1, <3>3, <4>1
    <3> QED BY <3>2, <3>3
  <2>4. tt = [k \in 1..(n + 1) |-> tt[k]]
    BY <1>3, <1>5
  <2>5. LongerByOne(tt, ss, e, n)
    BY <2>3, <2>4 DEF LongerByOne
  <2>6. PICK SS : SS = Seq(NodeType)
    OBVIOUS
  <2>7. ss \in Seq(SS) /\ e \in SS
    BY <1>7, <1>9, <2>6
  <2> QED BY <1>9, <2>5, <2>7, AppendIs
<1>11. FlattenSeq(tt) = FlattenSeq(ss) \o e
  BY <1>7, <1>9, <1>10, FlattenAppend
<1> QED BY <1>1, <1>4, <1>5, <1>6, <1>11 DEF Parts

\* The messages of a response are nodes.
LEMMA PartsType ==
  ASSUME NEW b \in Seq(Message)
  PROVE  Parts(b) \in Seq(NodeType)
<1>1. PICK ss : ss = [k \in DOMAIN b |-> EncodeMessage(b[k])]
  OBVIOUS
<1>2. ss \in [1..Len(b) -> Seq(NodeType)]
  BY <1>1, MessageType
<1>3. ss \in Seq(Seq(NodeType))
  BY <1>2
<1> QED BY <1>1, <1>3, FlattenType DEF Parts

\* A response without messages has only its header.
LEMMA PartsEmpty == Parts(<< >>) = << >>
<1>1. [k \in DOMAIN << >> |-> EncodeMessage(<< >>[k])] = << >>
  OBVIOUS
<1> QED BY <1>1, FlattenEmpty DEF Parts

\* A response is its header and its messages.
LEMMA BatchIs ==
  ASSUME NEW b \in Seq(Message)
  PROVE  /\ EncodeBatch(b) = <<Array(Len(b), 0)>> \o Parts(b)
         /\ EncodeBatch(b) \in Seq(NodeType)
         /\ <<Array(Len(b), 0)>> \in Seq(NodeType)
<1>1. EncodeBatch(b) = <<Array(Len(b), 0)>> \o Parts(b)
  BY DEF EncodeBatch, Parts
<1>2. Array(Len(b), 0) \in NodeType
  BY ArrayType
<1>3. <<Array(Len(b), 0)>> \in Seq(NodeType)
  <2>1. PICK a \in NodeType : a = Array(Len(b), 0)
    BY <1>2
  <2> QED BY <2>1
<1>4. EncodeBatch(b) \in Seq(NodeType)
  BY <1>1, <1>3, PartsType
<1> QED BY <1>1, <1>3, <1>4

\* A response more.
LEMMA EncodeNext ==
  ASSUME NEW bs \in Seq(Seq(Message)), NEW b \in Seq(Message)
  PROVE  Encode(Append(bs, b)) = Encode(bs) \o EncodeBatch(b)
<1>1. PICK c : c = Append(bs, b)
  OBVIOUS
<1>2. PICK n \in Nat : n = Len(bs)
  OBVIOUS
<1>3. /\ DOMAIN bs = 1..n /\ DOMAIN c = 1..(n + 1) /\ c[n + 1] = b
      /\ \A k \in 1..n : c[k] = bs[k] /\ bs[k] \in Seq(Message)
  BY <1>1, <1>2
<1>4. PICK ss : ss = [k \in DOMAIN bs |-> EncodeBatch(bs[k])]
  OBVIOUS
<1>5. PICK tt : tt = [k \in DOMAIN c |-> EncodeBatch(c[k])]
  OBVIOUS
<1>6. PICK e : e = EncodeBatch(b)
  OBVIOUS
<1>7. e \in Seq(NodeType)
  BY <1>6, BatchIs
<1>8. ss \in [1..n -> Seq(NodeType)]
  BY <1>3, <1>4, BatchIs
<1>9. ss \in Seq(Seq(NodeType)) /\ Len(ss) = n
  BY <1>8
<1>10. tt = Append(ss, e)
  <2>3. \A k \in 1..(n + 1) : tt[k] = IF k = n + 1 THEN e ELSE ss[k]
    <3> SUFFICES ASSUME NEW k \in 1..(n + 1)
                 PROVE  tt[k] = IF k = n + 1 THEN e ELSE ss[k]
      OBVIOUS
    <3>1. tt[k] = EncodeBatch(c[k])
      BY <1>3, <1>5
    <3>2. CASE k = n + 1
      BY <1>3, <1>6, <3>1, <3>2
    <3>3. CASE k # n + 1
      <4>1. k \in 1..n
        BY <3>3
      <4> QED BY <1>3, <1>4, <3>1, <3>3, <4>1
    <3> QED BY <3>2, <3>3
  <2>4. tt = [k \in 1..(n + 1) |-> tt[k]]
    BY <1>3, <1>5
  <2>5. LongerByOne(tt, ss, e, n)
    BY <2>3, <2>4 DEF LongerByOne
  <2>6. PICK SS : SS = Seq(NodeType)
    OBVIOUS
  <2>7. ss \in Seq(SS) /\ e \in SS
    BY <1>7, <1>9, <2>6
  <2> QED BY <1>9, <2>5, <2>7, AppendIs
<1>11. FlattenSeq(tt) = FlattenSeq(ss) \o e
  BY <1>7, <1>9, <1>10, FlattenAppend
<1> QED BY <1>1, <1>4, <1>5, <1>6, <1>11 DEF Encode

\* An encoding consists of nodes.
LEMMA EncodeType ==
  ASSUME NEW bs \in Seq(Seq(Message))
  PROVE  Encode(bs) \in Seq(NodeType)
<1>1. PICK ss : ss = [k \in DOMAIN bs |-> EncodeBatch(bs[k])]
  OBVIOUS
<1>2. ss \in [1..Len(bs) -> Seq(NodeType)]
  <2>1. DOMAIN bs = 1..Len(bs) /\ \A k \in 1..Len(bs) : bs[k] \in Seq(Message)
    OBVIOUS
  <2>2. \A k \in 1..Len(bs) : EncodeBatch(bs[k]) \in Seq(NodeType)
    BY <2>1, BatchIs
  <2> QED BY <1>1, <2>1, <2>2
<1>3. ss \in Seq(Seq(NodeType))
  BY <1>2
<1> QED BY <1>1, <1>3, FlattenType DEF Encode

\* No responses are no nodes.
LEMMA EncodeEmpty == Encode(<< >>) = << >>
<1>1. [k \in DOMAIN << >> |-> EncodeBatch(<< >>[k])] = << >>
  OBVIOUS
<1> QED BY <1>1, FlattenEmpty DEF Encode

-----------------------------------------------------------------------------

\* What is parsed is what was sent.

\* Unsized(), for one node.
UnsizedNode(node) ==
  IF node.depth = 0 THEN [node EXCEPT !.size = 0] ELSE node

\* Unsized(), by it.
UnsizedSeq(nodes) == [k \in DOMAIN nodes |-> UnsizedNode(nodes[k])]

\* It is a node.
LEMMA UnsizedNodeType ==
  ASSUME NEW node \in NodeType
  PROVE  UnsizedNode(node) \in NodeType
BY DEF UnsizedNode, NodeType

\* The two are the same.
LEMMA UnsizedIs == ASSUME NEW s PROVE Unsized(s) = UnsizedSeq(s)
BY DEF Unsized, UnsizedSeq, UnsizedNode

\* Unsized() keeps the nodes apart from the sizes.
LEMMA UnsizedType ==
  ASSUME NEW s \in Seq(NodeType)
  PROVE  /\ Unsized(s) \in Seq(NodeType)
         /\ Len(Unsized(s)) = Len(s)
         /\ \A k \in 1..Len(s) : Unsized(s)[k] = UnsizedNode(s[k])
<1>1. PICK u : u = UnsizedSeq(s)
  OBVIOUS
<1>2. PICK n \in Nat : n = Len(s)
  OBVIOUS
<1>3. DOMAIN s = 1..n /\ \A k \in 1..n : s[k] \in NodeType
  BY <1>2
<1>4. u = [k \in 1..n |-> UnsizedNode(s[k])]
  BY <1>1, <1>3 DEF UnsizedSeq
<1>5. \A k \in 1..n : UnsizedNode(s[k]) \in NodeType
  BY <1>3, UnsizedNodeType
<1>6. u \in [1..n -> NodeType]
  BY <1>4, <1>5
<1>7. u \in Seq(NodeType) /\ Len(u) = n
  BY <1>6
<1> QED BY <1>1, <1>2, <1>4, <1>7, UnsizedIs

\* What \o does, with names for the lengths.
LEMMA Joined ==
  ASSUME NEW S, NEW s \in Seq(S), NEW t \in Seq(S),
         NEW m \in Nat, NEW n \in Nat, m = Len(s), n = Len(t),
         NEW v, v = s \o t
  PROVE  /\ v \in Seq(S) /\ Len(v) = m + n
         /\ \A k \in 1..m : v[k] = s[k]
         /\ \A k \in (m + 1)..(m + n) : v[k] = t[k - m]
OBVIOUS

\* Node by node.
LEMMA UnsizedJoin ==
  ASSUME NEW s \in Seq(NodeType), NEW t \in Seq(NodeType)
  PROVE  Unsized(s \o t) = Unsized(s) \o Unsized(t)
<1>1. PICK m \in Nat, n \in Nat : m = Len(s) /\ n = Len(t)
  OBVIOUS
<1>2. PICK st : st = s \o t
  OBVIOUS
<1>3. /\ st \in Seq(NodeType) /\ Len(st) = m + n
      /\ \A k \in 1..m : st[k] = s[k]
      /\ \A k \in (m + 1)..(m + n) : st[k] = t[k - m]
  BY <1>1, <1>2, Joined
<1>4. PICK us : us = Unsized(s)
  OBVIOUS
<1>5. us \in Seq(NodeType) /\ Len(us) = m /\ \A k \in 1..m : us[k] = UnsizedNode(s[k])
  BY <1>1, <1>4, UnsizedType
<1>6. PICK ut : ut = Unsized(t)
  OBVIOUS
<1>7. ut \in Seq(NodeType) /\ Len(ut) = n /\ \A k \in 1..n : ut[k] = UnsizedNode(t[k])
  BY <1>1, <1>6, UnsizedType
<1>8. PICK u : u = Unsized(st)
  OBVIOUS
<1>9. /\ u \in Seq(NodeType) /\ Len(u) = m + n
      /\ \A k \in 1..(m + n) : u[k] = UnsizedNode(st[k])
  BY <1>3, <1>8, UnsizedType
<1>10. PICK v : v = us \o ut
  OBVIOUS
<1>11. /\ v \in Seq(NodeType) /\ Len(v) = m + n
       /\ \A k \in 1..m : v[k] = us[k]
       /\ \A k \in (m + 1)..(m + n) : v[k] = ut[k - m]
  <2>1. us \in Seq(NodeType) /\ m = Len(us)
    BY <1>5
  <2>2. ut \in Seq(NodeType) /\ n = Len(ut)
    BY <1>7
  <2> QED BY <1>10, <2>1, <2>2, Joined
<1>12. ASSUME NEW k \in 1..(m + n) PROVE u[k] = v[k]
  <2>1. CASE k <= m
    <3>1. k \in 1..m
      BY <2>1
    <3> QED BY <1>3, <1>5, <1>9, <1>11, <3>1
  <2>2. CASE ~(k <= m)
    <3>1. k \in (m + 1)..(m + n) /\ k - m \in 1..n
      BY <2>2
    <3> QED BY <1>3, <1>7, <1>9, <1>11, <3>1
  <2> QED BY <2>1, <2>2
<1>13. u = v
  BY <1>9, <1>11, <1>12
<1> QED BY <1>2, <1>4, <1>6, <1>8, <1>10, <1>13

\* Of one node.
LEMMA UnsizedOne ==
  ASSUME NEW node \in NodeType
  PROVE  Unsized(<<node>>) = <<UnsizedNode(node)>>
<1>1. PICK s : s = <<node>>
  OBVIOUS
<1>2. s \in Seq(NodeType) /\ Len(s) = 1 /\ s[1] = node
  BY <1>1
<1>3. PICK u : u = Unsized(s)
  OBVIOUS
<1>4. u \in Seq(NodeType) /\ Len(u) = 1 /\ u[1] = UnsizedNode(node)
  BY <1>2, <1>3, UnsizedType
<1>5. u = <<UnsizedNode(node)>>
  BY <1>4
<1> QED BY <1>1, <1>3, <1>5

\* A node more on both sides.
LEMMA UnsizedAppend ==
  ASSUME NEW s \in Seq(NodeType), NEW node \in NodeType
  PROVE  Unsized(Append(s, node)) = Unsized(s) \o <<UnsizedNode(node)>>
<1>1. <<node>> \in Seq(NodeType) /\ Append(s, node) = s \o <<node>>
  OBVIOUS
<1> QED BY <1>1, UnsizedJoin, UnsizedOne

\* Any other node is a node, too.
LEMMA OtherType == Other \in NodeType
<1>1. "" \in NodeValues
  BY DEF NodeValues
<1>2. PICK zero \in Int : zero = 0
  OBVIOUS
<1>3. Other = [type |-> "other", depth |-> zero, size |-> zero, value |-> ""]
  BY <1>2 DEF Other
<1> QED BY <1>1, <1>3 DEF NodeType

\* The nodes of the input are nodes.
LEMMA NodesAreNodes == Nodes \subseteq NodeType
<1> SUFFICES ASSUME NEW node \in Nodes PROVE node \in NodeType
  OBVIOUS
<1>1. CASE node \in {Array(size, depth) : size \in 0..MaxSize, depth \in 0..MaxDepth}
  <2>1. PICK size \in 0..MaxSize, depth \in 0..MaxDepth : node = Array(size, depth)
    BY <1>1
  <2>2. size \in Int /\ depth \in Int
    OBVIOUS
  <2> QED BY <2>1, <2>2, ArrayType
<1>2. CASE node \in {Blob(depth, value) : depth \in 0..MaxDepth, value \in Values}
  <2>1. PICK depth \in 0..MaxDepth, value \in Values : node = Blob(depth, value)
    BY <1>2
  <2>2. depth \in Int
    OBVIOUS
  <2> QED BY <2>1, <2>2, BlobType
<1>3. CASE node = Other
  BY <1>3, OtherType
<1> QED BY <1>1, <1>2, <1>3 DEF Nodes

\* If f stands for enc and bg, then g stands for enc and ch.
Grows(f, g, enc, bg, ch) ==
  Unsized(f) = Unsized(enc \o bg) => Unsized(g) = Unsized(enc \o ch)

\* A node more on both sides that is the same but for its size.
LEMMA Grow ==
  ASSUME NEW f \in Seq(NodeType), NEW enc \in Seq(NodeType), NEW bg \in Seq(NodeType),
         NEW node \in NodeType, NEW exp \in NodeType,
         UnsizedNode(node) = UnsizedNode(exp)
  PROVE  Grows(f, Append(f, node), enc, bg, Append(bg, exp))
<1> SUFFICES ASSUME Unsized(f) = Unsized(enc \o bg)
             PROVE  Unsized(Append(f, node)) = Unsized(enc \o Append(bg, exp))
  BY DEF Grows
<1>1. PICK eb \in Seq(NodeType) : eb = enc \o bg
  <2>1. enc \o bg \in Seq(NodeType)
    OBVIOUS
  <2> QED BY <2>1
<1>2. enc \o Append(bg, exp) = Append(eb, exp)
  BY <1>1
<1>3. Unsized(Append(f, node)) = Unsized(f) \o <<UnsizedNode(node)>>
  BY UnsizedAppend
<1>4. Unsized(Append(eb, exp)) = Unsized(eb) \o <<UnsizedNode(exp)>>
  BY UnsizedAppend
<1> QED BY <1>1, <1>2, <1>3, <1>4

\* A message more of the last batch.
AddsToLast(batches, added, m) ==
  \E rest \in Seq(Seq(Message)), b \in Seq(Message) :
    batches = Append(rest, b) /\ added = Append(rest, Append(b, m))

\* res.back().push_back(m), seen as an Append() to the last batch.
LEMMA AddedLast ==
  ASSUME NEW batches \in Seq(Seq(Message)), batches # << >>,
         NEW m \in Message, NEW added,
         added = [batches EXCEPT ![Len(batches)] = Append(@, m)]
  PROVE  AddsToLast(batches, added, m)
<1>1. PICK n \in Nat : n + 1 = Len(batches)
  <2>1. Len(batches) \in Nat /\ Len(batches) # 0
    OBVIOUS
  <2>2. Len(batches) - 1 \in Nat /\ (Len(batches) - 1) + 1 = Len(batches)
    BY <2>1
  <2> QED BY <2>2
<1>2. PICK SS : SS = Seq(Message)
  OBVIOUS
<1>3. batches \in Seq(SS)
  BY <1>2
<1>4. /\ DOMAIN batches = 1..(n + 1) /\ n + 1 \in 1..(n + 1)
      /\ \A k \in 1..(n + 1) : batches[k] \in SS
  BY <1>1, <1>3
<1>5. PICK b \in SS : b = batches[n + 1]
  BY <1>4
<1>6. PICK bm \in SS : bm = Append(b, m)
  <2>1. Append(b, m) \in SS
    BY <1>2, <1>5
  <2> QED BY <2>1
<1>7. PICK rest : rest = [k \in 1..n |-> batches[k]]
  OBVIOUS
<1>8. rest \in [1..n -> SS]
  BY <1>4, <1>7
<1>9. rest \in Seq(SS) /\ Len(rest) = n
  BY <1>8
<1>10. batches = Append(rest, b)
  <2>1. batches = [k \in 1..(n + 1) |-> batches[k]]
    BY <1>3, <1>4
  <2>2. ASSUME NEW k \in 1..(n + 1)
        PROVE  batches[k] = IF k = n + 1 THEN b ELSE rest[k]
    <3>1. CASE k = n + 1
      BY <1>5, <3>1
    <3>2. CASE k # n + 1
      <4>1. k \in 1..n
        BY <3>2
      <4> QED BY <1>7, <3>2, <4>1
    <3> QED BY <3>1, <3>2
  <2>3. LongerByOne(batches, rest, b, n)
    BY <2>1, <2>2 DEF LongerByOne
  <2> QED BY <1>9, <2>3, AppendIs
<1>11. added = Append(rest, bm)
  <2>1. added = [k \in 1..(n + 1) |-> IF k = n + 1 THEN bm ELSE batches[k]]
    BY <1>1, <1>4, <1>5, <1>6
  <2>2. ASSUME NEW k \in 1..(n + 1)
        PROVE  added[k] = IF k = n + 1 THEN bm ELSE rest[k]
    <3>1. CASE k = n + 1
      BY <2>1, <3>1
    <3>2. CASE k # n + 1
      <4>1. k \in 1..n
        BY <3>2
      <4> QED BY <1>7, <2>1, <3>2, <4>1
    <3> QED BY <3>1, <3>2
  <2>3. added = [k \in 1..(n + 1) |-> added[k]]
    BY <2>1
  <2>4. LongerByOne(added, rest, bm, n)
    BY <2>2, <2>3 DEF LongerByOne
  <2> QED BY <1>9, <2>4, AppendIs
<1> QED BY <1>2, <1>5, <1>6, <1>9, <1>10, <1>11 DEF AddsToLast

\* \o is associative.
LEMMA JoinAssoc ==
  ASSUME NEW S, NEW s \in Seq(S), NEW t \in Seq(S), NEW u \in Seq(S)
  PROVE  (s \o t) \o u = s \o (t \o u)
OBVIOUS

\* The header of a response may be counted to what is before it.
LEMMA JoinAround ==
  ASSUME NEW S, NEW s \in Seq(S), NEW x \in S, NEW t \in Seq(S)
  PROVE  s \o (<<x>> \o t) = Append(s, x) \o t
<1>1. Append(s, x) = s \o <<x>> /\ <<x>> \in Seq(S)
  OBVIOUS
<1> QED BY <1>1, JoinAssoc

\* Headers are the same but for their sizes.
LEMMA UnsizedHeader ==
  ASSUME NEW i \in Int, NEW j \in Int
  PROVE  UnsizedNode(Array(i, 0)) = UnsizedNode(Array(j, 0))
<1>1. ASSUME NEW k \in Int
      PROVE  UnsizedNode(Array(k, 0))
               = [type |-> "array", depth |-> 0, size |-> 0, value |-> ""]
  BY DEF UnsizedNode, Array
<1> QED BY <1>1

\* So the size of a response in the middle does not matter.
LEMMA HeadersAlike ==
  ASSUME NEW er \in Seq(NodeType), NEW p \in Seq(NodeType), NEW e \in Seq(NodeType),
         NEW g \in NodeType, NEW h \in NodeType, UnsizedNode(g) = UnsizedNode(h)
  PROVE  Unsized(er \o (<<g>> \o (p \o e))) = Unsized((er \o (<<h>> \o p)) \o e)
<1>1. p \o e \in Seq(NodeType) /\ Append(er, g) \in Seq(NodeType)
      /\ Append(er, h) \in Seq(NodeType)
  OBVIOUS
<1>2. er \o (<<g>> \o (p \o e)) = Append(er, g) \o (p \o e)
  BY <1>1, JoinAround
<1>3. er \o (<<h>> \o p) = Append(er, h) \o p
  BY JoinAround
<1>4. (Append(er, h) \o p) \o e = Append(er, h) \o (p \o e)
  <2>1. PICK l : l = Append(er, h)
    OBVIOUS
  <2>2. l \in Seq(NodeType)
    BY <1>1, <2>1
  <2>3. (l \o p) \o e = l \o (p \o e)
    BY <2>2, JoinAssoc
  <2> QED BY <2>1, <2>3
<1>5. Unsized(Append(er, g)) = Unsized(Append(er, h))
  <2>1. Unsized(Append(er, g)) = Unsized(er) \o <<UnsizedNode(g)>>
    BY UnsizedAppend
  <2>2. Unsized(Append(er, h)) = Unsized(er) \o <<UnsizedNode(h)>>
    BY UnsizedAppend
  <2> QED BY <2>1, <2>2
<1>6. Unsized(Append(er, g) \o (p \o e)) = Unsized(Append(er, g)) \o Unsized(p \o e)
  BY <1>1, UnsizedJoin
<1>7. Unsized(Append(er, h) \o (p \o e)) = Unsized(Append(er, h)) \o Unsized(p \o e)
  BY <1>1, UnsizedJoin
<1> QED BY <1>2, <1>3, <1>4, <1>5, <1>6, <1>7

\* What is counted of the messages is not compared.
LEMMA EncodeAdded ==
  ASSUME NEW rest \in Seq(Seq(Message)), NEW b \in Seq(Message), NEW m \in Message
  PROVE  Unsized(Encode(Append(rest, Append(b, m))))
           = Unsized(Encode(Append(rest, b)) \o EncodeMessage(m))
<1>1. PICK bm \in Seq(Message) : bm = Append(b, m)
  <2>1. Append(b, m) \in Seq(Message)
    OBVIOUS
  <2> QED BY <2>1
<1>2. PICK er \in Seq(NodeType) : er = Encode(rest)
  BY EncodeType
<1>3. PICK p \in Seq(NodeType) : p = Parts(b)
  BY PartsType
<1>4. PICK e \in Seq(NodeType) : e = EncodeMessage(m)
  BY MessageType
<1>5. Parts(bm) = p \o e
  BY <1>1, <1>3, <1>4, PartsNext
<1>6. PICK h \in NodeType : h = Array(Len(b), 0)
  BY ArrayType
<1>7. PICK g \in NodeType : g = Array(Len(bm), 0)
  BY ArrayType
<1>8. UnsizedNode(g) = UnsizedNode(h)
  <2>1. Len(b) \in Int /\ Len(bm) \in Int
    BY <1>1
  <2> QED BY <1>6, <1>7, <2>1, UnsizedHeader
<1>9. Encode(Append(rest, b)) = er \o (<<h>> \o p)
  BY <1>2, <1>3, <1>6, EncodeNext, BatchIs
<1>10. Encode(Append(rest, bm)) = er \o (<<g>> \o (p \o e))
  BY <1>2, <1>5, <1>7, EncodeNext, BatchIs
<1> QED BY <1>1, <1>2, <1>3, <1>4, <1>6, <1>7, <1>8, <1>9, <1>10, HeadersAlike

\* A node of the input, by its type.
LEMMA ArrayNode ==
  ASSUME NEW node \in Nodes, node.type = "array"
  PROVE  node.size \in Int /\ node.depth \in Int /\ node = Array(node.size, node.depth)
<1>1. CASE node \in {Array(size, depth) : size \in 0..MaxSize, depth \in 0..MaxDepth}
  <2>1. PICK size \in 0..MaxSize, depth \in 0..MaxDepth : node = Array(size, depth)
    BY <1>1
  <2>2. node.size = size /\ node.depth = depth
    BY <2>1 DEF Array
  <2> QED BY <2>1, <2>2
<1>2. CASE node \in {Blob(depth, value) : depth \in 0..MaxDepth, value \in Values}
  <2>1. PICK depth \in 0..MaxDepth, value \in Values : node = Blob(depth, value)
    BY <1>2
  <2>2. node.type = "blob"
    BY <2>1 DEF Blob
  <2> QED BY <2>2
<1>3. CASE node = Other
  BY <1>3 DEF Other
<1> QED BY <1>1, <1>2, <1>3 DEF Nodes

\* The same for blobs.
LEMMA BlobNode ==
  ASSUME NEW node \in Nodes, node.type = "blob"
  PROVE  /\ node.depth \in Int /\ node.value \in Values
         /\ node = Blob(node.depth, node.value)
<1>1. CASE node \in {Array(size, depth) : size \in 0..MaxSize, depth \in 0..MaxDepth}
  <2>1. PICK size \in 0..MaxSize, depth \in 0..MaxDepth : node = Array(size, depth)
    BY <1>1
  <2>2. node.type = "array"
    BY <2>1 DEF Array
  <2> QED BY <2>2
<1>2. CASE node \in {Blob(depth, value) : depth \in 0..MaxDepth, value \in Values}
  <2>1. PICK depth \in 0..MaxDepth, value \in Values : node = Blob(depth, value)
    BY <1>2
  <2>2. node.depth = depth /\ node.value = value
    BY <2>1 DEF Blob
  <2> QED BY <2>1, <2>2
<1>3. CASE node = Other
  BY <1>3 DEF Other
<1> QED BY <1>1, <1>2, <1>3 DEF Nodes

\* What Append() does, with a name for the length.
LEMMA AppendFacts ==
  ASSUME NEW S, NEW s \in Seq(S), NEW x \in S, NEW n \in Nat, n = Len(s),
         NEW u, u = Append(s, x)
  PROVE  /\ u \in Seq(S) /\ Len(u) = n + 1 /\ u[n + 1] = x
         /\ \A k \in 1..n : u[k] = s[k]
OBVIOUS

\* The nodes of a message are read one after another.
LEMMA AppendOne ==
  ASSUME NEW S, NEW a \in S, NEW n \in S
  PROVE  <<a>> \in Seq(S) /\ Append(<<a>>, n) = <<a, n>>
<1>1. PICK s : s = <<a>>
  OBVIOUS
<1>2. s \in Seq(S) /\ Len(s) = 1 /\ s[1] = a
  BY <1>1
<1>3. PICK u : u = Append(s, n)
  OBVIOUS
<1>4. u \in Seq(S) /\ Len(u) = 1 + 1 /\ u[1 + 1] = n /\ \A k \in 1..1 : u[k] = s[k]
  BY <1>2, <1>3, AppendFacts
<1>5. 1 \in 1..1
  OBVIOUS
<1>6. u \in Seq(S) /\ Len(u) = 2 /\ u[1] = a /\ u[2] = n
  BY <1>2, <1>4, <1>5
<1>7. u = <<a, n>>
  BY <1>6
<1> QED BY <1>1, <1>2, <1>3, <1>7

LEMMA AppendTwo ==
  ASSUME NEW S, NEW a \in S, NEW b \in S, NEW n \in S
  PROVE  <<a, b>> \in Seq(S) /\ Append(<<a, b>>, n) = <<a, b, n>>
<1>1. PICK s : s = <<a, b>>
  OBVIOUS
<1>2. s \in Seq(S) /\ Len(s) = 2 /\ s[1] = a /\ s[2] = b
  BY <1>1
<1>3. PICK u : u = Append(s, n)
  OBVIOUS
<1>4. u \in Seq(S) /\ Len(u) = 2 + 1 /\ u[2 + 1] = n /\ \A k \in 1..2 : u[k] = s[k]
  BY <1>2, <1>3, AppendFacts
<1>5. 1 \in 1..2 /\ 2 \in 1..2
  OBVIOUS
<1>6. u \in Seq(S) /\ Len(u) = 3 /\ u[1] = a /\ u[2] = b /\ u[3] = n
  BY <1>2, <1>4, <1>5
<1>7. u = <<a, b, n>>
  BY <1>6
<1> QED BY <1>1, <1>2, <1>3, <1>7

LEMMA AppendThree ==
  ASSUME NEW S, NEW a \in S, NEW b \in S, NEW c \in S, NEW n \in S
  PROVE  <<a, b, c>> \in Seq(S) /\ Append(<<a, b, c>>, n) = <<a, b, c, n>>
<1>1. PICK s : s = <<a, b, c>>
  OBVIOUS
<1>2. s \in Seq(S) /\ Len(s) = 3 /\ s[1] = a /\ s[2] = b /\ s[3] = c
  BY <1>1
<1>3. PICK u : u = Append(s, n)
  OBVIOUS
<1>4. u \in Seq(S) /\ Len(u) = 3 + 1 /\ u[3 + 1] = n /\ \A k \in 1..3 : u[k] = s[k]
  BY <1>2, <1>3, AppendFacts
<1>5. 1 \in 1..3 /\ 2 \in 1..3 /\ 3 \in 1..3
  OBVIOUS
<1>6. u \in Seq(S) /\ Len(u) = 4 /\ u[1] = a /\ u[2] = b /\ u[3] = c /\ u[4] = n
  BY <1>2, <1>4, <1>5
<1>7. u = <<a, b, c, n>>
  BY <1>6
<1> QED BY <1>1, <1>2, <1>3, <1>7

LEMMA AppendFour ==
  ASSUME NEW S, NEW a \in S, NEW b \in S, NEW c \in S, NEW d \in S, NEW n \in S
  PROVE  <<a, b, c, d>> \in Seq(S) /\ Append(<<a, b, c, d>>, n) = <<a, b, c, d, n>>
<1>1. PICK s : s = <<a, b, c, d>>
  OBVIOUS
<1>2. s \in Seq(S) /\ Len(s) = 4 /\ s[1] = a /\ s[2] = b /\ s[3] = c /\ s[4] = d
  BY <1>1
<1>3. PICK u : u = Append(s, n)
  OBVIOUS
<1>4. u \in Seq(S) /\ Len(u) = 4 + 1 /\ u[4 + 1] = n /\ \A k \in 1..4 : u[k] = s[k]
  BY <1>2, <1>3, AppendFacts
<1>5. 1 \in 1..4 /\ 2 \in 1..4 /\ 3 \in 1..4 /\ 4 \in 1..4
  OBVIOUS
<1>6. u \in Seq(S) /\ Len(u) = 5 /\ u[1] = a /\ u[2] = b /\ u[3] = c /\ u[4] = d /\ u[5] = n
  BY <1>2, <1>4, <1>5
<1>7. u = <<a, b, c, d, n>>
  BY <1>6
<1> QED BY <1>1, <1>2, <1>3, <1>7

\* The nodes f are these, but for the sizes of the responses.
Stands(f, e, b) == Unsized(f) = Unsized(e \o b)

\* A node of a message.
LEMMA NodeStands ==
  ASSUME NEW f \in Seq(NodeType), NEW e \in Seq(NodeType), NEW b \in Seq(NodeType),
         NEW node \in NodeType, Stands(f, e, b)
  PROVE  Stands(Append(f, node), e, Append(b, node))
BY Grow DEF Stands, Grows

\* A response begins.
LEMMA ResponseStands ==
  ASSUME NEW f \in Seq(NodeType), NEW bs \in Seq(Seq(Message)),
         NEW i \in Int, Stands(f, Encode(bs), << >>)
  PROVE  Stands(Append(f, Array(i, 0)), Encode(Append(bs, << >>)), << >>)
<1>1. PICK e \in Seq(NodeType) : e = Encode(bs)
  BY EncodeType
<1>2. PICK node \in NodeType : node = Array(i, 0)
  BY ArrayType
<1>3. PICK h \in NodeType : h = Array(0, 0)
  BY ArrayType
<1>4. UnsizedNode(node) = UnsizedNode(h)
  BY <1>2, <1>3, UnsizedHeader
<1>5. << >> \in Seq(NodeType) /\ << >> \in Seq(Message) /\ Len(<< >>) = 0
  OBVIOUS
<1>6. Unsized(Append(f, node)) = Unsized(e \o Append(<< >>, h))
  <2>1. Grows(f, Append(f, node), e, << >>, Append(<< >>, h))
    BY <1>1, <1>2, <1>3, <1>4, <1>5, Grow
  <2> QED BY <1>1, <2>1 DEF Stands, Grows
<1>7. Encode(Append(bs, << >>)) = e \o (<<h>> \o Parts(<< >>))
  BY <1>1, <1>3, <1>5, EncodeNext, BatchIs
<1>8. Encode(Append(bs, << >>)) \o << >> = e \o Append(<< >>, h)
  <2>1. <<h>> \o << >> = <<h>> /\ Append(<< >>, h) = <<h>> /\ <<h>> \in Seq(NodeType)
    BY <1>3
  <2>2. (e \o <<h>>) \in Seq(NodeType)
    BY <1>1, <2>1
  <2>3. (e \o <<h>>) \o << >> = e \o <<h>>
    BY <2>2
  <2> QED BY <1>7, <2>1, <2>3, PartsEmpty
<1> QED BY <1>2, <1>6, <1>8 DEF Stands

\* A message is complete.
LEMMA MessageStands ==
  ASSUME NEW f \in Seq(NodeType), NEW bs \in Seq(Seq(Message)), bs # << >>,
         NEW m \in Message, NEW added,
         added = [bs EXCEPT ![Len(bs)] = Append(@, m)],
         Stands(f, Encode(bs), EncodeMessage(m))
  PROVE  Stands(f, Encode(added), << >>)
<1>1. PICK rest \in Seq(Seq(Message)), b \in Seq(Message) :
        bs = Append(rest, b) /\ added = Append(rest, Append(b, m))
  <2>1. AddsToLast(bs, added, m)
    BY AddedLast
  <2> QED BY <2>1 DEF AddsToLast
<1>2. Unsized(Encode(added)) = Unsized(Encode(bs) \o EncodeMessage(m))
  <2>1. rest \in Seq(Seq(Message)) /\ b \in Seq(Message)
    BY <1>1
  <2>2. Unsized(Encode(Append(rest, Append(b, m))))
          = Unsized(Encode(Append(rest, b)) \o EncodeMessage(m))
    BY <2>1, EncodeAdded
  <2> QED BY <1>1, <2>2
<1>3. Encode(added) \in Seq(NodeType)
  <2>1. Append(b, m) \in Seq(Message)
    BY <1>1
  <2>2. PICK SS : SS = Seq(Message)
    OBVIOUS
  <2>3. Append(rest, Append(b, m)) \in Seq(SS)
    BY <1>1, <2>1, <2>2
  <2> QED BY <1>1, <2>2, <2>3, EncodeType
<1>4. Encode(added) \o << >> = Encode(added)
  BY <1>3
<1> QED BY <1>2, <1>4 DEF Stands

\* Begun(), state by state.
LEMMA BegunIs ==
  ASSUME NEW i
  PROVE  /\ Begun(i)["wants_level0_list"] = << >>
         /\ Begun(i)["wants_level0_or_entry_list"] = << >>
         /\ Begun(i)["wants_id"] = <<Array(2, 1)>>
         /\ Begun(i)["wants_attr_list"] = <<Array(2, 1), Blob(2, i)>>
         /\ Begun(i)["wants_key"] = <<Array(2, 1), Blob(2, i), Array(2, 2)>>
         /\ Begun(i)["wants_value"] =
              <<Array(2, 1), Blob(2, i), Array(2, 2), Blob(3, "payload")>>
BY DEF Begun

\* A round of the loop keeps account of the nodes: one case per state.
LEMMA FeedAccounted ==
  ASSUME IInv, Accounted, NEW node \in Nodes, Feed(node)
  PROVE  Accounted'
<1>1. result = "parsing" /\ fed' = Append(fed, node)
  BY DEF Feed
<1>2. /\ fed \in Seq(Nodes) /\ id \in Values \cup {"null"} /\ state \in States
      /\ res \in Seq(Seq(Message))
  BY DEF IInv, TypeOK
<1>3. Stands(fed, Encode(res), Begun(id)[state])
  BY <1>1 DEF Accounted, Stands
<1>4. fed \in Seq(NodeType) /\ node \in NodeType
  BY <1>2, NodesAreNodes
<1>5. Encode(res) \in Seq(NodeType)
  BY <1>2, EncodeType
<1>6. /\ Array(2, 1) \in NodeType /\ Array(2, 2) \in NodeType
      /\ Blob(3, "payload") \in NodeType
  <2>1. "payload" \in Values
    BY DEF Values
  <2> QED BY <2>1, ArrayType, BlobType
<1>7. ASSUME Reject PROVE Accounted'
  BY <1>1, <1>7 DEF Reject, Accounted
<1>8. ASSUME result' = result,
             Stands(Append(fed, node), Encode(res'), Begun(id')[state'])
      PROVE  Accounted'
  BY <1>1, <1>8 DEF Accounted, Stands
<1>9. CASE state \in {"wants_level0_list", "wants_level0_or_entry_list"}
           /\ node.type = "array" /\ node.depth = 0
  <2>1. /\ result' = result /\ res' = Append(res, << >>)
        /\ state' = "wants_level0_or_entry_list"
    BY <1>9 DEF Feed, Level0List, Level0OrEntryList, Id, AttrList, Key, Value, Accept
  <2>2. PICK i \in Int : node = Array(i, 0)
    BY <1>9, ArrayNode
  <2>3. Begun(id)[state] = << >> /\ Begun(id')[state'] = << >>
    BY <1>9, <2>1, BegunIs
  <2>4. Stands(Append(fed, node), Encode(Append(res, << >>)), << >>)
    BY <1>2, <1>3, <1>4, <2>2, <2>3, ResponseStands
  <2> QED BY <1>8, <2>1, <2>3, <2>4
<1>10. CASE state = "wants_level0_list" /\ ~(node.type = "array" /\ node.depth = 0)
  BY <1>7, <1>10 DEF Feed, Level0List, Level0OrEntryList, Id, AttrList, Key, Value
<1>11. ASSUME NEW b \in Seq(NodeType), Begun(id)[state] = b, result' = result,
              res' = res, Begun(id')[state'] = Append(b, node)
       PROVE  Accounted'
  <2>1. Stands(fed, Encode(res), b)
    BY <1>3, <1>11
  <2>2. Stands(Append(fed, node), Encode(res), Append(b, node))
    BY <1>4, <1>5, <2>1, NodeStands
  <2> QED BY <1>8, <1>11, <2>2
<1>12. CASE state = "wants_level0_or_entry_list"
            /\ ~(node.type = "array" /\ node.depth = 0)
  <2>1. \/ Reject
        \/ /\ Accept("wants_id", id, res)
           /\ node.type = "array" /\ node.depth = 1 /\ node.size = 2
    BY <1>12 DEF Feed, Level0List, Level0OrEntryList, Id, AttrList, Key, Value
  <2>2. ASSUME Accept("wants_id", id, res),
               node.type = "array", node.depth = 1, node.size = 2
        PROVE  Accounted'
    <3>1. state' = "wants_id" /\ id' = id /\ res' = res /\ result' = result
      BY <2>2 DEF Accept
    <3>2. node = Array(2, 1)
      BY <2>2, ArrayNode
    <3>3. Begun(id)[state] = << >> /\ Begun(id')[state'] = <<node>>
      BY <1>12, <3>1, <3>2, BegunIs
    <3>4. << >> \in Seq(NodeType) /\ Append(<< >>, node) = <<node>>
      BY <1>4
    <3> QED BY <1>11, <3>1, <3>3, <3>4
  <2> QED BY <1>7, <2>1, <2>2
<1>13. CASE state = "wants_id"
  <2>1. \/ Reject
        \/ /\ Accept("wants_attr_list", node.value, res)
           /\ node.type = "blob" /\ node.depth = 2
    BY <1>13 DEF Feed, Level0List, Level0OrEntryList, Id, AttrList, Key, Value
  <2>2. ASSUME Accept("wants_attr_list", node.value, res),
               node.type = "blob", node.depth = 2
        PROVE  Accounted'
    <3>1. /\ state' = "wants_attr_list" /\ id' = node.value
          /\ res' = res /\ result' = result
      BY <2>2 DEF Accept
    <3>2. node = Blob(2, node.value)
      BY <2>2, BlobNode
    <3>3. /\ Begun(id)[state] = <<Array(2, 1)>>
          /\ Begun(id')[state'] = <<Array(2, 1), node>>
      BY <1>13, <3>1, <3>2, BegunIs
    <3>4. /\ <<Array(2, 1)>> \in Seq(NodeType)
          /\ Append(<<Array(2, 1)>>, node) = <<Array(2, 1), node>>
      BY <1>4, <1>6, AppendOne
    <3> QED BY <1>11, <3>1, <3>3, <3>4
  <2> QED BY <1>7, <2>1, <2>2
<1>14. CASE state = "wants_attr_list"
  <2>1. \/ Reject
        \/ /\ Accept("wants_key", id, res)
           /\ node.type = "array" /\ node.depth = 2 /\ node.size = 2
    BY <1>14 DEF Feed, Level0List, Level0OrEntryList, Id, AttrList, Key, Value
  <2>2. ASSUME Accept("wants_key", id, res),
               node.type = "array", node.depth = 2, node.size = 2
        PROVE  Accounted'
    <3>1. state' = "wants_key" /\ id' = id /\ res' = res /\ result' = result
      BY <2>2 DEF Accept
    <3>2. node = Array(2, 2)
      BY <2>2, ArrayNode
    <3>3. /\ Begun(id)[state] = <<Array(2, 1), Blob(2, id)>>
          /\ Begun(id')[state'] = <<Array(2, 1), Blob(2, id), node>>
      BY <1>14, <3>1, <3>2, BegunIs
    <3>4. Blob(2, id) \in NodeType
      BY <1>2, <1>14, BlobType DEF IInv, DereferencesSafe
    <3>5. /\ <<Array(2, 1), Blob(2, id)>> \in Seq(NodeType)
          /\ Append(<<Array(2, 1), Blob(2, id)>>, node)
               = <<Array(2, 1), Blob(2, id), node>>
      BY <1>4, <1>6, <3>4, AppendTwo
    <3> QED BY <1>11, <3>1, <3>3, <3>5
  <2> QED BY <1>7, <2>1, <2>2
<1>15. CASE state = "wants_key"
  <2>1. \/ Reject
        \/ /\ Accept("wants_value", id, res)
           /\ node.type = "blob" /\ node.depth = 3 /\ node.value = "payload"
    BY <1>15 DEF Feed, Level0List, Level0OrEntryList, Id, AttrList, Key, Value
  <2>2. ASSUME Accept("wants_value", id, res),
               node.type = "blob", node.depth = 3, node.value = "payload"
        PROVE  Accounted'
    <3>1. state' = "wants_value" /\ id' = id /\ res' = res /\ result' = result
      BY <2>2 DEF Accept
    <3>2. node = Blob(3, "payload")
      BY <2>2, BlobNode
    <3>3. /\ Begun(id)[state] = <<Array(2, 1), Blob(2, id), Array(2, 2)>>
          /\ Begun(id')[state'] = <<Array(2, 1), Blob(2, id), Array(2, 2), node>>
      BY <1>15, <3>1, <3>2, BegunIs
    <3>4. Blob(2, id) \in NodeType
      BY <1>2, <1>15, BlobType DEF IInv, DereferencesSafe
    <3>5. /\ <<Array(2, 1), Blob(2, id), Array(2, 2)>> \in Seq(NodeType)
          /\ Append(<<Array(2, 1), Blob(2, id), Array(2, 2)>>, node)
               = <<Array(2, 1), Blob(2, id), Array(2, 2), node>>
      BY <1>4, <1>6, <3>4, AppendThree
    <3> QED BY <1>11, <3>1, <3>3, <3>5
  <2> QED BY <1>7, <2>1, <2>2
<1>16. CASE state = "wants_value"
  <2> DEFINE m == [id |-> id, payload |-> node.value]
             added == [res EXCEPT ![Len(res)] = Append(@, m)]
  <2>1. \/ Reject
        \/ /\ Accept("wants_level0_or_entry_list", "null", added)
           /\ node.type = "blob" /\ node.depth = 3 /\ node.value \in Payloads
    BY <1>16 DEF Feed, Level0List, Level0OrEntryList, Id, AttrList, Key, Value
  <2>2. ASSUME Accept("wants_level0_or_entry_list", "null", added),
               node.type = "blob", node.depth = 3, node.value \in Payloads
        PROVE  Accounted'
    <3>1. /\ state' = "wants_level0_or_entry_list" /\ res' = added
          /\ result' = result
      BY <2>2 DEF Accept
    <3>2. node = Blob(3, node.value)
      BY <2>2, BlobNode
    <3>3. /\ Begun(id)[state] = <<Array(2, 1), Blob(2, id), Array(2, 2), Blob(3, "payload")>>
          /\ Begun(id')[state'] = << >>
      BY <1>16, <3>1, BegunIs
    <3>4. id \in Values /\ res # << >>
      BY <1>2, <1>16 DEF IInv, DereferencesSafe
    <3>5. m \in Message /\ m.id = id /\ m.payload = node.value
      BY <2>2, <3>4 DEF Message
    <3>6. Blob(2, id) \in NodeType
      BY <3>4, BlobType
    <3>7. PICK b : b = Begun(id)[state]
      OBVIOUS
    <3>8. b \in Seq(NodeType)
      BY <1>6, <3>3, <3>6, <3>7
    <3>9. Append(b, node) = EncodeMessage(m)
      <4>1. EncodeMessage(m) = <<Array(2, 1), Blob(2, id), Array(2, 2),
                                 Blob(3, "payload"), node>>
        <5> HIDE DEF m
        <5> QED BY <3>2, <3>5, MessageType
      <4> QED BY <1>4, <1>6, <3>3, <3>6, <3>7, <4>1
    <3>10. Stands(Append(fed, node), Encode(res), EncodeMessage(m))
      BY <1>3, <1>4, <1>5, <3>7, <3>8, <3>9, NodeStands
    <3>11. Append(fed, node) \in Seq(NodeType)
      BY <1>4
    <3>12. Stands(Append(fed, node), Encode(added), << >>)
      <4> HIDE DEF m
      <4> QED BY <1>2, <3>4, <3>5, <3>10, <3>11, MessageStands
    <3> QED BY <1>8, <3>1, <3>3, <3>12
  <2> QED BY <1>7, <2>1, <2>2
<1> QED BY <1>2, <1>9, <1>10, <1>12, <1>13, <1>14, <1>15, <1>16 DEF States

\* So does every step.
LEMMA AccountedStep == IInv /\ Accounted /\ [Next]_vars => Accounted'
<1> SUFFICES ASSUME IInv, Accounted, [Next]_vars PROVE Accounted'
  OBVIOUS
<1>1. CASE \E node \in Nodes : Feed(node)
  BY <1>1, FeedAccounted
<1>2. CASE End
  <2>1. /\ result = "parsing" /\ UNCHANGED <<fed, state, id, res>>
        /\ result' = "ok"
              => state \in {"wants_level0_list", "wants_level0_or_entry_list"}
    BY <1>2 DEF End
  <2> QED BY <2>1 DEF Accounted
<1>3. CASE UNCHANGED vars
  BY <1>3 DEF vars, Accounted
<1> QED BY <1>1, <1>2, <1>3 DEF Next, Returned

\* At the beginning there is nothing to account for.
LEMMA AccountedInit == Init => Accounted
<1> SUFFICES ASSUME Init PROVE Accounted
  OBVIOUS
<1>1. Encode(res) \o Begun(id)[state] = << >>
  <2>1. << >> \o << >> = << >>
    OBVIOUS
  <2> QED BY <2>1, EncodeEmpty, BegunIs DEF Init
<1> QED BY <1>1 DEF Init, Accounted

\* The parser accounts for every node it has accepted: it is part of the
\* encoding of the batches built so far, or of the message begun.
THEOREM ReferenceInvariant == Spec => []ReferenceIInv
<1> QED BY AccountedInit, AccountedStep, ParserInvariant, PTL DEF Spec, ReferenceIInv

\* parse_room_history_batch() returns what was sent: an input it accepts, of any
\* length, is the encoding of its result, up to the sizes of the responses.
THEOREM WhatIsParsedIsSent == Spec => []ParsedIsSent
<1>1. IInv /\ Accounted => ParsedIsSent
  <2> SUFFICES ASSUME IInv, Accounted, result = "ok"
               PROVE  Unsized(fed) = Unsized(Encode(res))
    BY DEF ParsedIsSent
  <2>1. Begun(id)[state] = << >>
    BY BegunIs DEF Accounted
  <2>2. Encode(res) \in Seq(NodeType)
    BY EncodeType DEF IInv, TypeOK
  <2>3. Encode(res) \o << >> = Encode(res)
    BY <2>2
  <2> QED BY <2>1, <2>3 DEF Accounted
<1> QED BY <1>1, ReferenceInvariant, PTL DEF ReferenceIInv

-----------------------------------------------------------------------------

\* No answer is refused.

\* The parser goes from one state to the other at the node.
Goes(from, node, to) ==
  \/ /\ from \in {"wants_level0_list", "wants_level0_or_entry_list"}
     /\ node.type = "array" /\ node.depth = 0
     /\ to = "wants_level0_or_entry_list"
  \/ /\ from = "wants_level0_or_entry_list"
     /\ node.type = "array" /\ node.depth = 1 /\ node.size = 2
     /\ to = "wants_id"
  \/ /\ from = "wants_id"
     /\ node.type = "blob" /\ node.depth = 2
     /\ to = "wants_attr_list"
  \/ /\ from = "wants_attr_list"
     /\ node.type = "array" /\ node.depth = 2 /\ node.size = 2
     /\ to = "wants_key"
  \/ /\ from = "wants_key"
     /\ node.type = "blob" /\ node.depth = 3 /\ node.value = "payload"
     /\ to = "wants_value"
  \/ /\ from = "wants_value"
     /\ node.type = "blob" /\ node.depth = 3 /\ node.value \in Payloads
     /\ to = "wants_level0_or_entry_list"

\* st are the states before each of the nodes and after the last one.
Tracks(st, from, nodes, to) ==
  /\ st[1] = from /\ st[Len(nodes) + 1] = to
  /\ \A k \in 1..Len(nodes) : Goes(st[k], nodes[k], st[k + 1])

\* There are such states.
Runs(from, nodes, to) == \E st : Tracks(st, from, nodes, to)

\* Without nodes the parser stays where it is.
LEMMA RunsNowhere == ASSUME NEW s PROVE Runs(s, << >>, s)
<1>1. PICK st : st = [k \in {1} |-> s]
  OBVIOUS
<1>2. st[1] = s /\ Len(<< >>) + 1 = 1 /\ 1..Len(<< >>) = {}
  BY <1>1
<1>3. Tracks(st, s, << >>, s)
  BY <1>2 DEF Tracks
<1> QED BY <1>3 DEF Runs

\* One run after another.
LEMMA RunsOn ==
  ASSUME NEW r, NEW n1 \in Seq(NodeType), NEW s, NEW n2 \in Seq(NodeType), NEW t,
         Runs(r, n1, s), Runs(s, n2, t)
  PROVE  Runs(r, n1 \o n2, t)
<1>1. PICK s1 : Tracks(s1, r, n1, s)
  BY DEF Runs
<1>2. PICK s2 : Tracks(s2, s, n2, t)
  BY DEF Runs
<1>3. PICK m \in Nat, n \in Nat : m = Len(n1) /\ n = Len(n2)
  OBVIOUS
<1>4. PICK v : v = n1 \o n2
  OBVIOUS
<1>5. /\ Len(v) = m + n
      /\ \A k \in 1..m : v[k] = n1[k]
      /\ \A k \in (m + 1)..(m + n) : v[k] = n2[k - m]
  BY <1>3, <1>4, Joined
<1>6. PICK st : st = [k \in 1..(m + n + 1) |-> IF k <= m THEN s1[k] ELSE s2[k - m]]
  OBVIOUS
<1>7. \A k \in 1..m : st[k] = s1[k]
  BY <1>3, <1>6
<1>8. \A k \in (m + 1)..(m + n + 1) : st[k] = s2[k - m]
  BY <1>3, <1>6
<1>9. st[m + 1] = s1[m + 1]
  <2>1. m + 1 \in (m + 1)..(m + n + 1) /\ (m + 1) - m = 1
    BY <1>3
  <2>2. st[m + 1] = s2[1]
    BY <1>8, <2>1
  <2> QED BY <1>1, <1>2, <1>3, <2>2 DEF Tracks
<1>10. ASSUME NEW k \in 1..(m + n)
       PROVE  Goes(st[k], v[k], st[k + 1])
  <2>1. CASE k <= m
    <3>1. k \in 1..m /\ (k + 1 \in 1..m \/ k + 1 = m + 1)
      BY <1>3, <2>1
    <3>2. Goes(s1[k], n1[k], s1[k + 1])
      BY <1>1, <1>3, <3>1 DEF Tracks
    <3>3. st[k] = s1[k] /\ st[k + 1] = s1[k + 1]
      BY <1>7, <1>9, <3>1
    <3> QED BY <1>5, <3>1, <3>2, <3>3
  <2>2. CASE ~(k <= m)
    <3>1. /\ k - m \in 1..n /\ (k + 1) - m = (k - m) + 1
          /\ k \in (m + 1)..(m + n) /\ k \in (m + 1)..(m + n + 1)
          /\ k + 1 \in (m + 1)..(m + n + 1)
      BY <1>3, <2>2
    <3>2. Goes(s2[k - m], n2[k - m], s2[(k - m) + 1])
      BY <1>2, <1>3, <3>1 DEF Tracks
    <3> QED BY <1>5, <1>8, <3>1, <3>2
  <2> QED BY <2>1, <2>2
<1>11. st[1] = r
  <2>1. CASE m = 0
    BY <1>1, <1>9, <2>1 DEF Tracks
  <2>2. CASE m # 0
    <3>1. 1 \in 1..m
      BY <1>3, <2>2
    <3> QED BY <1>1, <1>7, <3>1 DEF Tracks
  <2> QED BY <2>1, <2>2
<1>12. st[(m + n) + 1] = t
  <2>1. (m + n) + 1 \in (m + 1)..(m + n + 1) /\ ((m + n) + 1) - m = n + 1
    BY <1>3
  <2>2. st[(m + n) + 1] = s2[n + 1]
    BY <1>8, <2>1
  <2> QED BY <1>2, <1>3, <2>2 DEF Tracks
<1>13. Tracks(st, r, v, t)
  BY <1>5, <1>10, <1>11, <1>12 DEF Tracks
<1> QED BY <1>4, <1>13 DEF Runs

\* One node.
LEMMA RunsOver ==
  ASSUME NEW s, NEW node, NEW t, Goes(s, node, t)
  PROVE  Runs(s, <<node>>, t)
<1>1. PICK st : st = [k \in 1..2 |-> IF k = 1 THEN s ELSE t]
  OBVIOUS
<1>2. st[1] = s /\ st[2] = t
  BY <1>1
<1>3. PICK ns : ns = <<node>>
  OBVIOUS
<1>4. Len(ns) = 1 /\ ns[1] = node
  BY <1>3
<1>5. Tracks(st, s, ns, t)
  <2>1. ASSUME NEW k \in 1..1 PROVE Goes(st[k], ns[k], st[k + 1])
    <3>1. k = 1 /\ k + 1 = 2
      OBVIOUS
    <3> QED BY <1>2, <1>4, <3>1
  <2>2. st[1 + 1] = t
    BY <1>2
  <2> QED BY <1>2, <1>4, <2>1, <2>2 DEF Tracks
<1> QED BY <1>3, <1>5 DEF Runs

\* One node more.
LEMMA RunsFurther ==
  ASSUME NEW r, NEW ns \in Seq(NodeType), NEW s, NEW node \in NodeType, NEW t,
         Runs(r, ns, s), Goes(s, node, t)
  PROVE  Runs(r, Append(ns, node), t)
<1>1. <<node>> \in Seq(NodeType) /\ Append(ns, node) = ns \o <<node>>
  OBVIOUS
<1>2. Runs(s, <<node>>, t)
  BY RunsOver
<1> QED BY <1>1, <1>2, RunsOn

\* The parser reads a message and is where it was.
LEMMA RunsMessage ==
  ASSUME NEW m \in Message
  PROVE  Runs("wants_level0_or_entry_list", EncodeMessage(m), "wants_level0_or_entry_list")
<1>1. m.id \in Values /\ m.payload \in Values /\ m.payload \in Payloads /\ "payload" \in Values
  BY DEF Message, Values
<1>2. /\ Array(2, 1) \in NodeType /\ Array(2, 2) \in NodeType
      /\ Blob(2, m.id) \in NodeType /\ Blob(3, "payload") \in NodeType
      /\ Blob(3, m.payload) \in NodeType
  BY <1>1, ArrayType, BlobType
<1>3. PICK a, b, c, d, e : /\ a = Array(2, 1) /\ b = Blob(2, m.id) /\ c = Array(2, 2)
                           /\ d = Blob(3, "payload") /\ e = Blob(3, m.payload)
  OBVIOUS
<1>4. /\ a \in NodeType /\ b \in NodeType /\ c \in NodeType /\ d \in NodeType
      /\ e \in NodeType
  BY <1>2, <1>3
<1>5. /\ Goes("wants_level0_or_entry_list", a, "wants_id")
      /\ Goes("wants_attr_list", c, "wants_key")
  BY <1>3 DEF Goes, Array
<1>6. /\ Goes("wants_id", b, "wants_attr_list")
      /\ Goes("wants_key", d, "wants_value")
      /\ Goes("wants_value", e, "wants_level0_or_entry_list")
  BY <1>1, <1>3 DEF Goes, Blob
<1>7. Runs("wants_level0_or_entry_list", <<a>>, "wants_id")
  BY <1>5, RunsOver
<1>8. Runs("wants_level0_or_entry_list", <<a, b>>, "wants_attr_list")
  <2>1. <<a>> \in Seq(NodeType) /\ Append(<<a>>, b) = <<a, b>>
    BY <1>4, AppendOne
  <2> QED BY <1>4, <1>6, <1>7, <2>1, RunsFurther
<1>9. Runs("wants_level0_or_entry_list", <<a, b, c>>, "wants_key")
  <2>1. <<a, b>> \in Seq(NodeType) /\ Append(<<a, b>>, c) = <<a, b, c>>
    BY <1>4, AppendTwo
  <2> QED BY <1>4, <1>5, <1>8, <2>1, RunsFurther
<1>10. Runs("wants_level0_or_entry_list", <<a, b, c, d>>, "wants_value")
  <2>1. <<a, b, c>> \in Seq(NodeType) /\ Append(<<a, b, c>>, d) = <<a, b, c, d>>
    BY <1>4, AppendThree
  <2> QED BY <1>4, <1>6, <1>9, <2>1, RunsFurther
<1>11. Runs("wants_level0_or_entry_list", <<a, b, c, d, e>>, "wants_level0_or_entry_list")
  <2>1. /\ <<a, b, c, d>> \in Seq(NodeType)
        /\ Append(<<a, b, c, d>>, e) = <<a, b, c, d, e>>
    BY <1>4, AppendFour
  <2> QED BY <1>4, <1>6, <1>10, <2>1, RunsFurther
<1> QED BY <1>3, <1>11, MessageType

\* It reads any number of messages, by induction.
LEMMA RunsParts ==
  ASSUME NEW b \in Seq(Message)
  PROVE  Runs("wants_level0_or_entry_list", Parts(b), "wants_level0_or_entry_list")
<1> DEFINE T == {c \in Seq(Message) :
                  Runs("wants_level0_or_entry_list", Parts(c), "wants_level0_or_entry_list")}
<1>1. << >> \in T
  BY PartsEmpty, RunsNowhere
<1>2. ASSUME NEW c \in Seq(Message), NEW m \in Message, c \in T
      PROVE  Append(c, m) \in T
  <2>1. Parts(Append(c, m)) = Parts(c) \o EncodeMessage(m)
    BY PartsNext
  <2>2. Parts(c) \in Seq(NodeType) /\ EncodeMessage(m) \in Seq(NodeType)
    BY PartsType, MessageType
  <2>3. Runs("wants_level0_or_entry_list", Parts(c) \o EncodeMessage(m),
             "wants_level0_or_entry_list")
    BY <1>2, <2>2, RunsMessage, RunsOn
  <2>4. Append(c, m) \in Seq(Message)
    OBVIOUS
  <2> QED BY <2>1, <2>3, <2>4
<1>3. Seq(Message) \subseteq T
  <2> HIDE DEF T
  <2> QED BY <1>1, <1>2, PrefixInduction
<1> QED BY <1>3

\* It reads a response, the first one or another.
LEMMA RunsBatch ==
  ASSUME NEW b \in Seq(Message),
         NEW s \in {"wants_level0_list", "wants_level0_or_entry_list"}
  PROVE  Runs(s, EncodeBatch(b), "wants_level0_or_entry_list")
<1>1. PICK h : h = Array(Len(b), 0)
  OBVIOUS
<1>2. Goes(s, h, "wants_level0_or_entry_list")
  BY <1>1 DEF Goes, Array
<1>3. Runs(s, <<h>>, "wants_level0_or_entry_list")
  BY <1>2, RunsOver
<1>4. EncodeBatch(b) = <<h>> \o Parts(b) /\ <<h>> \in Seq(NodeType)
  BY <1>1, BatchIs
<1>5. Parts(b) \in Seq(NodeType)
  BY PartsType
<1> QED BY <1>3, <1>4, <1>5, RunsParts, RunsOn

\* The states in which no message has been begun.
Settled == {"wants_level0_list", "wants_level0_or_entry_list"}

\* The parser goes through the encoding of any batches.
GoesThrough(nodes) == \E t \in Settled : Runs("wants_level0_list", nodes, t)

\* It reads any number of responses, by induction.
LEMMA RunsEncode ==
  ASSUME NEW bs \in Seq(Seq(Message))
  PROVE  GoesThrough(Encode(bs))
<1> DEFINE T == {cs \in Seq(Seq(Message)) : GoesThrough(Encode(cs))}
<1>1. << >> \in T
  <2>1. << >> \in Seq(Seq(Message))
    OBVIOUS
  <2>2. Runs("wants_level0_list", Encode(<< >>), "wants_level0_list")
    BY EncodeEmpty, RunsNowhere
  <2> QED BY <2>1, <2>2 DEF GoesThrough, Settled
<1>2. ASSUME NEW cs \in Seq(Seq(Message)), NEW b \in Seq(Message), cs \in T
      PROVE  Append(cs, b) \in T
  <2>1. Encode(Append(cs, b)) = Encode(cs) \o EncodeBatch(b)
    BY EncodeNext
  <2>2. PICK s \in Settled : Runs("wants_level0_list", Encode(cs), s)
    BY <1>2 DEF GoesThrough
  <2>3. Encode(cs) \in Seq(NodeType) /\ EncodeBatch(b) \in Seq(NodeType)
    BY EncodeType, BatchIs
  <2>4. Runs(s, EncodeBatch(b), "wants_level0_or_entry_list")
    BY <2>2, RunsBatch DEF Settled
  <2>5. Runs("wants_level0_list", Encode(cs) \o EncodeBatch(b),
             "wants_level0_or_entry_list")
    BY <2>2, <2>3, <2>4, RunsOn
  <2>6. Append(cs, b) \in Seq(Seq(Message))
    OBVIOUS
  <2> QED BY <2>1, <2>5, <2>6 DEF GoesThrough, Settled
<1>3. PICK SS : SS = Seq(Message)
  OBVIOUS
<1>4. Seq(SS) \subseteq T
  <2> HIDE DEF T
  <2> QED BY <1>1, <1>2, <1>3, PrefixInduction
<1> QED BY <1>3, <1>4

\* A prefix, element by element.
LEMMA PrefixIs ==
  ASSUME NEW S, NEW s \in Seq(S), NEW t \in Seq(S)
  PROVE  IsPrefix(s, t) <=> Len(s) <= Len(t) /\ \A k \in 1..Len(s) : s[k] = t[k]
<1>1. PICK m \in Nat, n \in Nat : m = Len(s) /\ n = Len(t)
  OBVIOUS
<1>2. SubSeq(s, 1, m) = s
  BY <1>1
<1>3. ASSUME m <= n
      PROVE  (s = SubSeq(t, 1, m)) <=> \A k \in 1..m : s[k] = t[k]
  <2>1. PICK u : u = SubSeq(t, 1, m)
    OBVIOUS
  <2>2. u \in Seq(S) /\ Len(u) = m /\ \A k \in 1..m : u[k] = t[k]
    BY <1>1, <1>3, <2>1
  <2>3. ASSUME \A k \in 1..m : s[k] = t[k] PROVE s = u
    BY <1>1, <2>2, <2>3
  <2>4. ASSUME s = u PROVE \A k \in 1..m : s[k] = t[k]
    BY <2>2, <2>4
  <2> QED BY <2>1, <2>3, <2>4
<1> QED BY <1>1, <1>2, <1>3 DEF IsPrefix

\* A prefix that is one longer: the node in question is the next one.
LEMMA PrefixOfOneMore ==
  ASSUME NEW S, NEW s \in Seq(S), NEW x \in S, NEW t \in Seq(S),
         IsPrefix(Append(s, x), t)
  PROVE  /\ IsPrefix(s, t)
         /\ Len(s) + 1 \in 1..Len(t) /\ x = t[Len(s) + 1]
<1>1. PICK n \in Nat, l \in Nat : n = Len(s) /\ l = Len(t)
  OBVIOUS
<1>2. PICK u : u = Append(s, x)
  OBVIOUS
<1>3. u \in Seq(S) /\ Len(u) = n + 1 /\ u[n + 1] = x /\ \A k \in 1..n : u[k] = s[k]
  BY <1>1, <1>2, AppendFacts
<1>4. n + 1 <= l /\ \A k \in 1..(n + 1) : u[k] = t[k]
  <2>1. IsPrefix(u, t)
    BY <1>2
  <2>2. Len(u) <= Len(t) /\ \A k \in 1..Len(u) : u[k] = t[k]
    BY <1>3, <2>1, PrefixIs
  <2> QED BY <1>1, <1>3, <2>2
<1>5. n + 1 \in 1..(n + 1) /\ n + 1 \in 1..l /\ n <= l
      /\ \A k \in 1..n : k \in 1..(n + 1)
  BY <1>4
<1>6. \A k \in 1..n : s[k] = t[k]
  BY <1>3, <1>4, <1>5
<1> QED BY <1>1, <1>3, <1>4, <1>5, <1>6, PrefixIs

\* The parser is where the states of the nodes say.
FollowsTrack(nodes, st) ==
  IsPrefix(fed, nodes) =>
    /\ result # "rejected"
    /\ state = st[Len(fed) + 1]
    /\ fed = nodes => result # "incomplete"

\* These are the states along the nodes, and the last one is settled.
IsTrack(nodes, st) ==
  /\ nodes \in Seq(NodeType)
  /\ \E t \in Settled : Tracks(st, "wants_level0_list", nodes, t)

\* The parser is where any track of any nodes says.
Follows == \A nodes, st : IsTrack(nodes, st) => FollowsTrack(nodes, st)

\* The handlers of the states are what Goes() says.
LEMMA FeedGoes ==
  ASSUME NEW node, Feed(node), NEW t, Goes(state, node, t)
  PROVE  result' = result /\ state' = t
BY DEF Feed, Goes, Level0List, Level0OrEntryList, Id, AttrList, Key, Value, Accept

\* Every step follows the tracks.
LEMMA FollowsStep == IInv /\ Follows /\ [Next]_vars => Follows'
<1> SUFFICES ASSUME IInv, Follows, [Next]_vars PROVE Follows'
  OBVIOUS
<1>1. ASSUME NEW node \in Nodes, Feed(node)
      PROVE  Follows'
  <2> SUFFICES ASSUME NEW nodes, NEW st, IsTrack(nodes, st), IsPrefix(fed', nodes)
               PROVE  /\ result' # "rejected" /\ result' # "incomplete"
                      /\ state' = st[Len(fed') + 1]
    BY DEF Follows, FollowsTrack
  <2>1. result = "parsing" /\ fed' = Append(fed, node)
    BY <1>1 DEF Feed
  <2>2. fed \in Seq(NodeType) /\ node \in NodeType
    BY NodesAreNodes DEF IInv, TypeOK
  <2>3. /\ nodes \in Seq(NodeType)
        /\ \A k \in 1..Len(nodes) : Goes(st[k], nodes[k], st[k + 1])
    BY DEF IsTrack, Tracks
  <2>4. /\ IsPrefix(fed, nodes)
        /\ Len(fed) + 1 \in 1..Len(nodes) /\ node = nodes[Len(fed) + 1]
    BY <2>1, <2>2, <2>3, PrefixOfOneMore
  <2>5. state = st[Len(fed) + 1]
    BY <2>4 DEF Follows, FollowsTrack
  <2>6. Goes(state, node, st[(Len(fed) + 1) + 1])
    BY <2>3, <2>4, <2>5
  <2>7. result' = result /\ state' = st[(Len(fed) + 1) + 1]
    BY <1>1, <2>6, FeedGoes
  <2>8. Len(fed') = Len(fed) + 1
    BY <2>1, <2>2
  <2> QED BY <2>1, <2>7, <2>8
<1>2. CASE End
  <2> SUFFICES ASSUME NEW nodes, NEW st, IsTrack(nodes, st), IsPrefix(fed', nodes)
               PROVE  FollowsTrack(nodes, st)'
    BY DEF Follows, FollowsTrack
  <2>1. /\ result = "parsing" /\ UNCHANGED <<fed, state, id, res>>
        /\ result' # "rejected"
        /\ result' = "incomplete" => state \notin Settled
    BY <1>2 DEF End, Settled
  <2>2. state = st[Len(fed) + 1]
    BY <2>1 DEF Follows, FollowsTrack
  <2>3. fed = nodes => state \in Settled
    BY <2>2 DEF IsTrack, Tracks
  <2> QED BY <2>1, <2>2, <2>3 DEF FollowsTrack
<1>3. CASE UNCHANGED vars
  BY <1>3 DEF vars, Follows, FollowsTrack
<1> QED BY <1>1, <1>2, <1>3 DEF Next, Returned

\* The parser begins at the beginning of every track.
LEMMA FollowsInit == Init => Follows
<1> SUFFICES ASSUME Init, NEW nodes, NEW st, IsTrack(nodes, st)
             PROVE  FollowsTrack(nodes, st)
  BY DEF Follows
<1>1. st[1] = "wants_level0_list"
  BY DEF IsTrack, Tracks
<1>2. Len(fed) + 1 = 1
  BY DEF Init
<1> QED BY <1>1, <1>2 DEF Init, FollowsTrack

\* An answer has a track.
LEMMA AnswerHasTrack ==
  ASSUME NEW nodes \in Encodings
  PROVE  \E st : IsTrack(nodes, st)
<1>1. PICK bs \in Answers : nodes = Encode(bs)
  BY DEF Encodings
<1>2. bs \in Seq(Seq(Message))
  BY <1>1, AnswersAssumption
<1>3. nodes \in Seq(NodeType) /\ GoesThrough(nodes)
  BY <1>1, <1>2, EncodeType, RunsEncode
<1> QED BY <1>3 DEF GoesThrough, Runs, IsTrack

\* parse_room_history_batch() refuses no answer of Redis, whatever the number of
\* rooms and messages, neither on the way nor at its end.
THEOREM AnswersAreAcceptedHolds == Spec => []AnswersAreAccepted
<1>1. IInv /\ Follows => AnswersAreAccepted
  <2> SUFFICES ASSUME IInv, Follows PROVE AnswersAreAccepted
    OBVIOUS
  <2>1. ASSUME NEW nodes \in Encodings, IsPrefix(fed, nodes)
        PROVE  result # "rejected" /\ (fed = nodes => result # "incomplete")
    <3>1. PICK st : IsTrack(nodes, st)
      BY AnswerHasTrack
    <3> QED BY <2>1, <3>1 DEF Follows, FollowsTrack
  <2>2. IsPrefix(fed, fed)
    <3>1. fed \in Seq(Nodes)
      BY DEF IInv, TypeOK
    <3>2. Len(fed) \in Nat
      BY <3>1
    <3> QED BY <3>2 DEF IsPrefix
  <2> QED BY <2>1, <2>2 DEF AnswersAreAccepted
<1> QED BY <1>1, FollowsInit, FollowsStep, ParserInvariant, PTL DEF Spec
=============================================================================
