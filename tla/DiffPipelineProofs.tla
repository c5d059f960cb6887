-------------------------- MODULE DiffPipelineProofs --------------------------
(***************************************************************************)
(* Proofs about DiffPipeline: Inductive is an invariant, and with it what  *)
(* the run "diff" checks.                                                  *)
(*                                                                         *)
(* First the operators: what a stored body gives back, which values a      *)
(* header has, what compareJSONValues and Inside are as recursive          *)
(* functions, and what their differences have to do with each other; then  *)
(* what compareBodies makes of two whole bodies; then the steps.           *)
(* Statements about JSON values are proved by the least depth at which     *)
(* they could fail.                                                        *)
(***************************************************************************)
EXTENDS DiffPipeline, SetLemmas

----------------------------------------------------------------------------
(* Bodies. *)

LEMMA SeqMade ==
  ASSUME NEW S, NEW n \in Nat, NEW f \in [1..n -> S]
  PROVE  f \in Seq(S) /\ Len(f) = n
  OBVIOUS

LEMMA SeqElement ==
  ASSUME NEW S, NEW s \in Seq(S), NEW i \in DOMAIN s
  PROVE  s[i] \in S
  OBVIOUS

LEMMA LastAppended ==
  ASSUME NEW T, NEW s \in Seq(T), NEW t \in T
  PROVE  Append(s, t) # <<>> /\ Last(Append(s, t)) = t /\ Front(Append(s, t)) = s
  <1> DEFINE a == Append(s, t)
  <1>1. /\ a \in Seq(T) /\ Len(s) \in Nat /\ Len(a) = Len(s) + 1 /\ a[Len(s) + 1] = t
        /\ \A i \in 1..Len(s) : a[i] = s[i]
    OBVIOUS
  <1> HIDE DEF a
  <1>2. a # <<>> /\ Last(a) = t
    BY <1>1 DEF Last
  <1>3. Front(a) = [i \in 1..Len(s) |-> a[i]]
    BY <1>1 DEF Front
  <1>4. Front(a) = [i \in 1..Len(s) |-> s[i]]
    BY <1>1, <1>3
  <1> QED
    BY <1>2, <1>4 DEF a

(* What the content of a body may consist of. *)
Groups == Seq(STRING) \cup {Tag}

(* Every byte of a text is a group of its own, and so is the tag.          *)
LEMMA TextFacts ==
  ASSUME NEW B, NEW data \in Seq(B)
  PROVE  /\ Text(data) \in Seq(Seq(B))
         /\ Len(Text(data)) = Len(data) /\ DOMAIN Text(data) = 1..Len(data)
         /\ TextBytes(Text(data)) = data
         /\ \A i \in 1..Len(data) : Text(data)[i] = <<data[i]>>
  <1>1. Text(data) \in [1..Len(data) -> Seq(B)] /\ Len(data) \in Nat
    BY DEF Text
  <1>2. Text(data) \in Seq(Seq(B)) /\ Len(Text(data)) = Len(data)
    BY <1>1, SeqMade
  <1> QED
    BY <1>1, <1>2 DEF Text, TextBytes

LEMMA TextTagged ==
  ASSUME NEW B, NEW data \in Seq(B)
  PROVE  /\ Text(Append(data, TagByte)) = Append(Text(data), Tag)
         /\ TextBytes(Append(Text(data), Tag)) = Append(data, TagByte)
  <1> DEFINE n      == Len(data)
             tagged == Append(data, TagByte)
             left   == Text(tagged)
             right  == Append(Text(data), Tag)
             C      == B \cup {TagByte}
  <1>1. n \in Nat /\ tagged \in Seq(C) /\ data \in Seq(C) /\ Len(tagged) = n + 1
        /\ tagged[n + 1] = TagByte /\ \A i \in 1..n : tagged[i] = data[i]
    OBVIOUS
  <1> HIDE DEF tagged, n, C
  <1>2. /\ left \in Seq(Seq(C)) /\ Len(left) = n + 1 /\ left[n + 1] = Tag
        /\ \A i \in 1..n : left[i] = <<data[i]>>
    <2>1. /\ left \in Seq(Seq(C)) /\ Len(left) = n + 1
          /\ \A i \in 1..n + 1 : left[i] = <<tagged[i]>>
      BY <1>1, TextFacts
    <2>2. n + 1 \in 1..n + 1 /\ \A i \in 1..n : i \in 1..n + 1
      BY <1>1
    <2> QED
      BY <1>1, <2>1, <2>2 DEF Tag
  <1>3. /\ Text(data) \in Seq(Seq(C)) /\ Len(Text(data)) = n
        /\ \A i \in 1..n : Text(data)[i] = <<data[i]>>
    BY <1>1, TextFacts DEF n
  <1>4. Tag \in Seq(C)
    BY DEF Tag, C
  <1>5. /\ right \in Seq(Seq(C)) /\ Len(right) = n + 1 /\ right[n + 1] = Tag
        /\ \A i \in 1..n : right[i] = <<data[i]>>
    BY <1>1, <1>3, <1>4
  <1> HIDE DEF left, right
  <1>6. \A i \in 1..n + 1 : left[i] = right[i]
    <2>1. \A i \in 1..n + 1 : i \in 1..n \/ i = n + 1
      BY <1>1
    <2> QED
      BY <1>2, <1>5, <2>1
  <1>7. left = right
    BY <1>2, <1>5, <1>6
  <1>8. TextBytes(left) = tagged
    BY <1>1, TextFacts DEF left
  <1> QED
    BY <1>7, <1>8 DEF left, right, tagged

(* Three bytes make a group of base64, the rest another one. *)
LEMMA Base64Groups ==
  ASSUME NEW data \in Seq(STRING)
  PROVE  LET n == (Len(data) + 2) \div 3 IN
           /\ n \in Nat /\ Base64(data) \in Seq(Seq(STRING)) /\ Len(Base64(data)) = n
           /\ \A q \in 1..n :
                /\ Len(Base64(data)[q]) = (IF 3 * q < Len(data) THEN 3 ELSE Len(data) - 3 * q + 3)
                /\ \A r \in 1..Len(Base64(data)[q]) : Base64(data)[q][r] = data[3 * q - 3 + r]
  <1> DEFINE n == (Len(data) + 2) \div 3
             to(q) == IF 3 * q < Len(data) THEN 3 * q ELSE Len(data)
  <1>1. Len(data) \in Nat /\ n \in Nat
    OBVIOUS
  <1>2. ASSUME NEW q \in 1..n
        PROVE  /\ q \in Nat /\ 1 <= 3 * q - 2 /\ 3 * q - 2 <= to(q) /\ to(q) <= Len(data)
               /\ SubSeq(data, 3 * q - 2, to(q)) \in Seq(STRING)
               /\ Len(SubSeq(data, 3 * q - 2, to(q))) =
                    (IF 3 * q < Len(data) THEN 3 ELSE Len(data) - 3 * q + 3)
               /\ \A r \in 1..Len(SubSeq(data, 3 * q - 2, to(q))) :
                    SubSeq(data, 3 * q - 2, to(q))[r] = data[3 * q - 3 + r]
    <2>1. q \in Nat /\ 1 <= q /\ 3 * q <= Len(data) + 2
      BY <1>1
    <2>2. 1 <= 3 * q - 2 /\ 3 * q - 2 <= to(q) /\ to(q) <= Len(data) /\ to(q) \in Nat
      BY <1>1, <2>1
    <2>3. to(q) - (3 * q - 2) + 1 = (IF 3 * q < Len(data) THEN 3 ELSE Len(data) - 3 * q + 3)
      <3>1. CASE 3 * q < Len(data)
        BY <1>1, <2>1, <3>1
      <3>2. CASE ~(3 * q < Len(data))
        BY <1>1, <2>1, <3>2
      <3> QED
        BY <3>1, <3>2
    <2> HIDE DEF to
    <2>4. /\ SubSeq(data, 3 * q - 2, to(q)) \in Seq(STRING)
          /\ Len(SubSeq(data, 3 * q - 2, to(q))) = to(q) - (3 * q - 2) + 1
      BY <1>1, <2>1, <2>2
    <2>5. ASSUME NEW r \in 1..(to(q) - (3 * q - 2) + 1)
          PROVE  SubSeq(data, 3 * q - 2, to(q))[r] = data[3 * q - 3 + r]
      <3>1. SubSeq(data, 3 * q - 2, to(q))[r] = data[3 * q - 2 + r - 1]
        BY <1>1, <2>1, <2>2
      <3>2. 3 * q - 2 + r - 1 = 3 * q - 3 + r
        BY <1>1, <2>1, <2>2
      <3> QED
        BY <3>1, <3>2
    <2> QED
      BY <2>1, <2>2, <2>3, <2>4, <2>5
  <1>3. Base64(data) = [q \in 1..n |-> SubSeq(data, 3 * q - 2, to(q))]
    BY DEF Base64
  <1> HIDE DEF n, to
  <1>4. Base64(data) \in Seq(Seq(STRING)) /\ Len(Base64(data)) = n
    BY <1>1, <1>2, <1>3
  <1> QED
    BY <1>1, <1>2, <1>3, <1>4 DEF n

(* Base64 gives back what was put into it. *)
LEMMA Base64Decoded ==
  ASSUME NEW data \in Seq(STRING)
  PROVE  Decoded(Base64(data)) = data
  <1> DEFINE n == (Len(data) + 2) \div 3
             b == Base64(data)
             all  == IF n = 0 THEN 0 ELSE 3 * (n - 1) + Len(b[n])
  <1>1. Len(data) \in Nat /\ n \in Nat /\ Len(b) = n
    BY Base64Groups
  <1>2. n = 0 => Len(data) = 0
    BY <1>1
  <1>3. n # 0 => ~(3 * n < Len(data)) /\ n \in 1..n
    BY <1>1
  <1>4. n # 0 => Len(b[n]) = Len(data) - 3 * n + 3
    BY <1>3, Base64Groups
  <1>5. all = Len(data)
    <2>1. n # 0 => 3 * (n - 1) + (Len(data) - 3 * n + 3) = Len(data)
      <3> HIDE DEF n
      <3> QED
        BY <1>1
    <2> QED
      BY <1>2, <1>4, <2>1
  <1>6. ASSUME NEW i \in 1..Len(data)
        PROVE  b[((i - 1) \div 3) + 1][((i - 1) % 3) + 1] = data[i]
    <2> DEFINE q == ((i - 1) \div 3) + 1
               r == ((i - 1) % 3) + 1
    <2>1. q \in 1..n /\ r \in 1..3 /\ 3 * q - 3 + r = i
      BY <1>1
    <2>2. IF 3 * q < Len(data) THEN TRUE ELSE r <= Len(data) - 3 * q + 3
      BY <1>1, <2>1
    <2> HIDE DEF q, r
    <2>3. Len(b[q]) = (IF 3 * q < Len(data) THEN 3 ELSE Len(data) - 3 * q + 3)
      BY <2>1, Base64Groups
    <2>4. r \in 1..Len(b[q])
      BY <1>1, <2>1, <2>2, <2>3
    <2>5. b[q][r] = data[3 * q - 3 + r]
      BY <2>1, <2>4, Base64Groups
    <2> QED
      BY <2>1, <2>5 DEF q, r
  <1>7. Decoded(b) = [i \in 1..all |-> b[((i - 1) \div 3) + 1][((i - 1) % 3) + 1]]
    BY <1>1 DEF Decoded
  <1> HIDE DEF b, all, n
  <1>8. Decoded(b) = [i \in 1..Len(data) |-> data[i]]
    BY <1>5, <1>6, <1>7
  <1> QED
    BY <1>8 DEF b

----------------------------------------------------------------------------
(* What a file does to a text. *)

FileBytes(B) == B \cup {"ef", "bf", "bd"}

(* Three bytes are kept for each byte in S, one for each other.            *)
LEMMA ShiftSteps ==
  ASSUME NEW n \in Nat, NEW S \in SUBSET (1..n)
  PROVE  /\ Shift(S, 1) = 1
         /\ \A i \in Nat :
              /\ Shift(S, i) \in Nat /\ i <= Shift(S, i)
              /\ i \in S    => Shift(S, i + 1) = Shift(S, i) + 3
              /\ i \notin S => Shift(S, i + 1) = Shift(S, i) + 1
         /\ \A i, j \in Nat : i <= j => Shift(S, i) <= Shift(S, j)
  <1> DEFINE Until(j) == {k \in S : k < j}
  <1>1. IsFiniteSet(S) /\ \A k \in S : k \in Nat /\ 1 <= k
    <2>1. IsFiniteSet(1..n)
      BY FS_Interval
    <2>2. IsFiniteSet(S)
      BY <2>1, FS_Subset
    <2> QED
      BY <2>2
  <1>2. ASSUME NEW j PROVE IsFiniteSet(Until(j)) /\ Cardinality(Until(j)) \in Nat
    <2>1. Until(j) \subseteq S
      BY Zenon
    <2> HIDE DEF Until
    <2>2. IsFiniteSet(Until(j))
      BY <1>1, <2>1, FS_Subset
    <2> QED
      BY <2>2, FS_CardinalityType
  <1>3. Until(1) = {}
    <2>1. \A k \in S : ~(k < 1)
      BY <1>1
    <2> QED
      BY <2>1
  <1>4. ASSUME NEW i \in Nat
        PROVE  /\ i \notin Until(i)
               /\ i \in S    => Until(i + 1) = Until(i) \cup {i}
               /\ i \notin S => Until(i + 1) = Until(i)
    <2>1. \A k \in S : k < i + 1 <=> k < i \/ k = i
      BY <1>1
    <2>2. ~(i < i)
      OBVIOUS
    <2> QED
      BY <2>1, <2>2
  <1>5. ASSUME NEW i \in Nat, NEW j \in Nat, i <= j
        PROVE  Cardinality(Until(i)) <= Cardinality(Until(j))
    <2>1. \A k \in S : k < i => k < j
      BY <1>1, <1>5
    <2>2. Until(i) \subseteq Until(j)
      BY <2>1
    <2> HIDE DEF Until
    <2> QED
      BY <1>2, <2>2, FS_Subset
  <1>6. \A j : Shift(S, j) = j + 2 * Cardinality(Until(j))
    BY Zenon DEF Shift
  <1> HIDE DEF Until
  <1>7. Cardinality(Until(1)) = 0
    BY <1>3, FS_EmptySet
  <1>8. ASSUME NEW i \in Nat
        PROVE  /\ i \in S    => Cardinality(Until(i + 1)) = Cardinality(Until(i)) + 1
               /\ i \notin S => Cardinality(Until(i + 1)) = Cardinality(Until(i))
    <2>1. Cardinality(Until(i) \cup {i}) = Cardinality(Until(i)) + 1
      BY <1>2, <1>4, FS_AddElement
    <2> QED
      BY <1>4, <2>1
  <1>9. ASSUME NEW i \in Nat
        PROVE  /\ Shift(S, i) \in Nat /\ i <= Shift(S, i)
               /\ i \in S    => Shift(S, i + 1) = Shift(S, i) + 3
               /\ i \notin S => Shift(S, i + 1) = Shift(S, i) + 1
    <2>1. /\ Cardinality(Until(i)) \in Nat /\ Cardinality(Until(i + 1)) \in Nat
          /\ Shift(S, i) = i + 2 * Cardinality(Until(i))
          /\ Shift(S, i + 1) = i + 1 + 2 * Cardinality(Until(i + 1))
      BY <1>2, <1>6
    <2> QED
      BY <1>8, <2>1
  <1>10. Shift(S, 1) = 1
    BY <1>6, <1>7
  <1>11. ASSUME NEW i \in Nat, NEW j \in Nat, i <= j PROVE Shift(S, i) <= Shift(S, j)
    <2>1. /\ Cardinality(Until(i)) \in Nat /\ Cardinality(Until(j)) \in Nat
          /\ Shift(S, i) = i + 2 * Cardinality(Until(i))
          /\ Shift(S, j) = j + 2 * Cardinality(Until(j))
      BY <1>2, <1>6
    <2> QED
      BY <1>5, <1>11, <2>1
  <1> QED
    BY <1>9, <1>10, <1>11

(* Each byte of the file comes from one byte of the text. *)
LEMMA ShiftSources ==
  ASSUME NEW n \in Nat, NEW S \in SUBSET (1..n)
  PROVE  /\ \A p \in 1..Shift(S, n + 1) - 1 :
              \E i \in 1..n : p \in Shift(S, i)..Shift(S, i + 1) - 1
         /\ \A i, j \in 1..n : \A p \in Shift(S, i)..Shift(S, i + 1) - 1 :
              p \in Shift(S, j)..Shift(S, j + 1) - 1 => i = j
  <1>1. ASSUME NEW p \in 1..Shift(S, n + 1) - 1
        PROVE  \E i \in 1..n : p \in Shift(S, i)..Shift(S, i + 1) - 1
    <2> DEFINE T == {i \in Nat : p < Shift(S, i + 1)}
    <2>1. \A i \in Nat : Shift(S, i) \in Nat /\ Shift(S, 1) = 1
      BY ShiftSteps
    <2>2. p \in Nat /\ 1 <= p /\ p < Shift(S, n + 1)
      BY <2>1
    <2>3. PICK i \in T : \A j \in T : i <= j
      <3>1. n \in T
        BY <2>2
      <3> QED
        BY <3>1, LeastElement
    <2>4. i \in Nat /\ i <= n /\ p < Shift(S, i + 1)
      BY <2>2, <2>3
    <2>5. i # 0
      BY <2>1, <2>2, <2>4
    <2>6. Shift(S, i) <= p
      <3>1. i - 1 \in Nat /\ (i - 1) + 1 = i /\ ~(i <= i - 1)
        BY <2>4, <2>5
      <3>2. ~(p < Shift(S, (i - 1) + 1))
        BY <2>3, <3>1
      <3> HIDE DEF T
      <3> QED
        BY <2>1, <2>2, <2>4, <3>1, <3>2
    <2> QED
      BY <2>1, <2>2, <2>4, <2>5, <2>6
  <1>2. ASSUME NEW i \in 1..n, NEW j \in 1..n, NEW p \in Shift(S, i)..Shift(S, i + 1) - 1,
               p \in Shift(S, j)..Shift(S, j + 1) - 1, i < j
        PROVE  FALSE
    <2>1. i + 1 \in Nat /\ j \in Nat /\ i + 1 <= j
      BY <1>2
    <2>2. Shift(S, i + 1) <= Shift(S, j) /\ Shift(S, i + 1) \in Nat /\ Shift(S, j) \in Nat
      BY <2>1, ShiftSteps
    <2>3. \A k \in Nat : Shift(S, k) \in Nat
      BY ShiftSteps
    <2>4. Shift(S, i) \in Nat /\ Shift(S, j + 1) \in Nat
      BY <2>1, <2>3
    <2> QED
      BY <1>2, <2>2, <2>4
  <1>3. ASSUME NEW i \in 1..n, NEW j \in 1..n, NEW p \in Shift(S, i)..Shift(S, i + 1) - 1,
               p \in Shift(S, j)..Shift(S, j + 1) - 1
        PROVE  i = j
    <2>1. ~(i < j)
      BY <1>2, <1>3
    <2>2. ~(j < i)
      BY <1>2, <1>3
    <2> QED
      BY <2>1, <2>2
  <1> QED
    BY <1>1, <1>3

(* A byte that is in a character is written as it is, any other one as     *)
(* U+FFFD.                                                                 *)
LEMMA BrokenFacts ==
  ASSUME NEW B, NEW data \in Seq(B)
  PROVE  Len(data) \in Nat /\ DOMAIN data = 1..Len(data) /\ Broken(data) \in SUBSET (1..Len(data))
  BY DEF Broken

LEMMA FiledFacts ==
  ASSUME NEW B, NEW data \in Seq(B)
  PROVE  /\ Filed(data) \in Seq(FileBytes(B))
         /\ Len(Filed(data)) = Shift(Broken(data), Len(data) + 1) - 1
         /\ \A i \in 1..Len(data) :
              \A p \in Shift(Broken(data), i)..Shift(Broken(data), i + 1) - 1 :
                /\ i \in Broken(data)    => Filed(data)[p] = Replacement[p - Shift(Broken(data), i) + 1]
                /\ i \notin Broken(data) => Filed(data)[p] = data[i]
  <1> DEFINE S         == Broken(data)
             n         == Len(data)
             Source(p) == CHOOSE i \in DOMAIN data : p \in Shift(S, i)..Shift(S, i + 1) - 1
             total      == Shift(S, n + 1) - 1
             Byte(p)   == IF Source(p) \in S THEN Replacement[p - Shift(S, Source(p)) + 1]
                          ELSE data[Source(p)]
  <1>1. n \in Nat /\ DOMAIN data = 1..n /\ S \in SUBSET (1..n)
    BY DEF Broken
  <1>2. Filed(data) = [p \in 1..total |-> Byte(p)]
    BY DEF Filed
  <1> HIDE DEF S, n
  <1>3. total \in Nat /\ \A i \in Nat : Shift(S, i) \in Nat /\ i <= Shift(S, i)
    <2>1. \A i \in Nat : Shift(S, i) \in Nat /\ i <= Shift(S, i)
      BY <1>1, ShiftSteps
    <2>2. n + 1 \in Nat /\ 1 <= n + 1
      BY <1>1
    <2> QED
      BY <2>1, <2>2
  <1>4. ASSUME NEW i \in 1..n, NEW p \in Shift(S, i)..Shift(S, i + 1) - 1
        PROVE  Source(p) = i /\ p \in 1..total
    <2>1. Source(p) \in 1..n /\ p \in Shift(S, Source(p))..Shift(S, Source(p) + 1) - 1
      BY <1>1
    <2> HIDE DEF Source
    <2>2. Source(p) = i
      BY <1>1, <2>1, ShiftSources
    <2>3. Shift(S, i + 1) <= Shift(S, n + 1)
      <3>1. i + 1 \in Nat /\ n + 1 \in Nat /\ i + 1 <= n + 1
        BY <1>1
      <3> QED
        BY <1>1, <3>1, ShiftSteps
    <2>4. Shift(S, i) \in Nat /\ Shift(S, i + 1) \in Nat /\ Shift(S, n + 1) \in Nat /\ i <= Shift(S, i)
      BY <1>1, <1>3
    <2> QED
      BY <1>1, <2>2, <2>3, <2>4
  <1>5. ASSUME NEW p \in 1..total PROVE Byte(p) \in FileBytes(B)
    <2>1. PICK i \in 1..n : p \in Shift(S, i)..Shift(S, i + 1) - 1
      BY <1>1, ShiftSources
    <2>2. Source(p) = i
      BY <1>4, <2>1
    <2>3. CASE i \in S
      <3>1. Shift(S, i + 1) = Shift(S, i) + 3 /\ Shift(S, i) \in Nat
        <4>1. i \in Nat
          BY <1>1
        <4> QED
          BY <1>1, <2>3, <4>1, ShiftSteps
      <3>2. p - Shift(S, i) + 1 \in 1..3
        BY <2>1, <3>1
      <3>3. \A k \in 1..3 : Replacement[k] \in FileBytes(B)
        BY DEF Replacement, FileBytes
      <3> HIDE DEF Source
      <3> QED
        BY <2>2, <2>3, <3>2, <3>3
    <2>4. CASE i \notin S
      <3>1. data[i] \in B
        BY <1>1, <2>1, SeqElement
      <3> HIDE DEF Source
      <3> QED
        BY <2>2, <2>4, <3>1 DEF FileBytes
    <2> QED
      BY <2>3, <2>4
  <1> HIDE DEF Byte, total
  <1>6. Filed(data) \in Seq(FileBytes(B)) /\ Len(Filed(data)) = total
    <2>1. Filed(data) \in [1..total -> FileBytes(B)]
      BY <1>2, <1>5
    <2> QED
      BY <1>3, <2>1, SeqMade
  <1>7. ASSUME NEW i \in 1..n, NEW p \in Shift(S, i)..Shift(S, i + 1) - 1
        PROVE  /\ i \in S    => Filed(data)[p] = Replacement[p - Shift(S, i) + 1]
               /\ i \notin S => Filed(data)[p] = data[i]
    <2>1. Source(p) = i /\ p \in 1..total
      BY <1>4
    <2>2. Filed(data)[p] = Byte(p)
      BY <1>2, <2>1
    <2> HIDE DEF Source
    <2>3. i \in S => Byte(p) = Replacement[p - Shift(S, i) + 1]
      BY <2>1 DEF Byte
    <2>4. i \notin S => Byte(p) = data[i]
      BY <2>1 DEF Byte
    <2> QED
      BY <2>2, <2>3, <2>4
  <1> QED
    BY <1>6, <1>7 DEF S, n, total

(* Before the first byte that is in no character nothing is moved.         *)
LEMMA FiledBeginning ==
  ASSUME NEW B, NEW data \in Seq(B), NEW m \in 0..Len(data),
         \A i \in 1..m : i \notin Broken(data)
  PROVE  /\ Shift(Broken(data), m + 1) = m + 1
         /\ m <= Len(Filed(data)) /\ \A i \in 1..m : Filed(data)[i] = data[i]
  <1> DEFINE S == Broken(data)
             n == Len(data)
  <1>1. n \in Nat /\ S \in SUBSET (1..n) /\ \A i \in 1..m : i \notin S
    BY BrokenFacts
  <1> HIDE DEF S
  <1>2. ASSUME NEW i \in 1..m + 1 PROVE Shift(S, i) = i
    <2>1. \A j \in S : ~(j < i)
      BY <1>1
    <2>3. {j \in S : j < i} = {}
      BY <2>1
    <2>2. Cardinality({j \in S : j < i}) = 0
      BY <2>3, FS_EmptySet
    <2> QED
      BY <2>2 DEF Shift
  <1>3. ASSUME NEW i \in 1..m PROVE Filed(data)[i] = data[i]
    <2>1. Shift(S, i) = i /\ Shift(S, i + 1) = i + 1
      BY <1>2
    <2>2. i \in Shift(S, i)..Shift(S, i + 1) - 1 /\ i \in 1..n
      BY <2>1
    <2>3. i \notin S
      BY <1>1
    <2> QED
      BY <2>2, <2>3, FiledFacts DEF S
  <1>4. m <= Len(Filed(data))
    <2>1. Len(Filed(data)) = Shift(S, n + 1) - 1
      BY FiledFacts DEF S
    <2>2. n + 1 \in Nat
      BY <1>1
    <2>3. Shift(S, n + 1) \in Nat /\ n + 1 <= Shift(S, n + 1)
      BY <1>1, <2>2, ShiftSteps
    <2> QED
      BY <1>1, <2>1, <2>3
  <1>5. Shift(S, m + 1) = m + 1
    BY <1>2
  <1> QED
    BY <1>3, <1>4, <1>5 DEF S

(* A text that consists of characters is written as it is. *)
LEMMA FiledWhole ==
  ASSUME NEW B, NEW data \in Seq(B), Broken(data) = {}
  PROVE  Filed(data) = data
  <1>1. Len(data) \in 0..Len(data)
    OBVIOUS
  <1>2. /\ Shift(Broken(data), Len(data) + 1) = Len(data) + 1
        /\ \A i \in 1..Len(data) : Filed(data)[i] = data[i]
    BY <1>1, FiledBeginning
  <1>3. /\ Filed(data) \in Seq(FileBytes(B))
        /\ Len(Filed(data)) = Shift(Broken(data), Len(data) + 1) - 1
    BY FiledFacts
  <1>4. Len(data) \in Nat /\ Len(Filed(data)) = Len(data)
    BY <1>2, <1>3
  <1> QED
    BY <1>2, <1>3, <1>4

(* A text that does not has U+FFFD on file. *)
HasReplacement(text) ==
  \E p \in 1..Len(text) - 2 : \A k \in 1..3 : text[p + k - 1] = Replacement[k]

LEMMA FiledReplaces ==
  ASSUME NEW B, NEW data \in Seq(B), NEW i \in Broken(data)
  PROVE  LET p == Shift(Broken(data), i) IN
         /\ p \in 1..Len(Filed(data)) - 2
         /\ \A k \in 1..3 : Filed(data)[p + k - 1] = Replacement[k]
         /\ HasReplacement(Filed(data))
  <1> DEFINE S == Broken(data)
             n == Len(data)
             p == Shift(S, i)
  <1>1. n \in Nat /\ S \in SUBSET (1..n) /\ i \in S
    BY BrokenFacts
  <1>2. i \in 1..n /\ i \in Nat /\ n + 1 \in Nat /\ i + 1 \in Nat /\ i + 1 <= n + 1
    BY <1>1
  <1>6. /\ Len(Filed(data)) = Shift(S, n + 1) - 1
        /\ \A x \in p..Shift(S, i + 1) - 1 : Filed(data)[x] = Replacement[x - p + 1]
    BY <1>1, <1>2, FiledFacts
  <1> HIDE DEF S, p
  <1>3. /\ p \in Nat /\ i <= p /\ Shift(S, i + 1) = p + 3 /\ Shift(S, i + 1) <= Shift(S, n + 1)
        /\ Shift(S, n + 1) \in Nat
    BY <1>1, <1>2, ShiftSteps DEF p
  <1>4. p \in 1..Len(Filed(data)) - 2
    BY <1>2, <1>3, <1>6
  <1>5. ASSUME NEW k \in 1..3 PROVE Filed(data)[p + k - 1] = Replacement[k]
    <2>1. p + k - 1 \in p..Shift(S, i + 1) - 1 /\ (p + k - 1) - p + 1 = k
      BY <1>3
    <2> QED
      BY <1>6, <2>1
  <1> QED
    BY <1>4, <1>5 DEF HasReplacement, S, p

(* The tag is written behind the text, whatever the text ends with.        *)
LEMMA BrokenTagged ==
  ASSUME NEW B, NEW data \in Seq(B)
  PROVE  Broken(Append(data, TagByte)) = Broken(data)
  <1> DEFINE tagged == Append(data, TagByte)
             n      == Len(data)
  <1>1. /\ n \in Nat /\ DOMAIN data = 1..n /\ Len(tagged) = n + 1 /\ DOMAIN tagged = 1..n + 1
        /\ tagged[n + 1] = TagByte /\ \A i \in 1..n : tagged[i] = data[i]
    OBVIOUS
  <1>2. TagByte \notin Continues /\ Width(TagByte) = 1
    BY DEF TagByte, Continues, Width
  <1>3. \A b : Width(b) \in 1..4
    BY DEF Width
  <1> HIDE DEF tagged, n
  <1>4. ASSUME NEW k \in 1..n PROVE IsChar(tagged, k) <=> IsChar(data, k)
    <2> DEFINE w == Width(data[k])
    <2>1. tagged[k] = data[k] /\ w \in 1..4
      BY <1>1, <1>3
    <2> HIDE DEF w
    <2>2. IsChar(data, k) <=> /\ data[k] \notin Continues /\ k + w - 1 <= n
                              /\ \A j \in k + 1..k + w - 1 : data[j] \in Continues
      BY DEF IsChar, w, n
    <2>3. IsChar(tagged, k) <=> /\ data[k] \notin Continues /\ k + w - 1 <= n + 1
                                /\ \A j \in k + 1..k + w - 1 : tagged[j] \in Continues
      BY <1>1, <2>1 DEF IsChar, w
    <2>4. ASSUME k + w - 1 <= n
          PROVE  \A j \in k + 1..k + w - 1 : tagged[j] = data[j]
      BY <1>1, <2>1, <2>4
    <2>5. ASSUME k + w - 1 = n + 1 PROVE ~IsChar(tagged, k)
      <3>1. n + 1 \in k + 1..k + w - 1
        BY <1>1, <2>1, <2>5
      <3> QED
        BY <1>1, <1>2, <2>3, <3>1
    <2>6. k + w - 1 <= n + 1 => k + w - 1 <= n \/ k + w - 1 = n + 1
      BY <1>1, <2>1
    <2>7. k + w - 1 <= n => k + w - 1 <= n + 1
      BY <1>1, <2>1
    <2> QED
      BY <2>2, <2>3, <2>4, <2>5, <2>6, <2>7
  <1>5. ASSUME NEW i \in 1..n PROVE i \in Broken(tagged) <=> i \in Broken(data)
    <2>1. \A k \in 1..i : k \in 1..n /\ tagged[k] = data[k]
      BY <1>1
    <2>2. i \in 1..n + 1
      BY <1>1
    <2> QED
      BY <1>1, <1>4, <2>1, <2>2 DEF Broken
  <1>6. n + 1 \notin Broken(tagged)
    <2>1. IsChar(tagged, n + 1)
      BY <1>1, <1>2 DEF IsChar
    <2>2. n + 1 \in 1..n + 1 /\ n + 1 < (n + 1) + Width(tagged[n + 1])
      BY <1>1, <1>2
    <2> QED
      BY <2>1, <2>2 DEF Broken
  <1>7. Broken(tagged) \subseteq 1..n + 1 /\ Broken(data) \subseteq 1..n
    BY <1>1 DEF Broken
  <1>8. \A i \in 1..n + 1 : i \in 1..n \/ i = n + 1
    BY <1>1
  <1>9. Broken(tagged) = Broken(data)
    BY <1>1, <1>5, <1>6, <1>7, <1>8
  <1> QED
    BY <1>9 DEF tagged

LEMMA FiledTagged ==
  ASSUME NEW B, NEW data \in Seq(B)
  PROVE  Filed(Append(data, TagByte)) = Append(Filed(data), TagByte)
  <1> DEFINE tagged == Append(data, TagByte)
             n      == Len(data)
             S      == Broken(data)
             C      == B \cup {TagByte}
             total   == Shift(S, n + 1) - 1
             left   == Filed(tagged)
             right  == Filed(data)
  <1>1. /\ n \in Nat /\ tagged \in Seq(C) /\ Len(tagged) = n + 1
        /\ tagged[n + 1] = TagByte /\ \A i \in 1..n : tagged[i] = data[i]
    OBVIOUS
  <1>2. Broken(tagged) = S
    BY BrokenTagged
  <1>3. S \in SUBSET (1..n)
    BY BrokenFacts
  <1> HIDE DEF tagged, n, C
  <1>4. /\ left \in Seq(FileBytes(C)) /\ Len(left) = Shift(S, n + 2) - 1
        /\ \A i \in 1..n + 1 : \A p \in Shift(S, i)..Shift(S, i + 1) - 1 :
             /\ i \in S    => left[p] = Replacement[p - Shift(S, i) + 1]
             /\ i \notin S => left[p] = tagged[i]
    <2>1. n + 1 + 1 = n + 2
      BY <1>1
    <2>2. /\ left \in Seq(FileBytes(C)) /\ Len(left) = Shift(S, Len(tagged) + 1) - 1
          /\ \A i \in 1..Len(tagged) : \A p \in Shift(S, i)..Shift(S, i + 1) - 1 :
               /\ i \in S    => left[p] = Replacement[p - Shift(S, i) + 1]
               /\ i \notin S => left[p] = tagged[i]
      <3>1. tagged \in Seq(C)
        BY <1>1
      <3>2. /\ Filed(tagged) \in Seq(FileBytes(C))
            /\ Len(Filed(tagged)) = Shift(Broken(tagged), Len(tagged) + 1) - 1
            /\ \A i \in 1..Len(tagged) :
                 \A p \in Shift(Broken(tagged), i)..Shift(Broken(tagged), i + 1) - 1 :
                   /\ i \in Broken(tagged) =>
                        Filed(tagged)[p] = Replacement[p - Shift(Broken(tagged), i) + 1]
                   /\ i \notin Broken(tagged) => Filed(tagged)[p] = tagged[i]
        BY <3>1, FiledFacts
      <3> HIDE DEF S
      <3> QED
        BY <1>2, <3>2
    <2> QED
      BY <1>1, <2>1, <2>2
  <1>5. /\ right \in Seq(FileBytes(B)) /\ Len(right) = total
        /\ \A i \in 1..n : \A p \in Shift(S, i)..Shift(S, i + 1) - 1 :
             /\ i \in S    => right[p] = Replacement[p - Shift(S, i) + 1]
             /\ i \notin S => right[p] = data[i]
    BY FiledFacts DEF n
  <1> HIDE DEF S, left, right
  <1>6. n + 1 \notin S
    BY <1>1, <1>3
  <1>7. Shift(S, n + 1) \in Nat /\ n + 1 <= Shift(S, n + 1) /\ Shift(S, n + 2) = Shift(S, n + 1) + 1
    <2>1. n + 1 \in Nat /\ n + 1 + 1 = n + 2
      BY <1>1
    <2> QED
      BY <1>1, <1>3, <1>6, <2>1, ShiftSteps
  <1>8. total \in Nat /\ Len(left) = total + 1 /\ Len(Append(right, TagByte)) = total + 1
    BY <1>1, <1>4, <1>5, <1>7
  <1>9. left[total + 1] = TagByte
    <2>1. total + 1 \in Shift(S, n + 1)..Shift(S, n + 1 + 1) - 1 /\ n + 1 \in 1..n + 1
      BY <1>1, <1>7
    <2> QED
      BY <1>1, <1>4, <1>6, <2>1
  <1>10. ASSUME NEW p \in 1..total PROVE left[p] = right[p]
    <2>1. PICK i \in 1..n : p \in Shift(S, i)..Shift(S, i + 1) - 1
      BY <1>1, <1>3, ShiftSources
    <2>2. i \in 1..n + 1 /\ tagged[i] = data[i]
      BY <1>1
    <2> QED
      BY <1>4, <1>5, <2>1, <2>2
  <1> HIDE DEF total
  <1>11. Append(right, TagByte)[total + 1] = TagByte
         /\ \A p \in 1..total : Append(right, TagByte)[p] = right[p]
    BY <1>5, <1>8
  <1>12. \A p \in 1..total + 1 : left[p] = Append(right, TagByte)[p]
    BY <1>8, <1>9, <1>10, <1>11
  <1>13. left \in Seq(FileBytes(C)) /\ Append(right, TagByte) \in Seq(FileBytes(C))
    BY <1>4, <1>5 DEF FileBytes, C
  <1>14. left = Append(right, TagByte)
    BY <1>8, <1>12, <1>13
  <1> QED
    BY <1>14 DEF left, right, tagged

(* The characters of a beginning are those of the text that end in it.     *)
LEMMA CharKept ==
  ASSUME NEW B, NEW data \in Seq(B), NEW w \in 0..Len(data), NEW k \in 1..w
  PROVE  /\ SubSeq(data, 1, w) \in Seq(B) /\ SubSeq(data, 1, w)[k] = data[k]
         /\ IsChar(SubSeq(data, 1, w), k) <=> IsChar(data, k) /\ k + Width(data[k]) - 1 <= w
  <1> DEFINE kept == SubSeq(data, 1, w)
             c    == Width(data[k])
  <1>1. /\ Len(data) \in Nat /\ kept \in Seq(B) /\ Len(kept) = w
        /\ \A j \in 1..w : kept[j] = data[j]
    OBVIOUS
  <1>2. c \in 1..4
    BY DEF Width
  <1> HIDE DEF kept, c
  <1>3. kept[k] = data[k]
    BY <1>1
  <1>4. IsChar(data, k) <=> /\ data[k] \notin Continues /\ k + c - 1 <= Len(data)
                            /\ \A j \in k + 1..k + c - 1 : data[j] \in Continues
    BY DEF IsChar, c
  <1>5. IsChar(kept, k) <=> /\ data[k] \notin Continues /\ k + c - 1 <= w
                            /\ \A j \in k + 1..k + c - 1 : kept[j] \in Continues
    BY <1>1, <1>3 DEF IsChar, c
  <1>6. k + c - 1 <= w => k + c - 1 <= Len(data) /\ \A j \in k + 1..k + c - 1 : kept[j] = data[j]
    BY <1>1, <1>2
  <1>7. IsChar(kept, k) <=> IsChar(data, k) /\ k + c - 1 <= w
    BY <1>4, <1>5, <1>6
  <1> QED
    BY <1>1, <1>3, <1>7 DEF kept, c

(* What is in a character of a beginning is in one of the text.            *)
LEMMA WholeBeginning ==
  ASSUME NEW B, NEW data \in Seq(B), NEW w \in 0..Len(data), Broken(SubSeq(data, 1, w)) = {}
  PROVE  \A i \in 1..w : i \notin Broken(data)
  <1> DEFINE kept == SubSeq(data, 1, w)
  <1> SUFFICES ASSUME NEW i \in 1..w PROVE i \notin Broken(data)
    OBVIOUS
  <1>1. DOMAIN kept = 1..w
    OBVIOUS
  <1>2. i \notin Broken(kept) /\ i \in DOMAIN kept
    BY <1>1
  <1>3. PICK k \in 1..i : IsChar(kept, k) /\ i < k + Width(kept[k])
    BY <1>2 DEF Broken
  <1>4. k \in 1..w
    BY <1>3
  <1>5. kept[k] = data[k] /\ IsChar(data, k)
    BY <1>3, <1>4, CharKept
  <1> HIDE DEF kept
  <1> QED
    BY <1>3, <1>5 DEF Broken

(* No byte is in two characters. *)
LEMMA CharsApart ==
  ASSUME NEW data, NEW k \in Nat, NEW l \in Nat, IsChar(data, k), IsChar(data, l), k < l
  PROVE  k + Width(data[k]) <= l
  <1>1. Width(data[k]) \in 1..4
    BY DEF Width
  <1>2. data[l] \notin Continues /\ \A j \in k + 1..k + Width(data[k]) - 1 : data[j] \in Continues
    BY DEF IsChar
  <1>3. l \notin k + 1..k + Width(data[k]) - 1
    BY <1>2
  <1> QED
    BY <1>1, <1>3

(* Of a text that consists of characters a beginning may have one that was *)
(* cut, at its end.                                                        *)
LEMMA BrokenCut ==
  ASSUME NEW B, NEW data \in Seq(B), NEW w \in 0..Len(data), Broken(data) = {},
         NEW i \in Broken(SubSeq(data, 1, w))
  PROVE  \E k \in 1..w :
           /\ w - k + 1 <= 3 /\ Broken(SubSeq(data, 1, w)) = k..w
           /\ Broken(SubSeq(SubSeq(data, 1, w), 1, k - 1)) = {}
  <1> DEFINE kept == SubSeq(data, 1, w)
  <1>1. /\ Len(data) \in Nat /\ DOMAIN data = 1..Len(data)
        /\ kept \in Seq(B) /\ Len(kept) = w /\ DOMAIN kept = 1..w
    OBVIOUS
  <1>2. \A b : Width(b) \in 1..4
    BY DEF Width
  <1>3. ASSUME NEW l \in 1..w
        PROVE  /\ kept[l] = data[l]
               /\ IsChar(kept, l) <=> IsChar(data, l) /\ l + Width(data[l]) - 1 <= w
    BY CharKept
  <1>4. i \in 1..w /\ i \in Broken(kept)
    BY <1>1 DEF Broken
  <1> HIDE DEF kept
  <1>5. ASSUME NEW j \in 1..w
        PROVE  \E l \in 1..j : IsChar(data, l) /\ j < l + Width(data[l])
    <2>1. j \in DOMAIN data /\ j \notin Broken(data)
      BY <1>1
    <2> QED
      BY <2>1 DEF Broken
  <1>6. PICK k \in 1..i : IsChar(data, k) /\ i < k + Width(data[k])
    BY <1>4, <1>5
  <1>7. k \in 1..w /\ ~(k + Width(data[k]) - 1 <= w)
    <2>1. k \in 1..w
      BY <1>4, <1>6
    <2>2. ~IsChar(kept, k) \/ ~(i < k + Width(kept[k]))
      BY <1>4, <1>6 DEF Broken
    <2> QED
      BY <1>3, <1>6, <2>1, <2>2
  <1>8. w - k + 1 <= 3 /\ w < k + Width(data[k]) - 1
    BY <1>2, <1>7
  <1>9. ASSUME NEW j \in k..w PROVE j \in Broken(kept)
    <2> SUFFICES ASSUME NEW l \in 1..j, IsChar(kept, l), j < l + Width(kept[l]) PROVE FALSE
      BY <1>1, <1>7, <1>9 DEF Broken
    <2>1. /\ l \in 1..w /\ kept[l] = data[l] /\ IsChar(data, l)
          /\ l + Width(data[l]) - 1 <= w /\ j < l + Width(data[l])
      <3>1. l \in 1..w
        BY <1>7
      <3> QED
        BY <1>3, <3>1
    <2>2. l # k
      BY <1>7, <2>1
    <2>3. ~(k < l)
      <3>1. k < l => k + Width(data[k]) <= l
        BY <1>6, <2>1, CharsApart
      <3>2. Width(data[k]) \in 1..4
        BY <1>2
      <3> QED
        BY <1>7, <2>1, <3>1, <3>2
    <2>4. ~(l < k)
      <3>1. l < k => l + Width(data[l]) <= k
        BY <1>6, <2>1, CharsApart
      <3>2. Width(data[l]) \in 1..4 /\ k <= j
        BY <1>2
      <3> QED
        BY <1>7, <2>1, <3>1, <3>2
    <2> QED
      BY <1>7, <2>1, <2>2, <2>3, <2>4
  <1>10. ASSUME NEW j \in 1..k - 1
         PROVE  \E l \in 1..j : /\ IsChar(kept, l) /\ j < l + Width(kept[l])
                                /\ l + Width(kept[l]) - 1 <= k - 1
    <2>1. j \in 1..w
      BY <1>7
    <2>2. PICK l \in 1..j : IsChar(data, l) /\ j < l + Width(data[l])
      BY <1>5, <2>1
    <2>3. l \in 1..w /\ l \in Nat /\ k \in Nat /\ l < k
      BY <1>7, <2>1
    <2>4. l + Width(data[l]) <= k
      BY <1>6, <2>2, <2>3, CharsApart
    <2>5. Width(data[l]) \in 1..4 /\ l + Width(data[l]) - 1 <= k - 1 /\ l + Width(data[l]) - 1 <= w
      BY <1>2, <1>7, <2>3, <2>4
    <2>6. IsChar(kept, l) /\ kept[l] = data[l]
      BY <1>3, <2>2, <2>3, <2>5
    <2> QED
      BY <2>2, <2>5, <2>6
  <1>11. Broken(kept) = k..w
    <2>1. Broken(kept) \subseteq 1..w
      BY <1>1 DEF Broken
    <2>2. \A j \in 1..k - 1 : j \notin Broken(kept)
      BY <1>10 DEF Broken
    <2>3. \A j \in 1..w : j \in 1..k - 1 \/ j \in k..w
      BY <1>7
    <2>4. \A j \in k..w : j \in 1..w
      BY <1>7
    <2> QED
      BY <1>9, <2>1, <2>2, <2>3, <2>4
  <1>12. Broken(SubSeq(kept, 1, k - 1)) = {}
    <2> DEFINE front == SubSeq(kept, 1, k - 1)
    <2>1. k - 1 \in 0..Len(kept) /\ DOMAIN front = 1..k - 1
      BY <1>1, <1>7
    <2>2. ASSUME NEW j \in 1..k - 1 PROVE \E l \in 1..j : IsChar(front, l) /\ j < l + Width(front[l])
      <3>1. PICK l \in 1..j : /\ IsChar(kept, l) /\ j < l + Width(kept[l])
                              /\ l + Width(kept[l]) - 1 <= k - 1
        BY <1>10
      <3>2. l \in 1..k - 1
        BY <1>7
      <3>3. IsChar(front, l) /\ front[l] = kept[l]
        BY <1>1, <2>1, <3>1, <3>2, CharKept
      <3> QED
        BY <3>1, <3>3
    <2> HIDE DEF front
    <2>3. \A j \in DOMAIN front : ~(~\E l \in 1..j : IsChar(front, l) /\ j < l + Width(front[l]))
      BY <2>1, <2>2
    <2> QED
      BY <2>3 DEF Broken, front
  <1> QED
    BY <1>7, <1>8, <1>11, <1>12 DEF kept

(* What a file gives back of the bytes that were kept of a text. *)
LEMMA TextComesBack ==
  ASSUME NEW B, NEW data \in Seq(B), NEW w \in 0..Len(data)
  PROVE  TextSurvives(data, SubSeq(data, 1, w), Filed(SubSeq(data, 1, w)))
  <1> DEFINE kept == SubSeq(data, 1, w)
             back == Filed(kept)
             S    == Broken(kept)
  <1>1. Len(data) \in Nat /\ kept \in Seq(B) /\ Len(kept) = w /\ w \in Nat
    OBVIOUS
  <1>2. w = Len(data) => kept = data
    OBVIOUS
  <1> HIDE DEF kept, back
  <1>3. ASSUME NEW whole \in 0..Len(kept), Broken(SubSeq(kept, 1, whole)) = {}
        PROVE  whole <= Len(back) /\ \A i \in 1..whole : back[i] = kept[i]
    <2>1. \A i \in 1..whole : i \notin Broken(kept)
      BY <1>1, <1>3, WholeBeginning
    <2> QED
      BY <1>1, <2>1, FiledBeginning DEF back
  <1>4. CASE S = {}
    <2>1. back = kept /\ w \in 0..Len(kept) /\ SubSeq(kept, 1, w) = kept
      BY <1>1, <1>4, FiledWhole DEF back
    <2>2. Len(kept) - w = 0 /\ Len(back) = w + 3 * (Len(kept) - w)
      BY <1>1, <2>1
    <2>3. \A q \in 0..Len(kept) - w - 1, k \in 1..3 : back[w + 3 * q + k] = Replacement[k]
      BY <1>1
    <2>4. \E whole \in 0..Len(kept) :
            LET left == Len(kept) - whole IN
              /\ Broken(SubSeq(kept, 1, whole)) = {}
              /\ left <= 3 /\ (kept = data => left = 0)
              /\ Len(back) = whole + 3 * left
              /\ \A q \in 0..left - 1, k \in 1..3 : back[whole + 3 * q + k] = Replacement[k]
      <3> DEFINE left == Len(kept) - w
      <3>1. Broken(SubSeq(kept, 1, w)) = {}
        BY <1>4, <2>1
      <3>2. left = 0 /\ left <= 3 /\ Len(back) = w + 3 * left
        BY <2>2
      <3> HIDE DEF left
      <3>3. \A q \in 0..left - 1, k \in 1..3 : back[w + 3 * q + k] = Replacement[k]
        BY <3>2
      <3> QED
        BY <2>1, <3>1, <3>2, <3>3 DEF left
    <2> QED
      BY <1>3, <2>4 DEF TextSurvives, kept, back
  <1>5. CASE Broken(data) # {}
    BY <1>3, <1>5 DEF TextSurvives, kept, back
  <1>6. CASE S # {} /\ Broken(data) = {}
    <2>1. PICK c \in 1..w : w - c + 1 <= 3 /\ S = c..w /\ Broken(SubSeq(kept, 1, c - 1)) = {}
        <3>1. Broken(data) = {} /\ \E i : i \in Broken(SubSeq(data, 1, w))
        BY <1>6 DEF kept
      <3>2. \E c \in 1..w :
              /\ w - c + 1 <= 3 /\ Broken(SubSeq(data, 1, w)) = c..w
              /\ Broken(SubSeq(SubSeq(data, 1, w), 1, c - 1)) = {}
        BY <3>1, BrokenCut
      <3> QED
        BY <3>2 DEF kept
    <2> DEFINE whole == c - 1
               left  == Len(kept) - whole
    <2>2. whole \in 0..Len(kept) /\ left <= 3 /\ left \in Nat /\ whole + left = w
      BY <1>1, <2>1
    <2>3. ASSUME NEW q \in 0..left PROVE Shift(S, c + q) = c + 3 * q
      <3>1. {j \in S : j < c + q} = c..(c + q - 1)
        BY <1>1, <2>1, <2>2
      <3>2. Cardinality(c..(c + q - 1)) = q
        <4>1. c \in Int /\ c + q - 1 \in Int
          OBVIOUS
        <4>2. Cardinality(c..(c + q - 1)) = IF c > c + q - 1 THEN 0 ELSE (c + q - 1) - c + 1
          BY <4>1, FS_Interval
        <4> QED
          BY <4>2
      <3>3. Cardinality({j \in S : j < c + q}) = q
        BY <3>1, <3>2
      <3> QED
        BY <3>3 DEF Shift
    <2>4. Len(back) = whole + 3 * left
      <3>1. Len(back) = Shift(S, Len(kept) + 1) - 1
        BY <1>1, FiledFacts DEF back
      <3>2. Len(kept) + 1 = c + left /\ left \in 0..left
        BY <1>1, <2>1
      <3>3. Shift(S, c + left) = c + 3 * left
        BY <2>3, <3>2
      <3> QED
        BY <2>2, <3>1, <3>2, <3>3
    <2>5. ASSUME NEW q \in 0..left - 1, NEW k \in 1..3 PROVE back[whole + 3 * q + k] = Replacement[k]
      <3>1. c + q \in S /\ q \in 0..left
        BY <1>1, <2>1
      <3>2. Shift(S, c + q) = c + 3 * q
        BY <2>3, <3>1
      <3>3. \A x \in 1..3 : back[Shift(S, c + q) + x - 1] = Replacement[x]
        BY <1>1, <3>1, FiledReplaces DEF back
      <3>4. c + 3 * q + k - 1 = whole + 3 * q + k
        OBVIOUS
      <3> QED
        BY <3>2, <3>3, <3>4
    <2>6. kept # data
      BY <1>6
    <2> HIDE DEF S
    <2> QED
      BY <1>3, <2>1, <2>2, <2>4, <2>5, <2>6 DEF TextSurvives, kept, back
  <1> QED
    BY <1>4, <1>5, <1>6

----------------------------------------------------------------------------
(* What NewBodyContent keeps, and how. *)

KeptOf(data, maxSize) ==
  IF maxSize > 0 /\ Len(data) > maxSize THEN SubSeq(data, 1, maxSize) ELSE data

ContentOf(data, type) == IF IsTextContent(type) THEN Text(data) ELSE Base64(data)

LEMMA KeptFacts ==
  ASSUME NEW data \in Seq(STRING), NEW maxSize \in Nat
  PROVE  /\ KeptOf(data, maxSize) \in Seq(STRING)
         /\ \A i \in DOMAIN KeptOf(data, maxSize) :
              i \in DOMAIN data /\ KeptOf(data, maxSize)[i] = data[i]
         /\ Len(KeptOf(data, maxSize)) < Len(data) => maxSize > 0 /\ Len(data) > maxSize
         /\ ~(maxSize > 0 /\ Len(data) > maxSize) => KeptOf(data, maxSize) = data
         /\ data # <<>> => KeptOf(data, maxSize) # <<>>
  <1>1. CASE maxSize > 0 /\ Len(data) > maxSize
    <2>1. KeptOf(data, maxSize) = SubSeq(data, 1, maxSize)
      BY <1>1 DEF KeptOf
    <2>2. /\ SubSeq(data, 1, maxSize) \in Seq(STRING) /\ Len(SubSeq(data, 1, maxSize)) = maxSize
          /\ \A i \in 1..maxSize : i \in DOMAIN data /\ SubSeq(data, 1, maxSize)[i] = data[i]
      BY <1>1
    <2> QED
      BY <1>1, <2>1, <2>2
  <1>2. CASE ~(maxSize > 0 /\ Len(data) > maxSize)
    BY <1>2 DEF KeptOf
  <1> QED
    BY <1>1, <1>2

LEMMA ContentFacts ==
  ASSUME NEW data \in Seq(STRING), NEW type
  PROVE  /\ ContentOf(data, type) \in Seq(Groups)
         /\ data = <<>> => ContentOf(data, type) = <<>>
         /\ data # <<>> => ContentOf(data, type) # <<>>
  <1>1. Text(data) \in Seq(Groups) /\ Len(Text(data)) = Len(data)
    <2>1. \A i \in DOMAIN data : <<data[i]>> \in Groups
      BY DEF Groups
    <2>2. Text(data) \in [1..Len(data) -> Groups]
      BY <2>1 DEF Text
    <2> QED
      BY <2>2, SeqMade
  <1>2. Base64(data) \in Seq(Groups) /\ Len(Base64(data)) = (Len(data) + 2) \div 3
    <2>1. Base64(data) \in Seq(Seq(STRING)) /\ Len(Base64(data)) = (Len(data) + 2) \div 3
      BY Base64Groups
    <2>2. Base64(data) \in [1..Len(Base64(data)) -> Groups]
      BY <2>1 DEF Groups
    <2>3. Len(Base64(data)) \in Nat
      BY <2>1
    <2> QED
      BY <2>1, <2>2, <2>3, SeqMade
  <1>3. (Len(data) + 2) \div 3 = 0 <=> Len(data) = 0
    OBVIOUS
  <1> QED
    BY <1>1, <1>2, <1>3 DEF ContentOf

(* A new body: its flags, and its content without the tag.                 *)
LEMMA NewBodyFacts ==
  ASSUME NEW data \in Seq(STRING), NEW type, NEW maxSize \in Nat
  PROVE  LET body    == NewBodyContent(data, type, maxSize)
             content == ContentOf(KeptOf(data, maxSize), type)
             cut     == maxSize > 0 /\ Len(data) > maxSize
         IN  /\ body.binary = (data # <<>> /\ ~IsTextContent(type))
             /\ body.truncated = cut
             /\ body.content = IF cut THEN Append(content, Tag) ELSE content
             /\ Untagged(body) = content
             /\ DOMAIN body = {"binary", "truncated", "content"}
  <1> DEFINE body    == NewBodyContent(data, type, maxSize)
             content == ContentOf(KeptOf(data, maxSize), type)
             cut     == maxSize > 0 /\ Len(data) > maxSize
  <1>1. content \in Seq(Groups) /\ (data = <<>> => content = <<>>)
    <2>1. data = <<>> => KeptOf(data, maxSize) = <<>>
      BY DEF KeptOf
    <2> QED
      BY <2>1, KeptFacts, ContentFacts
  <1>2. cut \in BOOLEAN /\ (data = <<>> => ~cut)
    OBVIOUS
  <1>3. /\ data = <<>> => body = [binary |-> FALSE, truncated |-> FALSE, content |-> <<>>]
        /\ data # <<>> => body = [binary |-> ~IsTextContent(type), truncated |-> cut,
                                 content |-> IF cut THEN Append(content, Tag) ELSE content]
    BY DEF NewBodyContent, NoBody, KeptOf, ContentOf
  <1> HIDE DEF body, content, cut
  <1>4. /\ body.binary = (data # <<>> /\ ~IsTextContent(type))
        /\ body.truncated = cut
        /\ body.content = IF cut THEN Append(content, Tag) ELSE content
        /\ DOMAIN body = {"binary", "truncated", "content"}
    <2>1. CASE data = <<>>
      <3>1. body = [binary |-> FALSE, truncated |-> FALSE, content |-> <<>>] /\ ~cut
        BY <1>2, <1>3, <2>1
      <3>2. body.binary = FALSE /\ body.truncated = FALSE /\ body.content = content
        BY <1>1, <2>1, <3>1
      <3>3. DOMAIN body = {"binary", "truncated", "content"}
        BY <3>1
      <3>4. (data # <<>> /\ ~IsTextContent(type)) = FALSE /\ cut = FALSE
        BY <1>2, <2>1
      <3> QED
        BY <3>1, <3>2, <3>3, <3>4
    <2>2. CASE data # <<>>
      BY <1>3, <2>2
    <2> QED
      BY <2>1, <2>2
  <1>5. Untagged(body) = content
    <2>1. CASE cut
      <3>1. /\ Append(content, Tag) # <<>> /\ Last(Append(content, Tag)) = Tag
            /\ Front(Append(content, Tag)) = content
        BY <1>1 DEF Last, Front
      <3> QED
        BY <1>4, <2>1, <3>1 DEF Untagged
    <2>2. CASE ~cut
      BY <1>4, <2>2 DEF Untagged
    <2> QED
      BY <2>1, <2>2
  <1> QED
    BY <1>4, <1>5 DEF body, content, cut

(* What is not binary is a text, or nothing. *)
LEMMA TextContent ==
  ASSUME NEW data \in Seq(STRING), NEW type, NEW maxSize \in Nat,
         ~NewBodyContent(data, type, maxSize).binary
  PROVE  ContentOf(KeptOf(data, maxSize), type) = Text(KeptOf(data, maxSize))
  <1> DEFINE kept == KeptOf(data, maxSize)
  <1>1. kept \in Seq(STRING) /\ (data = <<>> => kept = <<>>)
    <2>1. data = <<>> => KeptOf(data, maxSize) = <<>>
      BY DEF KeptOf
    <2> QED
      BY <2>1, KeptFacts
  <1>2. IsTextContent(type) \/ data = <<>>
    BY NewBodyFacts
  <1> HIDE DEF kept
  <1>3. CASE IsTextContent(type)
    BY <1>3 DEF ContentOf, kept
  <1>4. CASE data = <<>>
    <2>1. Len(Text(kept)) = 0 /\ Text(kept) \in Seq(Seq(STRING))
      BY <1>1, <1>4, TextFacts
    <2>2. Text(kept) = <<>> /\ ContentOf(kept, type) = <<>>
      BY <1>1, <1>4, <2>1, ContentFacts
    <2> QED
      BY <2>2 DEF kept
  <1> QED
    BY <1>2, <1>3, <1>4

(* The file keeps the flags of a body and, tag or not, replaces what is no *)
(* character in a text.                                                    *)
LEMMA StoredFacts ==
  ASSUME NEW data \in Seq(STRING), NEW type, NEW maxSize \in Nat
  PROVE  LET body == NewBodyContent(data, type, maxSize)
             kept == KeptOf(data, maxSize)
         IN  /\ Stored(body).binary = body.binary
             /\ Stored(body).truncated = body.truncated
             /\ Untagged(Stored(body)) = IF body.binary THEN Base64(kept) ELSE Text(Filed(kept))
  <1> DEFINE body    == NewBodyContent(data, type, maxSize)
             kept    == KeptOf(data, maxSize)
             content == ContentOf(kept, type)
             cut     == maxSize > 0 /\ Len(data) > maxSize
             back    == Filed(kept)
  <1>1. /\ body.binary = (data # <<>> /\ ~IsTextContent(type))
        /\ body.truncated = cut /\ cut \in BOOLEAN /\ body.binary \in BOOLEAN
        /\ body.content = IF cut THEN Append(content, Tag) ELSE content
        /\ Untagged(body) = content
        /\ DOMAIN body = {"binary", "truncated", "content"}
    BY NewBodyFacts
  <1>2. kept \in Seq(STRING)
    BY KeptFacts
  <1>3. content = IF body.binary THEN Base64(kept) ELSE Text(kept)
    <2>1. CASE body.binary
      BY <1>1, <2>1 DEF ContentOf
    <2>2. CASE ~body.binary
      BY <2>2, TextContent
    <2> QED
      BY <1>1, <2>1, <2>2
  <1>4. back \in Seq(FileBytes(STRING))
    BY <1>2, FiledFacts
  <1> HIDE DEF body, kept, content, cut, back
  <1>5. /\ Stored(body).binary = body.binary /\ Stored(body).truncated = body.truncated
        /\ Stored(body).content = IF body.binary THEN body.content
                                  ELSE Text(Filed(TextBytes(body.content)))
    BY <1>1 DEF Stored
  <1>6. CASE body.binary
    <2>1. Stored(body).content = body.content
      BY <1>5, <1>6
    <2>2. Untagged(Stored(body)) = Untagged(body)
      BY <1>5, <2>1 DEF Untagged
    <2> QED
      BY <1>1, <1>3, <1>5, <1>6, <2>2 DEF kept, body
  <1>7. CASE ~body.binary /\ ~cut
    <2>1. TextBytes(body.content) = kept
      BY <1>1, <1>2, <1>3, <1>7, TextFacts
    <2>2. Stored(body).content = Text(back) /\ ~Stored(body).truncated
      BY <1>1, <1>5, <1>7, <2>1 DEF back
    <2>3. Untagged(Stored(body)) = Text(back)
      BY <2>2 DEF Untagged
    <2> QED
      BY <1>5, <1>7, <2>3 DEF kept, body, back
  <1>8. CASE ~body.binary /\ cut
    <2>1. body.content = Append(Text(kept), Tag)
      BY <1>1, <1>3, <1>8
    <2>2. TextBytes(body.content) = Append(kept, TagByte)
      BY <1>2, <2>1, TextTagged
    <2>3. Filed(Append(kept, TagByte)) = Append(back, TagByte)
      BY <1>2, FiledTagged DEF back
    <2>4. Text(Append(back, TagByte)) = Append(Text(back), Tag)
      BY <1>4, TextTagged
    <2>5. Stored(body).content = Append(Text(back), Tag) /\ Stored(body).truncated
      BY <1>1, <1>5, <1>8, <2>2, <2>3, <2>4
    <2>6. Untagged(Stored(body)) = Text(back)
      <3> DEFINE T == Seq(FileBytes(STRING)) \cup {Tag}
                 t == Text(back)
      <3>1. t \in Seq(Seq(FileBytes(STRING))) /\ Tag \in T /\ Seq(FileBytes(STRING)) \subseteq T
        BY <1>4, TextFacts
      <3> HIDE DEF t, T
      <3>3. t \in Seq(T)
        BY <3>1
      <3>2. Append(t, Tag) # <<>> /\ Last(Append(t, Tag)) = Tag /\ Front(Append(t, Tag)) = t
        BY <3>1, <3>3, LastAppended
      <3> QED
        BY <2>5, <3>2 DEF Untagged, t
    <2> QED
      BY <1>5, <1>8, <2>6 DEF kept, body, back
  <1> QED
    BY <1>1, <1>6, <1>7, <1>8 DEF body, kept

(* A body gives back the bytes that were kept, a text what a file makes of *)
(* them.                                                                   *)
LEMMA BodyBack ==
  ASSUME NEW data \in Seq(STRING), NEW type, NEW maxSize \in Nat
  PROVE  LET body == Stored(NewBodyContent(data, type, maxSize))
             kept == KeptOf(data, maxSize)
         IN  body.binary \in BOOLEAN /\ BytesOf(body) = IF body.binary THEN kept ELSE Filed(kept)
  <1> DEFINE new  == NewBodyContent(data, type, maxSize)
             body == Stored(new)
             kept == KeptOf(data, maxSize)
  <1>1. kept \in Seq(STRING)
    BY KeptFacts
  <1>2. /\ new.binary = (data # <<>> /\ ~IsTextContent(type)) /\ new.binary \in BOOLEAN
        /\ body.binary = new.binary
        /\ Untagged(body) = IF new.binary THEN Base64(kept) ELSE Text(Filed(kept))
    BY NewBodyFacts, StoredFacts
  <1>3. Filed(kept) \in Seq(FileBytes(STRING))
    BY <1>1, FiledFacts
  <1> HIDE DEF new, body, kept
  <1>4. CASE new.binary
    <2>1. BytesOf(body) = kept
      BY <1>1, <1>2, <1>4, Base64Decoded DEF BytesOf
    <2> QED
      BY <1>2, <1>4, <2>1 DEF new, body, kept
  <1>5. CASE ~new.binary
    <2>1. BytesOf(body) = Filed(kept)
      BY <1>2, <1>3, <1>5, TextFacts DEF BytesOf
    <2> QED
      BY <1>2, <1>5, <2>1 DEF new, body, kept
  <1> QED
    BY <1>2, <1>4, <1>5

(* So a text survives as TextSurvives says. *)
LEMMA KeptComesBack ==
  ASSUME NEW data \in Seq(STRING), NEW maxSize \in Nat
  PROVE  TextSurvives(data, KeptOf(data, maxSize), Filed(KeptOf(data, maxSize)))
  <1> DEFINE w == IF maxSize > 0 /\ Len(data) > maxSize THEN maxSize ELSE Len(data)
  <1>1. w \in 0..Len(data)
    OBVIOUS
  <1>2. KeptOf(data, maxSize) = SubSeq(data, 1, w)
    BY DEF KeptOf
  <1> HIDE DEF w
  <1> QED
    BY <1>1, <1>2, TextComesBack

----------------------------------------------------------------------------
(* Headers. *)

(* What is picked from a sequence are its elements at the places given.    *)
LEMMA PickedFacts ==
  ASSUME NEW T, NEW s \in Seq(T), NEW S \in SUBSET DOMAIN s
  PROVE  /\ Picked(s, S) \in Seq(T) /\ Len(Picked(s, S)) = Cardinality(S)
         /\ \A k \in 1..Cardinality(S) : Kth(S, k) \in S /\ Picked(s, S)[k] = s[Kth(S, k)]
  <1>1. Len(s) \in Nat /\ S \in SUBSET (1..Len(s))
    OBVIOUS
  <1>2. Cardinality(S) \in Nat
    <2>1. IsFiniteSet(1..Len(s))
      BY <1>1, FS_Interval
    <2>2. IsFiniteSet(S)
      BY <1>1, <2>1, FS_Subset
    <2> QED
      BY <2>2, FS_CardinalityType
  <1>3. ASSUME NEW k \in 1..Cardinality(S)
        PROVE  Kth(S, k) \in S
    <2>1. \E i \in S : Cardinality({j \in S : j <= i}) = k
      BY <1>1, KthElement
    <2> QED
      BY <2>1 DEF Kth
  <1>4. Picked(s, S) \in [1..Cardinality(S) -> T]
    BY <1>3 DEF Picked
  <1> QED
    BY <1>2, <1>3, <1>4, SeqMade DEF Picked

(* The values under a name are those of the headers with that name.        *)
LEMMA HeaderValues ==
  ASSUME NEW headers \in Headers
  PROVE  /\ DOMAIN HeadersToMap(headers) = {h.name : h \in ToSet(headers)}
         /\ \A name \in DOMAIN HeadersToMap(headers) :
              /\ HeadersToMap(headers)[name] \in Seq(STRING)
              /\ ToSet(HeadersToMap(headers)[name]) \subseteq
                   {h.value : h \in {g \in ToSet(headers) : g.name = name}}
  <1> DEFINE Own(name) == {i \in DOMAIN headers : headers[i].name = name}
             named(name) == Picked(headers, Own(name))
             H == [name : DOMAIN Fold, value : STRING]
  <1>1. headers \in Seq(H)
    BY DEF Headers
  <1>2. /\ DOMAIN HeadersToMap(headers) = {h.name : h \in ToSet(headers)}
        /\ \A name \in DOMAIN HeadersToMap(headers) :
             HeadersToMap(headers)[name] = [i \in DOMAIN named(name) |-> named(name)[i].value]
    BY DEF HeadersToMap
  <1>3. ASSUME NEW name
        PROVE  /\ named(name) \in Seq(H)
               /\ \A k \in DOMAIN named(name) :
                    named(name)[k] \in ToSet(headers) /\ named(name)[k].name = name
    <2>1. Own(name) \in SUBSET DOMAIN headers
      OBVIOUS
    <2>2. /\ named(name) \in Seq(H) /\ Len(named(name)) = Cardinality(Own(name))
          /\ \A k \in 1..Cardinality(Own(name)) :
               Kth(Own(name), k) \in Own(name) /\ named(name)[k] = headers[Kth(Own(name), k)]
      BY <1>1, <2>1, PickedFacts
    <2>3. \A i \in Own(name) : headers[i] \in ToSet(headers) /\ headers[i].name = name
      BY DEF ToSet
    <2>4. DOMAIN named(name) = 1..Cardinality(Own(name))
      BY <2>2
    <2> HIDE DEF named, Own
    <2> QED
      BY <2>2, <2>3, <2>4
  <1> HIDE DEF named
  <1>4. ASSUME NEW name \in DOMAIN HeadersToMap(headers)
        PROVE  /\ HeadersToMap(headers)[name] \in Seq(STRING)
               /\ ToSet(HeadersToMap(headers)[name]) \subseteq
                    {h.value : h \in {g \in ToSet(headers) : g.name = name}}
    <2> DEFINE v == [i \in DOMAIN named(name) |-> named(name)[i].value]
    <2>1. Len(named(name)) \in Nat /\ DOMAIN named(name) = 1..Len(named(name))
      BY <1>3
    <2>2. \A i \in DOMAIN named(name) : named(name)[i] \in H
      <3>1. named(name) \in Seq(H)
        BY <1>3
      <3> HIDE DEF H
      <3> QED
        BY <3>1, SeqElement
    <2>3. v \in [1..Len(named(name)) -> STRING]
      BY <2>1, <2>2
    <2>4. v \in Seq(STRING)
      BY <2>1, <2>3, SeqMade
    <2>5. ToSet(v) \subseteq {h.value : h \in {g \in ToSet(headers) : g.name = name}}
      BY <1>3, <2>1 DEF ToSet
    <2> QED
      BY <1>2, <2>4, <2>5
  <1> QED
    BY <1>2, <1>4

(* A name that is there has a value.                                       *)
LEMMA SomeValue ==
  ASSUME NEW headers \in Headers, NEW name \in DOMAIN HeadersToMap(headers)
  PROVE  1 \in DOMAIN HeadersToMap(headers)[name]
  <1> DEFINE own   == {i \in DOMAIN headers : headers[i].name = name}
             named == Picked(headers, own)
             H     == [name : DOMAIN Fold, value : STRING]
  <1>1. headers \in Seq(H)
    BY DEF Headers
  <1>2. HeadersToMap(headers)[name] = [i \in DOMAIN named |-> named[i].value]
    BY DEF HeadersToMap
  <1>3. PICK i \in DOMAIN headers : headers[i].name = name
    <2>1. name \in {h.name : h \in ToSet(headers)}
      BY HeaderValues
    <2>2. PICK h \in ToSet(headers) : h.name = name
      BY <2>1
    <2>3. PICK i \in DOMAIN headers : headers[i] = h
      BY DEF ToSet
    <2> QED
      BY <2>2, <2>3
  <1>4. i \in own /\ own \in SUBSET DOMAIN headers
    BY <1>3
  <1>5. Cardinality(own) \in Nat /\ Cardinality(own) # 0
    <2>1. IsFiniteSet(DOMAIN headers)
      BY <1>1, FS_Interval
    <2>2. IsFiniteSet(own)
      BY <1>4, <2>1, FS_Subset
    <2> QED
      BY <1>4, <2>2, FS_CardinalityType, FS_EmptySet
  <1> HIDE DEF own, H
  <1>6. Len(named) = Cardinality(own) /\ named \in Seq(H)
    BY <1>1, <1>4, PickedFacts
  <1> HIDE DEF named
  <1>7. 1 \in DOMAIN named
    BY <1>5, <1>6
  <1> QED
    BY <1>2, <1>7

LEMMA SpellingsFold ==
  ASSUME NEW r, r.headers \in Headers
  PROVE  Spellings(r) \subseteq DOMAIN Fold
  <1> DEFINE H == [name : DOMAIN Fold, value : STRING]
  <1>1. ASSUME NEW h \in ToSet(r.headers) PROVE h.name \in DOMAIN Fold
    <2>1. r.headers \in Seq(H)
      BY DEF Headers
    <2>2. PICK i \in DOMAIN r.headers : h = r.headers[i]
      BY DEF ToSet
    <2>3. h \in H
      <3> HIDE DEF H
      <3> QED
        BY <2>1, <2>2, SeqElement
    <2> QED
      BY <2>3
  <1> QED
    BY <1>1 DEF Spellings

(* What a name's headers are is found under any spelling of the name, if   *)
(* the response itself has one.                                            *)
LEMMA FoundIs ==
  ASSUME NEW r, r.headers \in Headers, OneSpelling(r), NEW n \in DOMAIN Fold
  PROVE  Found(HeadersToMap(r.headers), n) = {Value(Folded(r), Fold[n])}
  <1> DEFINE headers == HeadersToMap(r.headers)
             alike   == {m \in DOMAIN headers : Fold[m] = Fold[n]}
  <1>1. DOMAIN headers = Spellings(r)
    BY HeaderValues DEF Spellings
  <1>2. \A m \in Spellings(r) : m \in DOMAIN Fold
    BY SpellingsFold
  <1>3. DOMAIN Folded(r) = {Fold[m] : m \in Spellings(r)}
    BY DEF Folded
  <1>4. CASE alike = {}
    <2>1. Fold[n] \notin DOMAIN Folded(r)
      BY <1>1, <1>3, <1>4
    <2>2. n \notin DOMAIN headers
      BY <1>4
    <2> QED
      BY <1>4, <2>1, <2>2 DEF Found, Value
  <1>5. CASE alike # {}
    <2>1. PICK m \in Spellings(r) : Fold[m] = Fold[n]
      BY <1>1, <1>5
    <2>2. \A k \in Spellings(r) : Fold[k] = Fold[n] => k = m
      BY <2>1 DEF OneSpelling
    <2>3. alike = {m}
      BY <1>1, <2>1, <2>2
    <2>4. (CHOOSE k \in Spellings(r) : Fold[k] = Fold[n]) = m
      BY <2>1, <2>2
    <2>5. Fold[n] \in DOMAIN Folded(r) /\ Folded(r)[Fold[n]] = headers[m]
      BY <2>1, <2>4 DEF Folded
    <2>6. Value(Folded(r), Fold[n]) = headers[m]
      BY <2>5 DEF Value
    <2>7. n \in DOMAIN headers => n = m
      BY <1>1, <2>2
    <2> HIDE DEF headers
    <2>8. Value(headers, n) # Empty => Value(headers, n) = headers[m]
      BY <2>7 DEF Value
    <2>9. {headers[k] : k \in alike} = {headers[m]}
      BY <2>3
    <2>10. Found(headers, n) = {headers[m]}
      BY <1>5, <2>8, <2>9 DEF Found
    <2> QED
      BY <2>6, <2>10 DEF headers
  <1> QED
    BY <1>4, <1>5

(* compareHeaders has one outcome for such responses, and it is exact.     *)
LEMMA HeadersCompared ==
  ASSUME NEW o, o.headers \in Headers, OneSpelling(o),
         NEW r, r.headers \in Headers, OneSpelling(r),
         NEW changed \in CompareHeaders(HeadersToMap(o.headers), HeadersToMap(r.headers))
  PROVE  /\ DOMAIN changed = Spellings(o) \cup Spellings(r)
         /\ \A n \in DOMAIN changed :
              /\ n \in DOMAIN Fold
              /\ changed[n] = (Value(Folded(o), Fold[n]) # Value(Folded(r), Fold[n]))
  <1>1. DOMAIN HeadersToMap(o.headers) = Spellings(o) /\ DOMAIN HeadersToMap(r.headers) = Spellings(r)
    BY HeaderValues DEF Spellings
  <1>2. Spellings(o) \cup Spellings(r) \subseteq DOMAIN Fold
    BY SpellingsFold
  <1>3. /\ DOMAIN changed = Spellings(o) \cup Spellings(r)
        /\ \A n \in DOMAIN changed :
             \E a \in Found(HeadersToMap(o.headers), n), b \in Found(HeadersToMap(r.headers), n) :
               changed[n] = (a # b)
    BY <1>1 DEF CompareHeaders
  <1>4. ASSUME NEW n \in DOMAIN changed
        PROVE  changed[n] = (Value(Folded(o), Fold[n]) # Value(Folded(r), Fold[n]))
    <2>1. n \in DOMAIN Fold
      BY <1>2, <1>3
    <2>2. /\ Found(HeadersToMap(o.headers), n) = {Value(Folded(o), Fold[n])}
          /\ Found(HeadersToMap(r.headers), n) = {Value(Folded(r), Fold[n])}
      BY <2>1, FoundIs
    <2> QED
      BY <1>3, <2>2
  <1> QED
    BY <1>2, <1>3, <1>4

----------------------------------------------------------------------------
(* JSON values. *)

LEMMA JSONFacts ==
  ASSUME NEW v \in JSON
  PROVE  /\ Depth[v] \in Nat
         /\ v.kind \in {"null", "scalar", "array", "object"}
         /\ v.kind = "array"  =>
              /\ v = [kind |-> "array", items |-> v.items] /\ v.items \in Seq(JSON)
              /\ \A i \in DOMAIN v.items :
                   v.items[i] \in Parts(v) /\ v.items[i] \in JSON /\ Depth[v.items[i]] < Depth[v]
         /\ v.kind = "object" =>
              /\ v = [kind |-> "object", fields |-> v.fields]
              /\ v.fields \in [DOMAIN v.fields -> JSON]
              /\ \A k \in DOMAIN v.fields :
                   v.fields[k] \in Parts(v) /\ v.fields[k] \in JSON /\ Depth[v.fields[k]] < Depth[v]
  <1>1. /\ Depth[v] \in Nat /\ v.kind \in {"null", "scalar", "array", "object"}
        /\ \A part \in Parts(v) : Depth[part] < Depth[v]
    BY JSONAssumption
  <1>2. CASE v.kind = "array"
    <2>1. v = [kind |-> "array", items |-> v.items] /\ v.items \in Seq(JSON)
      BY <1>2, JSONAssumption
    <2>2. Parts(v) = ToSet(v.items)
      BY <1>2 DEF Parts
    <2>3. ASSUME NEW i \in DOMAIN v.items PROVE v.items[i] \in Parts(v) /\ v.items[i] \in JSON
      BY <2>1, <2>2, SeqElement DEF ToSet
    <2> QED
      BY <1>1, <1>2, <2>1, <2>3
  <1>3. CASE v.kind = "object"
    <2>1. v = [kind |-> "object", fields |-> v.fields] /\ v.fields \in [DOMAIN v.fields -> JSON]
      BY <1>3, JSONAssumption
    <2>2. Parts(v) = {v.fields[k] : k \in DOMAIN v.fields}
      BY <1>3 DEF Parts
    <2>3. ASSUME NEW k \in DOMAIN v.fields PROVE v.fields[k] \in Parts(v) /\ v.fields[k] \in JSON
      BY <2>1, <2>2
    <2> QED
      BY <1>1, <1>3, <2>1, <2>3
  <1> QED
    BY <1>1, <1>2, <1>3

(* Of the comparison of the values below only those of parts matter.       *)
LEMMA OnlyParts ==
  ASSUME NEW f, NEW g, NEW v \in JSON, NEW w \in JSON,
         \A a \in Parts(v), b \in JSON : f[<<a, b>>] = g[<<a, b>>]
  PROVE  CompareBy(f, v, w) = CompareBy(g, v, w)
  <1>1. CASE v.kind = "object" /\ w.kind = "object"
    <2> DEFINE Change(h, k) ==
          CASE k \notin DOMAIN w.fields -> At(Key(k), "deleted")
            [] k \notin DOMAIN v.fields -> At(Key(k), "added")
            [] OTHER                    -> Below(Key(k), h[<<v.fields[k], w.fields[k]>>])
    <2>1. /\ CompareBy(f, v, w) = UNION {Change(f, k) : k \in DOMAIN v.fields \cup DOMAIN w.fields}
          /\ CompareBy(g, v, w) = UNION {Change(g, k) : k \in DOMAIN v.fields \cup DOMAIN w.fields}
      BY <1>1 DEF CompareBy, CompareObjects
    <2>2. ASSUME NEW k \in DOMAIN v.fields \cup DOMAIN w.fields
          PROVE  Change(f, k) = Change(g, k)
      <3>1. CASE k \in DOMAIN v.fields /\ k \in DOMAIN w.fields
        <4>1. v.fields[k] \in Parts(v) /\ w.fields[k] \in JSON
          BY <1>1, <3>1, JSONFacts
        <4>2. f[<<v.fields[k], w.fields[k]>>] = g[<<v.fields[k], w.fields[k]>>]
          BY <4>1
        <4> QED
          BY <3>1, <4>2
      <3>2. CASE ~(k \in DOMAIN v.fields /\ k \in DOMAIN w.fields)
        BY <3>2
      <3> QED
        BY <3>1, <3>2
    <2> HIDE DEF Change
    <2> QED
      BY <2>1, <2>2
  <1>2. CASE v.kind = "array" /\ w.kind = "array"
    <2> DEFINE Change(h, i) ==
          CASE i \notin DOMAIN w.items -> At(Index(i), "deleted")
            [] i \notin DOMAIN v.items -> At(Index(i), "added")
            [] OTHER                   -> Below(Index(i), h[<<v.items[i], w.items[i]>>])
    <2>1. /\ CompareBy(f, v, w) = UNION {Change(f, i) : i \in DOMAIN v.items \cup DOMAIN w.items}
          /\ CompareBy(g, v, w) = UNION {Change(g, i) : i \in DOMAIN v.items \cup DOMAIN w.items}
      BY <1>2 DEF CompareBy, CompareArrays
    <2>2. ASSUME NEW i \in DOMAIN v.items \cup DOMAIN w.items
          PROVE  Change(f, i) = Change(g, i)
      <3>1. CASE i \in DOMAIN v.items /\ i \in DOMAIN w.items
        <4>1. v.items[i] \in Parts(v) /\ w.items[i] \in JSON
          BY <1>2, <3>1, JSONFacts
        <4>2. f[<<v.items[i], w.items[i]>>] = g[<<v.items[i], w.items[i]>>]
          BY <4>1
        <4> QED
          BY <3>1, <4>2
      <3>2. CASE ~(i \in DOMAIN v.items /\ i \in DOMAIN w.items)
        BY <3>2
      <3> QED
        BY <3>1, <3>2
    <2> HIDE DEF Change
    <2> QED
      BY <2>1, <2>2
  <1>3. CASE /\ ~(v.kind = "object" /\ w.kind = "object")
             /\ ~(v.kind = "array" /\ w.kind = "array")
    BY <1>3 DEF CompareBy
  <1> QED
    BY <1>1, <1>2, <1>3

(* The comparison of all values that are not deeper than n. *)
Shallow(n) == {p \in JSON \X JSON : Depth[p[1]] <= n}

Comparison(f, S) == f = [p \in S |-> CompareBy(f, p[1], p[2])]

LEMMA ShallowFacts ==
  ASSUME NEW n \in Nat, NEW p \in JSON \X JSON
  PROVE  /\ p[1] \in JSON /\ p[2] \in JSON /\ p = <<p[1], p[2]>> /\ Depth[p[1]] \in Nat
         /\ p \in Shallow(n) <=> Depth[p[1]] <= n
         /\ \A a \in Parts(p[1]), b \in JSON :
              <<a, b>> \in JSON \X JSON /\ <<a, b>>[1] = a /\ Depth[a] \in Nat /\ Depth[a] < Depth[p[1]]
  <1>1. p[1] \in JSON /\ p[2] \in JSON /\ p = <<p[1], p[2]>>
    OBVIOUS
  <1>2. Depth[p[1]] \in Nat
    BY <1>1, JSONFacts
  <1>3. ASSUME NEW a \in Parts(p[1])
        PROVE  a \in JSON /\ Depth[a] \in Nat /\ Depth[a] < Depth[p[1]]
    <2>1. a \in JSON
      <3>1. p[1].kind \in {"null", "scalar", "array", "object"}
        BY <1>1, JSONFacts
      <3>2. CASE p[1].kind = "object"
        <4>1. PICK k \in DOMAIN p[1].fields : a = p[1].fields[k]
          BY <3>2 DEF Parts
        <4> QED
          BY <1>1, <3>2, <4>1, JSONFacts
      <3>3. CASE p[1].kind = "array"
        <4>1. PICK i \in DOMAIN p[1].items : a = p[1].items[i]
          BY <3>3 DEF Parts, ToSet
        <4> QED
          BY <1>1, <3>3, <4>1, JSONFacts
      <3>4. CASE p[1].kind \notin {"object", "array"}
        BY <3>4 DEF Parts
      <3> QED
        BY <3>2, <3>3, <3>4
    <2> QED
      BY <1>1, <2>1, JSONFacts, JSONAssumption
  <1> QED
    BY <1>1, <1>2, <1>3 DEF Shallow

(* There is at most one such comparison, as far as two of them go. *)
LEMMA OneComparison ==
  ASSUME NEW m \in Nat, NEW n \in Nat, m <= n,
         NEW f, Comparison(f, Shallow(m)), NEW g, Comparison(g, Shallow(n)),
         NEW p \in Shallow(m)
  PROVE  f[p] = g[p]
  <1> DEFINE Wrong == {d \in Nat : \E q \in Shallow(m) : Depth[q[1]] = d /\ f[q] # g[q]}
  <1>1. SUFFICES ASSUME f[p] # g[p] PROVE FALSE
    OBVIOUS
  <1>2. p \in JSON \X JSON /\ Depth[p[1]] \in Nat
    BY ShallowFacts DEF Shallow
  <1>3. Wrong # {} /\ Wrong \subseteq Nat
    BY <1>1, <1>2
  <1>4. PICK d \in Wrong : \A e \in Wrong : d <= e
    BY <1>3, LeastElement
  <1>5. PICK q \in Shallow(m) : Depth[q[1]] = d /\ f[q] # g[q]
    BY <1>4
  <1>6. q \in JSON \X JSON /\ q[1] \in JSON /\ q[2] \in JSON /\ d \in Nat /\ d <= m
    BY <1>5, ShallowFacts DEF Shallow
  <1>7. ASSUME NEW a \in Parts(q[1]), NEW b \in JSON
        PROVE  f[<<a, b>>] = g[<<a, b>>]
    <2>1. <<a, b>> \in JSON \X JSON /\ <<a, b>>[1] = a /\ Depth[a] \in Nat /\ Depth[a] < d
      BY <1>5, <1>6, ShallowFacts
    <2>2. <<a, b>> \in Shallow(m)
      BY <1>6, <2>1, ShallowFacts
    <2>3. Depth[a] \notin Wrong
      BY <1>4, <1>6, <2>1
    <2> QED
      BY <2>1, <2>2, <2>3
  <1>8. CompareBy(f, q[1], q[2]) = CompareBy(g, q[1], q[2])
    BY <1>6, <1>7, OnlyParts
  <1>9. q \in Shallow(n)
    BY <1>5, <1>6, ShallowFacts
  <1>10. f[q] = CompareBy(f, q[1], q[2]) /\ g[q] = CompareBy(g, q[1], q[2])
    BY <1>5, <1>9 DEF Comparison
  <1> QED
    BY <1>5, <1>8, <1>10

(* To every depth there is one. *)
LEMMA EachComparison ==
  ASSUME NEW n \in Nat
  PROVE  \E f : Comparison(f, Shallow(n))
  <1> DEFINE Missing == {d \in Nat : ~ \E f : Comparison(f, Shallow(d))}
  <1>1. SUFFICES ASSUME n \in Missing PROVE FALSE
    OBVIOUS
  <1>2. PICK d \in Missing : \A e \in Missing : d <= e
    BY <1>1, LeastElement
  <1>3. d \in Nat /\ ~ \E f : Comparison(f, Shallow(d))
    BY <1>2
  <1>4. PICK g : d # 0 => Comparison(g, Shallow(d - 1))
    <2>1. CASE d = 0
      BY <2>1
    <2>2. CASE d # 0
      <3>1. d - 1 \in Nat /\ d - 1 < d
        BY <1>3, <2>2
      <3>2. d - 1 \notin Missing
        BY <1>2, <1>3, <3>1
      <3> QED
        BY <3>1, <3>2
    <2> QED
      BY <2>1, <2>2
  <1> DEFINE h == [p \in Shallow(d) |-> CompareBy(g, p[1], p[2])]
  <1>5. ASSUME NEW p \in Shallow(d)
        PROVE  CompareBy(g, p[1], p[2]) = CompareBy(h, p[1], p[2])
    <2>1. p \in JSON \X JSON /\ p[1] \in JSON /\ p[2] \in JSON /\ Depth[p[1]] \in Nat /\ Depth[p[1]] <= d
      BY <1>3, ShallowFacts DEF Shallow
    <2>2. ASSUME NEW a \in Parts(p[1]), NEW b \in JSON
          PROVE  g[<<a, b>>] = h[<<a, b>>]
      <3>1. <<a, b>> \in JSON \X JSON /\ <<a, b>>[1] = a /\ Depth[a] \in Nat /\ Depth[a] < Depth[p[1]]
        BY <1>3, <2>1, ShallowFacts
      <3>2. d # 0 /\ d - 1 \in Nat /\ Depth[a] <= d - 1 /\ Depth[a] <= d
        BY <1>3, <2>1, <3>1
      <3>3. <<a, b>> \in Shallow(d - 1) /\ <<a, b>> \in Shallow(d)
        BY <1>3, <3>1, <3>2, ShallowFacts
      <3>4. g[<<a, b>>] = CompareBy(g, <<a, b>>[1], <<a, b>>[2])
        BY <1>4, <3>2, <3>3 DEF Comparison
      <3>5. h[<<a, b>>] = CompareBy(g, <<a, b>>[1], <<a, b>>[2])
        BY <3>3
      <3> QED
        BY <3>4, <3>5
    <2> HIDE DEF h
    <2> QED
      BY <2>1, <2>2, OnlyParts
  <1>6. h = [p \in Shallow(d) |-> CompareBy(h, p[1], p[2])]
    <2> HIDE DEF h
    <2>1. h = [p \in Shallow(d) |-> CompareBy(g, p[1], p[2])]
      BY DEF h
    <2> QED
      BY <1>5, <2>1
  <1>7. Comparison(h, Shallow(d))
    <2> HIDE DEF h
    <2> QED
      BY <1>6 DEF Comparison
  <1> QED
    BY <1>3, <1>7

(* So compareJSONValues, which calls itself, is what its definition says.  *)
LEMMA ValuesCompared ==
  ASSUME NEW v \in JSON, NEW w \in JSON
  PROVE  CompareValues[<<v, w>>] = CompareBy(CompareValues, v, w)
  <1> DEFINE F(n) == CHOOSE f : Comparison(f, Shallow(n))
             all  == [p \in JSON \X JSON |-> F(Depth[p[1]])[p]]
  <1>1. ASSUME NEW n \in Nat PROVE Comparison(F(n), Shallow(n))
    BY EachComparison
  <1>2. ASSUME NEW p \in JSON \X JSON
        PROVE  all[p] = CompareBy(all, p[1], p[2])
    <2> DEFINE n == Depth[p[1]]
    <2>1. p[1] \in JSON /\ p[2] \in JSON /\ n \in Nat
      BY ShallowFacts
    <2>2. p \in Shallow(n)
      BY <2>1, ShallowFacts
    <2>3. all[p] = F(n)[p]
      OBVIOUS
    <2>4. F(n)[p] = CompareBy(F(n), p[1], p[2])
      <3>1. Comparison(F(n), Shallow(n))
        BY <1>1, <2>1
      <3> HIDE DEF F, n
      <3> QED
        BY <2>2, <3>1 DEF Comparison
    <2>5. ASSUME NEW a \in Parts(p[1]), NEW b \in JSON
          PROVE  F(n)[<<a, b>>] = all[<<a, b>>]
      <3>1. <<a, b>> \in JSON \X JSON /\ <<a, b>>[1] = a /\ Depth[a] \in Nat /\ Depth[a] < n
        BY <2>1, ShallowFacts
      <3>2. all[<<a, b>>] = F(Depth[a])[<<a, b>>]
        BY <3>1
      <3>3. <<a, b>> \in Shallow(Depth[a])
        BY <3>1, ShallowFacts
      <3>4. Comparison(F(n), Shallow(n)) /\ Comparison(F(Depth[a]), Shallow(Depth[a]))
        BY <1>1, <2>1, <3>1
      <3> HIDE DEF F, all, n
      <3>5. F(Depth[a])[<<a, b>>] = F(n)[<<a, b>>]
        BY <2>1, <3>1, <3>3, <3>4, OneComparison
      <3> QED
        BY <3>2, <3>5
    <2> HIDE DEF all, F, n
    <2>6. CompareBy(F(n), p[1], p[2]) = CompareBy(all, p[1], p[2])
      BY <2>1, <2>5, OnlyParts
    <2> QED
      BY <2>3, <2>4, <2>6
  <1>3. all = [p \in JSON \X JSON |-> CompareBy(all, p[1], p[2])]
    <2>1. all = [p \in JSON \X JSON |-> all[p]]
      OBVIOUS
    <2> HIDE DEF all
    <2> QED
      BY <1>2, <2>1
  <1> HIDE DEF all
  <1>4. CompareValues = [p \in JSON \X JSON |-> CompareBy(CompareValues, p[1], p[2])]
    BY <1>3 DEF CompareValues
  <1>5. <<v, w>> \in JSON \X JSON /\ <<v, w>>[1] = v /\ <<v, w>>[2] = w
    OBVIOUS
  <1> QED
    BY <1>4, <1>5

LEMMA SomeDifference ==
  ASSUME NEW step, NEW change, NEW diffs
  PROVE  At(step, change) # {} /\ (Below(step, diffs) = {} <=> diffs = {})
  <1>1. Difference(<<step>>, change) \in At(step, change)
    BY DEF At
  <1>2. \A d \in diffs : Difference(<<step>> \o d.path, d.change) \in Below(step, diffs)
    BY DEF Below
  <1>3. diffs = {} => Below(step, diffs) = {}
    BY DEF Below
  <1> QED
    BY <1>1, <1>2, <1>3

(* The comparison reports nothing exactly of values that are the same.     *)
LEMMA NothingToReport ==
  ASSUME NEW v \in JSON, NEW w \in JSON
  PROVE  CompareValues[<<v, w>>] = {} <=> v = w
  <1> DEFINE Right(p) == CompareValues[p] = {} <=> p[1] = p[2]
             Wrong    == {d \in Nat : \E p \in JSON \X JSON : Depth[p[1]] = d /\ ~Right(p)}
  <1>1. SUFFICES ASSUME ~Right(<<v, w>>) PROVE FALSE
    OBVIOUS
  <1>2. Depth[v] \in Wrong
    <2>1. <<v, w>> \in JSON \X JSON /\ Depth[<<v, w>>[1]] = Depth[v] /\ Depth[v] \in Nat
      BY JSONFacts
    <2> HIDE DEF Right
    <2> QED
      BY <1>1, <2>1
  <1>3. PICK d \in Wrong : \A e \in Wrong : d <= e
    BY <1>2, LeastElement
  <1>4. PICK p \in JSON \X JSON : Depth[p[1]] = d /\ ~Right(p)
    BY <1>3
  <1> DEFINE x == p[1]
             y == p[2]
  <1>5. x \in JSON /\ y \in JSON /\ p = <<x, y>> /\ Depth[x] = d /\ d \in Nat
    BY <1>4, ShallowFacts
  <1>6. CompareValues[p] = CompareBy(CompareValues, x, y)
    BY <1>5, ValuesCompared
  <1>7. ASSUME NEW a \in Parts(x), NEW b \in JSON
        PROVE  CompareValues[<<a, b>>] = {} <=> a = b
    <2>1. <<a, b>> \in JSON \X JSON /\ <<a, b>>[1] = a /\ Depth[a] \in Nat /\ Depth[a] < d
      BY <1>4, <1>5, ShallowFacts
    <2>2. Depth[a] \notin Wrong
      BY <1>3, <1>5, <2>1
    <2>3. Right(<<a, b>>)
      <3> HIDE DEF Right
      <3> QED
        BY <2>1, <2>2
    <2> QED
      BY <2>3
  <1>8. ~(CompareBy(CompareValues, x, y) = {} <=> x = y)
    BY <1>4, <1>6
  <1> HIDE DEF x, y
  <1>9. CASE x.kind = "object" /\ y.kind = "object"
    <2> DEFINE Change(k) ==
          CASE k \notin DOMAIN y.fields -> At(Key(k), "deleted")
            [] k \notin DOMAIN x.fields -> At(Key(k), "added")
            [] OTHER                    -> Below(Key(k), CompareValues[<<x.fields[k], y.fields[k]>>])
    <2>1. CompareBy(CompareValues, x, y) =
            UNION {Change(k) : k \in DOMAIN x.fields \cup DOMAIN y.fields}
      BY <1>9 DEF CompareBy, CompareObjects
    <2>2. ASSUME NEW k \in DOMAIN x.fields \cup DOMAIN y.fields
          PROVE  Change(k) = {} <=> /\ k \in DOMAIN x.fields /\ k \in DOMAIN y.fields
                                    /\ x.fields[k] = y.fields[k]
      <3>1. CASE k \in DOMAIN x.fields /\ k \in DOMAIN y.fields
        <4>1. x.fields[k] \in Parts(x) /\ y.fields[k] \in JSON
          BY <1>5, <1>9, <3>1, JSONFacts
        <4>2. Change(k) = Below(Key(k), CompareValues[<<x.fields[k], y.fields[k]>>])
          BY <3>1
        <4>3. CompareValues[<<x.fields[k], y.fields[k]>>] = {} <=> x.fields[k] = y.fields[k]
          BY <1>7, <4>1
        <4> HIDE DEF Change
        <4>4. Change(k) = {} <=> x.fields[k] = y.fields[k]
          BY <4>2, <4>3, SomeDifference
        <4> QED
          BY <3>1, <4>4
      <3>2. CASE k \notin DOMAIN y.fields
        BY <3>2, SomeDifference
      <3>3. CASE k \in DOMAIN y.fields /\ k \notin DOMAIN x.fields
        BY <3>3, SomeDifference
      <3> QED
        BY <3>1, <3>2, <3>3
    <2> HIDE DEF Change
    <2>3. CompareBy(CompareValues, x, y) = {} <=>
            \A k \in DOMAIN x.fields \cup DOMAIN y.fields : Change(k) = {}
      BY <2>1
    <2>4. CompareBy(CompareValues, x, y) = {} <=>
            /\ DOMAIN x.fields = DOMAIN y.fields
            /\ \A k \in DOMAIN x.fields : x.fields[k] = y.fields[k]
      BY <2>2, <2>3
    <2>5. /\ x = [kind |-> "object", fields |-> x.fields]
          /\ y = [kind |-> "object", fields |-> y.fields]
          /\ x.fields \in [DOMAIN x.fields -> JSON] /\ y.fields \in [DOMAIN y.fields -> JSON]
      BY <1>5, <1>9, JSONFacts
    <2>6. x.fields = y.fields <=> /\ DOMAIN x.fields = DOMAIN y.fields
                                  /\ \A k \in DOMAIN x.fields : x.fields[k] = y.fields[k]
      BY <2>5
    <2>7. x = y <=> x.fields = y.fields
      BY <2>5
    <2> QED
      BY <1>8, <2>4, <2>6, <2>7
  <1>10. CASE x.kind = "array" /\ y.kind = "array"
    <2> DEFINE Change(i) ==
          CASE i \notin DOMAIN y.items -> At(Index(i), "deleted")
            [] i \notin DOMAIN x.items -> At(Index(i), "added")
            [] OTHER                   -> Below(Index(i), CompareValues[<<x.items[i], y.items[i]>>])
    <2>1. CompareBy(CompareValues, x, y) =
            UNION {Change(i) : i \in DOMAIN x.items \cup DOMAIN y.items}
      BY <1>10 DEF CompareBy, CompareArrays
    <2>2. ASSUME NEW i \in DOMAIN x.items \cup DOMAIN y.items
          PROVE  Change(i) = {} <=> /\ i \in DOMAIN x.items /\ i \in DOMAIN y.items
                                    /\ x.items[i] = y.items[i]
      <3>1. CASE i \in DOMAIN x.items /\ i \in DOMAIN y.items
        <4>1. x.items[i] \in Parts(x) /\ y.items[i] \in JSON
          BY <1>5, <1>10, <3>1, JSONFacts
        <4>2. Change(i) = Below(Index(i), CompareValues[<<x.items[i], y.items[i]>>])
          BY <3>1
        <4>3. CompareValues[<<x.items[i], y.items[i]>>] = {} <=> x.items[i] = y.items[i]
          BY <1>7, <4>1
        <4> HIDE DEF Change
        <4>4. Change(i) = {} <=> x.items[i] = y.items[i]
          BY <4>2, <4>3, SomeDifference
        <4> QED
          BY <3>1, <4>4
      <3>2. CASE i \notin DOMAIN y.items
        BY <3>2, SomeDifference
      <3>3. CASE i \in DOMAIN y.items /\ i \notin DOMAIN x.items
        BY <3>3, SomeDifference
      <3> QED
        BY <3>1, <3>2, <3>3
    <2> HIDE DEF Change
    <2>3. CompareBy(CompareValues, x, y) = {} <=>
            \A i \in DOMAIN x.items \cup DOMAIN y.items : Change(i) = {}
      BY <2>1
    <2>4. CompareBy(CompareValues, x, y) = {} <=>
            /\ DOMAIN x.items = DOMAIN y.items
            /\ \A i \in DOMAIN x.items : x.items[i] = y.items[i]
      BY <2>2, <2>3
    <2>5. /\ x = [kind |-> "array", items |-> x.items] /\ y = [kind |-> "array", items |-> y.items]
          /\ x.items \in Seq(JSON) /\ y.items \in Seq(JSON)
      BY <1>5, <1>10, JSONFacts
    <2>6. x.items = y.items <=> /\ DOMAIN x.items = DOMAIN y.items
                                /\ \A i \in DOMAIN x.items : x.items[i] = y.items[i]
      <3>1. x.items \in [DOMAIN x.items -> JSON] /\ y.items \in [DOMAIN y.items -> JSON]
        BY <2>5
      <3> QED
        BY <3>1
    <2>7. x = y <=> x.items = y.items
      BY <2>5
    <2> QED
      BY <1>8, <2>4, <2>6, <2>7
  <1>11. CASE x.kind \in {"object", "array"} /\ y.kind # x.kind
    <2>1. CompareBy(CompareValues, x, y) = {Difference(<<>>, "type_changed")}
      BY <1>11 DEF CompareBy
    <2> QED
      BY <1>8, <1>11, <2>1
  <1>12. CASE x.kind \notin {"object", "array"}
    <2>1. CompareBy(CompareValues, x, y) =
            IF x = y THEN {} ELSE {Difference(<<>>, "value_changed")}
      BY <1>12 DEF CompareBy
    <2> QED
      BY <1>8, <2>1
  <1> QED
    BY <1>9, <1>10, <1>11, <1>12

----------------------------------------------------------------------------
(* What is inside JSON values. *)

LEMMA KeysApart ==
  ASSUME NEW j, NEW k
  PROVE  Key(j) = Key(k) => j = k
  BY DEF Key

LEMMA IndicesApart ==
  ASSUME NEW i \in Nat, NEW j \in Nat
  PROVE  /\ Index(i) = Index(j) => i = j
         /\ Index(i)[2] + 1 = i
  <1>1. Index(i)[2] = i - 1 /\ Index(j)[2] = j - 1
    BY DEF Index
  <1>2. i - 1 + 1 = i /\ j - 1 + 1 = j
    OBVIOUS
  <1> QED
    BY <1>1, <1>2

LEMMA ObjectChildren ==
  ASSUME NEW v \in JSON, v.kind = "object"
  PROVE  /\ DOMAIN Children(v) = {Key(k) : k \in DOMAIN v.fields}
         /\ \A k \in DOMAIN v.fields : Children(v)[Key(k)] = v.fields[k]
  <1>1. Children(v) = [s \in {Key(k) : k \in DOMAIN v.fields} |-> v.fields[s[2]]]
    BY DEF Children
  <1>2. \A k : Key(k)[2] = k
    BY DEF Key
  <1> QED
    BY <1>1, <1>2

LEMMA ArrayChildren ==
  ASSUME NEW v \in JSON, v.kind = "array"
  PROVE  /\ DOMAIN Children(v) = {Index(i) : i \in DOMAIN v.items}
         /\ DOMAIN v.items \subseteq Nat
         /\ \A i \in DOMAIN v.items : Children(v)[Index(i)] = v.items[i]
  <1>1. Children(v) = [s \in {Index(i) : i \in DOMAIN v.items} |-> v.items[s[2] + 1]]
    BY DEF Children
  <1>2. v.items \in Seq(JSON)
    BY JSONFacts
  <1>3. DOMAIN v.items \subseteq Nat
    BY <1>2
  <1>4. \A i \in DOMAIN v.items : Index(i)[2] + 1 = i
    BY <1>3, IndicesApart
  <1> QED
    BY <1>1, <1>3, <1>4

LEMMA NoChildren ==
  ASSUME NEW v, v.kind \notin {"object", "array"}
  PROVE  DOMAIN Children(v) = {}
  BY DEF Children

LEMMA ChildrenFacts ==
  ASSUME NEW v \in JSON, NEW s \in DOMAIN Children(v)
  PROVE  /\ Children(v)[s] \in JSON /\ Children(v)[s] \in Parts(v)
         /\ Depth[Children(v)[s]] \in Nat /\ Depth[Children(v)[s]] < Depth[v]
  <1>1. CASE v.kind = "object"
    <2>1. PICK k \in DOMAIN v.fields : s = Key(k)
      BY <1>1, ObjectChildren
    <2>2. Children(v)[s] = v.fields[k]
      BY <1>1, <2>1, ObjectChildren
    <2> QED
      BY <1>1, <2>2, JSONFacts
  <1>2. CASE v.kind = "array"
    <2>1. PICK i \in DOMAIN v.items : s = Index(i)
      BY <1>2, ArrayChildren
    <2>2. Children(v)[s] = v.items[i]
      BY <1>2, <2>1, ArrayChildren
    <2> QED
      BY <1>2, <2>2, JSONFacts
  <1> QED
    BY <1>1, <1>2, NoChildren

(* Inside is what its definition says, as it calls itself only of parts.   *)
InsideBy(inside, v) == {[path |-> <<>>, value |-> v]} \cup
  UNION {{[path |-> <<s>> \o x.path, value |-> x.value] : x \in inside[Children(v)[s]]} :
         s \in DOMAIN Children(v)}

UpTo(n) == {v \in JSON : Depth[v] <= n}

Listing(f, S) == f = [v \in S |-> InsideBy(f, v)]

LEMMA OnlyChildren ==
  ASSUME NEW f, NEW g, NEW v, \A s \in DOMAIN Children(v) : f[Children(v)[s]] = g[Children(v)[s]]
  PROVE  InsideBy(f, v) = InsideBy(g, v)
  <1> DEFINE Below1(h, s) == {[path |-> <<s>> \o x.path, value |-> x.value] : x \in h[Children(v)[s]]}
  <1>1. /\ InsideBy(f, v) = {[path |-> <<>>, value |-> v]} \cup UNION {Below1(f, s) : s \in DOMAIN Children(v)}
        /\ InsideBy(g, v) = {[path |-> <<>>, value |-> v]} \cup UNION {Below1(g, s) : s \in DOMAIN Children(v)}
    BY DEF InsideBy
  <1>2. \A s \in DOMAIN Children(v) : Below1(f, s) = Below1(g, s)
    OBVIOUS
  <1> HIDE DEF Below1
  <1> QED
    BY <1>1, <1>2

LEMMA OneListing ==
  ASSUME NEW m \in Nat, NEW n \in Nat, m <= n,
         NEW f, Listing(f, UpTo(m)), NEW g, Listing(g, UpTo(n)),
         NEW v \in UpTo(m)
  PROVE  f[v] = g[v]
  <1> DEFINE Wrong == {d \in Nat : \E w \in UpTo(m) : Depth[w] = d /\ f[w] # g[w]}
  <1>1. SUFFICES ASSUME f[v] # g[v] PROVE FALSE
    OBVIOUS
  <1>2. Wrong # {} /\ Wrong \subseteq Nat
    BY <1>1, JSONFacts DEF UpTo
  <1>3. PICK d \in Wrong : \A e \in Wrong : d <= e
    BY <1>2, LeastElement
  <1>4. PICK w \in UpTo(m) : Depth[w] = d /\ f[w] # g[w]
    BY <1>3
  <1>5. w \in JSON /\ d \in Nat /\ d <= m
    BY <1>3, <1>4 DEF UpTo
  <1>6. ASSUME NEW s \in DOMAIN Children(w)
        PROVE  f[Children(w)[s]] = g[Children(w)[s]]
    <2> DEFINE a == Children(w)[s]
    <2>1. a \in JSON /\ Depth[a] \in Nat /\ Depth[a] < d
      BY <1>4, <1>5, ChildrenFacts
    <2> HIDE DEF a
    <2>2. a \in UpTo(m)
      BY <1>5, <2>1 DEF UpTo
    <2>3. Depth[a] \notin Wrong
      BY <1>3, <1>5, <2>1
    <2>4. f[a] = g[a]
      BY <2>1, <2>2, <2>3
    <2> QED
      BY <2>4 DEF a
  <1>7. InsideBy(f, w) = InsideBy(g, w)
    BY <1>6, OnlyChildren
  <1>8. w \in UpTo(n)
    BY <1>4, <1>5 DEF UpTo
  <1> QED
    BY <1>4, <1>7, <1>8 DEF Listing

LEMMA EachListing ==
  ASSUME NEW n \in Nat
  PROVE  \E f : Listing(f, UpTo(n))
  <1> DEFINE Missing == {d \in Nat : ~ \E f : Listing(f, UpTo(d))}
  <1>1. SUFFICES ASSUME n \in Missing PROVE FALSE
    OBVIOUS
  <1>2. PICK d \in Missing : \A e \in Missing : d <= e
    BY <1>1, LeastElement
  <1>3. d \in Nat /\ ~ \E f : Listing(f, UpTo(d))
    BY <1>2
  <1>4. PICK g : d # 0 => Listing(g, UpTo(d - 1))
    <2>1. CASE d = 0
      BY <2>1
    <2>2. CASE d # 0
      <3>1. d - 1 \in Nat /\ d - 1 < d
        BY <1>3, <2>2
      <3>2. d - 1 \notin Missing
        BY <1>2, <1>3, <3>1
      <3> QED
        BY <3>1, <3>2
    <2> QED
      BY <2>1, <2>2
  <1> DEFINE h == [v \in UpTo(d) |-> InsideBy(g, v)]
  <1>5. ASSUME NEW v \in UpTo(d)
        PROVE  InsideBy(g, v) = InsideBy(h, v)
    <2>1. ASSUME NEW s \in DOMAIN Children(v)
          PROVE  g[Children(v)[s]] = h[Children(v)[s]]
      <3> DEFINE a == Children(v)[s]
      <3>1. v \in JSON /\ Depth[v] <= d
        BY DEF UpTo
      <3>2. a \in JSON /\ Depth[a] \in Nat /\ Depth[a] < Depth[v] /\ Depth[v] \in Nat
        BY <3>1, ChildrenFacts, JSONFacts
      <3> HIDE DEF a
      <3>3. d # 0 /\ d - 1 \in Nat /\ Depth[a] <= d - 1 /\ Depth[a] <= d
        BY <1>3, <3>1, <3>2
      <3>4. a \in UpTo(d - 1) /\ a \in UpTo(d)
        BY <3>2, <3>3 DEF UpTo
      <3>5. g[a] = InsideBy(g, a) /\ h[a] = InsideBy(g, a)
        BY <1>4, <3>3, <3>4 DEF Listing
      <3> QED
        BY <3>5 DEF a
    <2> HIDE DEF h
    <2> QED
      BY <2>1, OnlyChildren
  <1>6. h = [v \in UpTo(d) |-> InsideBy(h, v)]
    <2> HIDE DEF h
    <2>1. h = [v \in UpTo(d) |-> InsideBy(g, v)]
      BY DEF h
    <2> QED
      BY <1>5, <2>1
  <1>7. Listing(h, UpTo(d))
    <2> HIDE DEF h
    <2> QED
      BY <1>6 DEF Listing
  <1> QED
    BY <1>3, <1>7

LEMMA InsideIs ==
  ASSUME NEW v \in JSON
  PROVE  Inside[v] = InsideBy(Inside, v)
  <1> DEFINE F(n) == CHOOSE f : Listing(f, UpTo(n))
             all  == [w \in JSON |-> F(Depth[w])[w]]
  <1>1. ASSUME NEW n \in Nat PROVE Listing(F(n), UpTo(n))
    BY EachListing
  <1>2. ASSUME NEW w \in JSON
        PROVE  all[w] = InsideBy(all, w)
    <2> DEFINE n == Depth[w]
    <2>1. n \in Nat /\ w \in UpTo(n)
      <3>1. n \in Nat
        BY JSONFacts
      <3>2. n <= n
        BY <3>1
      <3> QED
        BY <3>1, <3>2 DEF UpTo
    <2>2. all[w] = F(n)[w]
      OBVIOUS
    <2>3. F(n)[w] = InsideBy(F(n), w)
      <3>1. Listing(F(n), UpTo(n))
        BY <1>1, <2>1
      <3> HIDE DEF F, n
      <3> QED
        BY <2>1, <3>1 DEF Listing
    <2>4. ASSUME NEW s \in DOMAIN Children(w)
          PROVE  F(n)[Children(w)[s]] = all[Children(w)[s]]
      <3> DEFINE a == Children(w)[s]
                 k == Depth[a]
      <3>1. a \in JSON /\ k \in Nat /\ k < n
        BY ChildrenFacts
      <3>2. all[a] = F(k)[a]
        BY <3>1
      <3>3. k <= n /\ k <= k
        BY <2>1, <3>1
      <3>4. a \in UpTo(k)
        BY <3>1, <3>3 DEF UpTo
      <3>5. Listing(F(n), UpTo(n)) /\ Listing(F(k), UpTo(k))
        BY <1>1, <2>1, <3>1
      <3> HIDE DEF F, all, n, k, a
      <3>6. F(k)[a] = F(n)[a]
        BY <2>1, <3>1, <3>3, <3>4, <3>5, OneListing
      <3> QED
        BY <3>2, <3>6 DEF a
    <2> HIDE DEF all, F, n
    <2>5. InsideBy(F(n), w) = InsideBy(all, w)
      BY <2>4, OnlyChildren
    <2> QED
      BY <2>2, <2>3, <2>5
  <1>3. all = [w \in JSON |-> InsideBy(all, w)]
    <2>1. all = [w \in JSON |-> all[w]]
      OBVIOUS
    <2> HIDE DEF all
    <2> QED
      BY <1>2, <2>1
  <1> HIDE DEF all
  <1>4. Inside = [w \in JSON |-> InsideBy(Inside, w)]
    BY <1>3 DEF Inside, InsideBy
  <1> QED
    BY <1>4

(* A path is a sequence of steps to children. *)
Steps == UNION {DOMAIN Children(v) : v \in JSON}

LEMMA Prefixed ==
  ASSUME NEW S, NEW s \in S, NEW q \in Seq(S)
  PROVE  /\ <<s>> \o q \in Seq(S) /\ <<s>> \o q # <<>> /\ Len(<<s>> \o q) = Len(q) + 1
         /\ SubSeq(<<s>> \o q, 1, 0) = <<>>
         /\ \A n \in 0..Len(q) :
              SubSeq(q, 1, n) \in Seq(S) /\ SubSeq(<<s>> \o q, 1, n + 1) = <<s>> \o SubSeq(q, 1, n)
  <1>1. <<s>> \o q \in Seq(S) /\ Len(<<s>> \o q) = Len(q) + 1 /\ <<s>> \o q # <<>>
    OBVIOUS
  <1>2. SubSeq(<<s>> \o q, 1, 0) = <<>>
    BY <1>1
  <1>3. ASSUME NEW n \in 0..Len(q)
        PROVE  SubSeq(q, 1, n) \in Seq(S) /\ SubSeq(<<s>> \o q, 1, n + 1) = <<s>> \o SubSeq(q, 1, n)
    <2> DEFINE left  == SubSeq(<<s>> \o q, 1, n + 1)
               right == <<s>> \o SubSeq(q, 1, n)
    <2>1. n \in Nat /\ n <= Len(q) /\ Len(q) \in Nat
      OBVIOUS
    <2>2. SubSeq(q, 1, n) \in Seq(S) /\ Len(SubSeq(q, 1, n)) = n
      BY <2>1
    <2>3. left \in Seq(S) /\ Len(left) = n + 1
      BY <1>1, <2>1
    <2>4. right \in Seq(S) /\ Len(right) = n + 1
      BY <2>2
    <2>5. ASSUME NEW i \in 1..(n + 1) PROVE left[i] = right[i]
      <3>1. left[i] = (<<s>> \o q)[i]
        BY <1>1, <2>1
      <3>2. CASE i = 1
        BY <2>2, <3>1, <3>2
      <3>3. CASE i # 1
        <4>1. i - 1 \in 1..n /\ i - 1 \in 1..Len(q)
          BY <2>1, <3>3
        <4>2. (<<s>> \o q)[i] = q[i - 1]
          BY <2>1, <4>1
        <4>3. right[i] = SubSeq(q, 1, n)[i - 1]
          BY <2>2, <4>1
        <4>4. SubSeq(q, 1, n)[i - 1] = q[i - 1]
          BY <2>1, <4>1
        <4> QED
          BY <3>1, <4>2, <4>3, <4>4
      <3> QED
        BY <3>2, <3>3
    <2> HIDE DEF left, right
    <2>6. left = right
      BY <2>1, <2>3, <2>4, <2>5
    <2> QED
      BY <2>2, <2>6 DEF left, right
  <1> QED
    BY <1>1, <1>2, <1>3

LEMMA OneStep ==
  ASSUME NEW S, NEW s \in S, NEW q \in Seq(S), NEW t \in S, NEW r \in Seq(S),
         <<s>> \o q = <<t>> \o r
  PROVE  s = t /\ q = r
  <1>1. (<<s>> \o q)[1] = s /\ (<<t>> \o r)[1] = t
    OBVIOUS
  <1>2. Len(<<s>> \o q) = Len(q) + 1 /\ Len(<<t>> \o r) = Len(r) + 1
    OBVIOUS
  <1>3. Len(q) = Len(r) /\ Len(q) \in Nat
    BY <1>2
  <1>4. ASSUME NEW i \in 1..Len(q) PROVE q[i] = r[i]
    <2>1. (<<s>> \o q)[i + 1] = q[i] /\ (<<t>> \o r)[i + 1] = r[i]
      BY <1>3
    <2> QED
      BY <2>1
  <1> QED
    BY <1>1, <1>3, <1>4

Itself(v)  == [path |-> <<>>, value |-> v]
Under(s, y) == [path |-> <<s>> \o y.path, value |-> y.value]

LEMMA InsideShape ==
  ASSUME NEW v \in JSON
  PROVE  /\ Itself(v) \in Inside[v] /\ Itself(v).path = <<>> /\ Itself(v).value = v
         /\ \A s \in DOMAIN Children(v) : \A y \in Inside[Children(v)[s]] :
              /\ Under(s, y) \in Inside[v]
              /\ Under(s, y).path = <<s>> \o y.path /\ Under(s, y).value = y.value
         /\ \A x \in Inside[v] :
              \/ x = Itself(v)
              \/ \E s \in DOMAIN Children(v) : \E y \in Inside[Children(v)[s]] : x = Under(s, y)
  <1> DEFINE All(s) == {Under(s, y) : y \in Inside[Children(v)[s]]}
  <1>1. Inside[v] = {Itself(v)} \cup UNION {All(s) : s \in DOMAIN Children(v)}
    BY InsideIs DEF InsideBy, Itself, Under
  <1>2. Itself(v).path = <<>> /\ Itself(v).value = v
    BY DEF Itself
  <1>3. \A s, y : Under(s, y).path = <<s>> \o y.path /\ Under(s, y).value = y.value
    BY DEF Under
  <1> QED
    BY <1>1, <1>2, <1>3

LEMMA PathsAreSteps ==
  ASSUME NEW v \in JSON, NEW x \in Inside[v]
  PROVE  x.path \in Seq(Steps)
  <1> DEFINE Wrong == {d \in Nat : \E w \in JSON : Depth[w] = d
                                     /\ \E y \in Inside[w] : y.path \notin Seq(Steps)}
  <1>1. SUFFICES ASSUME x.path \notin Seq(Steps) PROVE FALSE
    OBVIOUS
  <1>2. Wrong # {} /\ Wrong \subseteq Nat
    <2>1. Depth[v] \in Nat
      BY JSONFacts
    <2>2. Depth[v] \in Wrong
      BY <1>1, <2>1
    <2> QED
      BY <2>2
  <1>3. PICK d \in Wrong : \A e \in Wrong : d <= e
    BY <1>2, LeastElement
  <1>4. PICK w \in JSON : Depth[w] = d /\ \E y \in Inside[w] : y.path \notin Seq(Steps)
    BY <1>3
  <1>5. PICK y \in Inside[w] : y.path \notin Seq(Steps)
    BY <1>4
  <1>6. <<>> \in Seq(Steps)
    OBVIOUS
  <1>7. PICK s \in DOMAIN Children(w) : \E z \in Inside[Children(w)[s]] : y = Under(s, z)
    BY <1>4, <1>5, <1>6, InsideShape
  <1>14. PICK z \in Inside[Children(w)[s]] : y = Under(s, z)
    BY <1>7
  <1> DEFINE a == Children(w)[s]
  <1>8. a \in JSON /\ Depth[a] \in Nat /\ Depth[a] < d /\ d \in Nat
    BY <1>3, <1>4, ChildrenFacts
  <1>9. z \in Inside[a]
    BY <1>14
  <1> HIDE DEF a
  <1>10. Depth[a] \notin Wrong
    BY <1>3, <1>8
  <1>11. z.path \in Seq(Steps)
    BY <1>8, <1>9, <1>10
  <1>12. s \in Steps
    BY <1>4, <1>7 DEF Steps
  <1>13. <<s>> \o z.path \in Seq(Steps)
    BY <1>11, <1>12, Prefixed
  <1> QED
    BY <1>5, <1>13, <1>14 DEF Under

(* What lies at a path. *)
ValuesAt(v, path) == {x.value : x \in {y \in Inside[v] : y.path = path}}

LEMMA ReachIs ==
  ASSUME NEW v, NEW p
  PROVE  /\ Reach(v, p) = IF ValuesAt(v, p) = {} THEN Absent ELSE CHOOSE x \in ValuesAt(v, p) : TRUE
         /\ p \in Paths(v) <=> ValuesAt(v, p) # {}
  BY DEF Reach, ValuesAt, Paths

LEMMA ValuesHere ==
  ASSUME NEW v \in JSON
  PROVE  ValuesAt(v, <<>>) = {v}
  <1>1. ASSUME NEW x \in Inside[v], x.path = <<>> PROVE x.value = v
    <2>1. ASSUME NEW s \in DOMAIN Children(v), NEW y \in Inside[Children(v)[s]]
          PROVE  x # Under(s, y)
      <3>1. Children(v)[s] \in JSON /\ s \in Steps
        BY ChildrenFacts DEF Steps
      <3>2. y.path \in Seq(Steps)
        BY <3>1, PathsAreSteps
      <3>3. <<s>> \o y.path # <<>>
        BY <3>1, <3>2, Prefixed
      <3>4. Under(s, y).path = <<s>> \o y.path
        BY InsideShape
      <3> QED
        BY <1>1, <3>3, <3>4
    <2>2. x = Itself(v)
      BY <2>1, InsideShape
    <2> QED
      BY <2>2, InsideShape
  <1>2. v \in ValuesAt(v, <<>>)
    BY InsideShape DEF ValuesAt
  <1> QED
    BY <1>1, <1>2 DEF ValuesAt

LEMMA ValuesBelow ==
  ASSUME NEW v \in JSON, NEW s \in Steps, NEW q \in Seq(Steps)
  PROVE  ValuesAt(v, <<s>> \o q) =
           IF s \in DOMAIN Children(v) THEN ValuesAt(Children(v)[s], q) ELSE {}
  <1> DEFINE p == <<s>> \o q
  <1>1. ASSUME NEW x \in Inside[v], x.path = p
        PROVE  /\ s \in DOMAIN Children(v)
               /\ \E y \in Inside[Children(v)[s]] : y.path = q /\ y.value = x.value
    <2>1. x # Itself(v)
      <3>1. p # <<>>
        BY Prefixed
      <3> HIDE DEF p
      <3> QED
        BY <1>1, <3>1, InsideShape
    <2>2. PICK t \in DOMAIN Children(v) : \E y \in Inside[Children(v)[t]] : x = Under(t, y)
      BY <2>1, InsideShape
    <2>3. PICK y \in Inside[Children(v)[t]] : x = Under(t, y)
      BY <2>2
    <2>4. t \in Steps /\ Children(v)[t] \in JSON
      BY ChildrenFacts DEF Steps
    <2>5. y.path \in Seq(Steps)
      BY <2>3, <2>4, PathsAreSteps
    <2>6. <<s>> \o q = <<t>> \o y.path /\ x.value = y.value
      BY <1>1, <2>3 DEF Under
    <2>7. s = t /\ q = y.path
      BY <2>4, <2>5, <2>6, OneStep
    <2> QED
      BY <2>3, <2>6, <2>7
  <1>2. ASSUME s \in DOMAIN Children(v), NEW y \in Inside[Children(v)[s]], y.path = q
        PROVE  \E x \in Inside[v] : x.path = p /\ x.value = y.value
    <2>1. Under(s, y) \in Inside[v] /\ Under(s, y).path = p /\ Under(s, y).value = y.value
      BY <1>2, InsideShape
    <2> QED
      BY <2>1
  <1> HIDE DEF p
  <1>3. CASE s \in DOMAIN Children(v)
    <2>1. \A value : value \in ValuesAt(v, p) <=> value \in ValuesAt(Children(v)[s], q)
      BY <1>1, <1>2, <1>3 DEF ValuesAt
    <2>2. ValuesAt(v, p) = ValuesAt(Children(v)[s], q)
      BY <2>1
    <2> QED
      BY <1>3, <2>2 DEF p
  <1>4. CASE s \notin DOMAIN Children(v)
    <2>1. ValuesAt(v, p) = {}
      BY <1>1, <1>4 DEF ValuesAt
    <2> QED
      BY <1>4, <2>1 DEF p
  <1> QED
    BY <1>3, <1>4

LEMMA ReachHere ==
  ASSUME NEW v \in JSON
  PROVE  Reach(v, <<>>) = v /\ <<>> \in Paths(v)
  <1>1. ValuesAt(v, <<>>) = {v}
    BY ValuesHere
  <1> QED
    BY <1>1, ReachIs

LEMMA ReachBelow ==
  ASSUME NEW v \in JSON, NEW s \in Steps, NEW q \in Seq(Steps)
  PROVE  /\ s \in DOMAIN Children(v) =>
              /\ Reach(v, <<s>> \o q) = Reach(Children(v)[s], q)
              /\ <<s>> \o q \in Paths(v) <=> q \in Paths(Children(v)[s])
         /\ s \notin DOMAIN Children(v) =>
              Reach(v, <<s>> \o q) = Absent /\ <<s>> \o q \notin Paths(v)
  <1>1. CASE s \in DOMAIN Children(v)
    <2>1. ValuesAt(v, <<s>> \o q) = ValuesAt(Children(v)[s], q)
      BY <1>1, ValuesBelow
    <2>2. Reach(v, <<s>> \o q) = Reach(Children(v)[s], q)
      BY <2>1, ReachIs
    <2>3. <<s>> \o q \in Paths(v) <=> q \in Paths(Children(v)[s])
      BY <2>1, ReachIs
    <2> QED
      BY <1>1, <2>2, <2>3
  <1>2. CASE s \notin DOMAIN Children(v)
    <2>1. ValuesAt(v, <<s>> \o q) = {}
      BY <1>2, ValuesBelow
    <2> QED
      BY <1>2, <2>1, ReachIs
  <1> QED
    BY <1>1, <1>2

LEMMA PathShape ==
  ASSUME NEW v \in JSON, NEW p \in Paths(v)
  PROVE  p = <<>> \/ \E s \in Steps, q \in Seq(Steps) : s \in DOMAIN Children(v) /\ p = <<s>> \o q
  <1>1. PICK x \in Inside[v] : x.path = p
    BY DEF Paths
  <1>2. CASE x = Itself(v)
    BY <1>1, <1>2, InsideShape
  <1>3. CASE \E s \in DOMAIN Children(v) : \E y \in Inside[Children(v)[s]] : x = Under(s, y)
    <2>1. PICK s \in DOMAIN Children(v) : \E y \in Inside[Children(v)[s]] : x = Under(s, y)
      BY <1>3
    <2>2. PICK y \in Inside[Children(v)[s]] : x = Under(s, y)
      BY <2>1
    <2>3. s \in Steps /\ Children(v)[s] \in JSON
      BY ChildrenFacts DEF Steps
    <2>4. y.path \in Seq(Steps)
      BY <2>2, <2>3, PathsAreSteps
    <2>5. p = <<s>> \o y.path
      BY <1>1, <2>2 DEF Under
    <2> QED
      BY <2>3, <2>4, <2>5
  <1> QED
    BY <1>2, <1>3, InsideShape

(* A path leads through containers on both sides. *)
SameAlong(v, w, p) ==
  \A n \in 0..Len(p) - 1 :
    SameContainer(Reach(v, SubSeq(p, 1, n)), Reach(w, SubSeq(p, 1, n)))

LEMMA AbsentFacts ==
  /\ \A v : ~SameContainer(v, Absent) /\ ~SameContainer(Absent, v)
  /\ Absent \notin JSON
  <1>1. Absent.kind = "absent"
    BY DEF Absent
  <1>2. Absent \notin JSON
    BY <1>1, JSONFacts
  <1> QED
    BY <1>1, <1>2 DEF SameContainer

LEMMA AlongFirst ==
  ASSUME NEW v \in JSON, NEW w \in JSON, NEW s \in Steps, NEW q \in Seq(Steps)
  PROVE  SameAlong(v, w, <<s>> \o q) <=>
           /\ SameContainer(v, w)
           /\ \A m \in 0..Len(q) - 1 :
                SameContainer(Reach(v, <<s>> \o SubSeq(q, 1, m)), Reach(w, <<s>> \o SubSeq(q, 1, m)))
  <1> DEFINE p == <<s>> \o q
             Same(n) == SameContainer(Reach(v, SubSeq(p, 1, n)), Reach(w, SubSeq(p, 1, n)))
             Next1(m) == SameContainer(Reach(v, <<s>> \o SubSeq(q, 1, m)), Reach(w, <<s>> \o SubSeq(q, 1, m)))
  <1>1. Len(p) - 1 = Len(q) /\ Len(q) \in Nat
    BY Prefixed
  <1>2. SubSeq(p, 1, 0) = <<>>
    BY Prefixed
  <1>3. Same(0) <=> SameContainer(v, w)
    BY <1>2, ReachHere
  <1>4. ASSUME NEW m \in 0..Len(q) - 1 PROVE Same(m + 1) <=> Next1(m)
    <2>1. m \in 0..Len(q)
      BY <1>1
    <2>2. SubSeq(p, 1, m + 1) = <<s>> \o SubSeq(q, 1, m)
      BY <2>1, Prefixed
    <2> QED
      BY <2>2
  <1>5. SameAlong(v, w, p) <=> \A n \in 0..Len(q) : Same(n)
    BY <1>1 DEF SameAlong
  <1> HIDE DEF Same, Next1, p
  <1>6. (\A n \in 0..Len(q) : Same(n)) <=> Same(0) /\ \A m \in 0..Len(q) - 1 : Next1(m)
    <2>1. ASSUME \A n \in 0..Len(q) : Same(n)
          PROVE  Same(0) /\ \A m \in 0..Len(q) - 1 : Next1(m)
      <3>1. Same(0)
        BY <1>1, <2>1
      <3>2. ASSUME NEW m \in 0..Len(q) - 1 PROVE Next1(m)
        <4>1. m + 1 \in 0..Len(q)
          BY <1>1
        <4> QED
          BY <1>4, <2>1, <4>1
      <3> QED
        BY <3>1, <3>2
    <2>2. ASSUME Same(0), \A m \in 0..Len(q) - 1 : Next1(m), NEW n \in 0..Len(q)
          PROVE  Same(n)
      <3>1. CASE n = 0
        BY <2>2, <3>1
      <3>2. CASE n # 0
        <4>1. n - 1 \in 0..Len(q) - 1 /\ (n - 1) + 1 = n
          BY <1>1, <3>2
        <4>2. Same((n - 1) + 1)
          BY <1>4, <2>2, <4>1
        <4> QED
          BY <4>1, <4>2
      <3> QED
        BY <3>1, <3>2
    <2> QED
      BY <2>1, <2>2
  <1> QED
    BY <1>3, <1>5, <1>6 DEF p, Next1

LEMMA AlongBelow ==
  ASSUME NEW v \in JSON, NEW w \in JSON, SameContainer(v, w), NEW s \in Steps, NEW q \in Seq(Steps)
  PROVE  SameAlong(v, w, <<s>> \o q) <=>
           IF s \in DOMAIN Children(v) \cap DOMAIN Children(w)
           THEN SameAlong(Children(v)[s], Children(w)[s], q) ELSE q = <<>>
  <1>1. ASSUME NEW m \in 0..Len(q) - 1 PROVE m \in 0..Len(q) /\ SubSeq(q, 1, m) \in Seq(Steps)
    <2>1. m \in 0..Len(q)
      OBVIOUS
    <2> QED
      BY <2>1, Prefixed
  <1>2. CASE s \in DOMAIN Children(v) \cap DOMAIN Children(w)
    <2>1. ASSUME NEW m \in 0..Len(q) - 1
          PROVE  /\ Reach(v, <<s>> \o SubSeq(q, 1, m)) = Reach(Children(v)[s], SubSeq(q, 1, m))
                 /\ Reach(w, <<s>> \o SubSeq(q, 1, m)) = Reach(Children(w)[s], SubSeq(q, 1, m))
      BY <1>1, <1>2, ReachBelow
    <2>2. SameAlong(v, w, <<s>> \o q) <=>
            \A m \in 0..Len(q) - 1 :
              SameContainer(Reach(Children(v)[s], SubSeq(q, 1, m)), Reach(Children(w)[s], SubSeq(q, 1, m)))
      BY <2>1, AlongFirst
    <2> QED
      BY <1>2, <2>2 DEF SameAlong
  <1>3. CASE s \notin DOMAIN Children(v) \cap DOMAIN Children(w)
    <2>1. ASSUME NEW m \in 0..Len(q) - 1
          PROVE  ~SameContainer(Reach(v, <<s>> \o SubSeq(q, 1, m)), Reach(w, <<s>> \o SubSeq(q, 1, m)))
      <3>1. \/ Reach(v, <<s>> \o SubSeq(q, 1, m)) = Absent
            \/ Reach(w, <<s>> \o SubSeq(q, 1, m)) = Absent
        BY <1>1, <1>3, ReachBelow
      <3> QED
        BY <3>1, AbsentFacts
    <2> DEFINE Same(m) ==
          SameContainer(Reach(v, <<s>> \o SubSeq(q, 1, m)), Reach(w, <<s>> \o SubSeq(q, 1, m)))
    <2>2. SameAlong(v, w, <<s>> \o q) <=> \A m \in 0..Len(q) - 1 : Same(m)
      BY AlongFirst
    <2>3. \A m \in 0..Len(q) - 1 : ~Same(m)
      BY <2>1
    <2>4. SameAlong(v, w, <<s>> \o q) <=> 0..Len(q) - 1 = {}
      <3> HIDE DEF Same
      <3> QED
        BY <2>2, <2>3
    <2>5. 0..Len(q) - 1 = {} <=> q = <<>>
      <3>1. ASSUME q # <<>> PROVE 0 \in 0..Len(q) - 1
        <4>1. Len(q) \in Nat /\ Len(q) # 0
          BY <3>1
        <4> QED
          BY <4>1
      <3>2. ASSUME q = <<>> PROVE 0..Len(q) - 1 = {}
        <4>1. Len(q) = 0
          BY <3>2
        <4> QED
          BY <4>1
      <3> QED
        BY <3>1, <3>2
    <2> QED
      BY <1>3, <2>4, <2>5
  <1> QED
    BY <1>2, <1>3

LEMMA DisagreementsAre ==
  ASSUME NEW v, NEW w, NEW p
  PROVE  p \in Disagreements(v, w) <=>
           /\ p \in Paths(v) \/ p \in Paths(w)
           /\ Reach(v, p) # Reach(w, p) /\ ~SameContainer(Reach(v, p), Reach(w, p))
           /\ SameAlong(v, w, p)
  BY DEF Disagreements, SameAlong

LEMMA DisagreementShape ==
  ASSUME NEW v \in JSON, NEW w \in JSON, NEW p \in Disagreements(v, w)
  PROVE  \/ p = <<>>
         \/ /\ SameContainer(v, w)
            /\ \E s \in Steps, q \in Seq(Steps) :
                 s \in DOMAIN Children(v) \cup DOMAIN Children(w) /\ p = <<s>> \o q
  <1>1. SUFFICES ASSUME p # <<>>
                 PROVE  /\ SameContainer(v, w)
                        /\ \E s \in Steps, q \in Seq(Steps) :
                             s \in DOMAIN Children(v) \cup DOMAIN Children(w) /\ p = <<s>> \o q
    OBVIOUS
  <1>2. p \in Paths(v) \/ p \in Paths(w)
    BY DisagreementsAre
  <1>3. PICK s \in Steps, q \in Seq(Steps) :
          s \in DOMAIN Children(v) \cup DOMAIN Children(w) /\ p = <<s>> \o q
    BY <1>1, <1>2, PathShape
  <1>4. SameAlong(v, w, <<s>> \o q)
    BY <1>3, DisagreementsAre
  <1>5. SameContainer(v, w)
    BY <1>4, AlongFirst
  <1> QED
    BY <1>3, <1>5

LEMMA DisagreeHere ==
  ASSUME NEW v \in JSON, NEW w \in JSON
  PROVE  <<>> \in Disagreements(v, w) <=> v # w /\ ~SameContainer(v, w)
  <1>1. Reach(v, <<>>) = v /\ Reach(w, <<>>) = w /\ <<>> \in Paths(v)
    BY ReachHere
  <1>2. SameAlong(v, w, <<>>)
    BY DEF SameAlong
  <1> QED
    BY <1>1, <1>2, DisagreementsAre

LEMMA DisagreeBelow ==
  ASSUME NEW v \in JSON, NEW w \in JSON, SameContainer(v, w), NEW s \in Steps, NEW q \in Seq(Steps)
  PROVE  /\ s \in DOMAIN Children(v) \cap DOMAIN Children(w) =>
              /\ <<s>> \o q \in Disagreements(v, w) <=> q \in Disagreements(Children(v)[s], Children(w)[s])
              /\ ChangeAt(v, w, <<s>> \o q) = ChangeAt(Children(v)[s], Children(w)[s], q)
         /\ s \in DOMAIN Children(v) /\ s \notin DOMAIN Children(w) =>
              /\ <<s>> \o q \in Disagreements(v, w) <=> q = <<>>
              /\ q = <<>> => ChangeAt(v, w, <<s>> \o q) = "deleted"
         /\ s \in DOMAIN Children(w) /\ s \notin DOMAIN Children(v) =>
              /\ <<s>> \o q \in Disagreements(v, w) <=> q = <<>>
              /\ q = <<>> => ChangeAt(v, w, <<s>> \o q) = "added"
  <1>1. CASE s \in DOMAIN Children(v) \cap DOMAIN Children(w)
    <2>1. /\ Reach(v, <<s>> \o q) = Reach(Children(v)[s], q)
          /\ Reach(w, <<s>> \o q) = Reach(Children(w)[s], q)
          /\ <<s>> \o q \in Paths(v) <=> q \in Paths(Children(v)[s])
          /\ <<s>> \o q \in Paths(w) <=> q \in Paths(Children(w)[s])
      BY <1>1, ReachBelow
    <2>2. SameAlong(v, w, <<s>> \o q) <=> SameAlong(Children(v)[s], Children(w)[s], q)
      BY <1>1, AlongBelow
    <2>3. <<s>> \o q \in Disagreements(v, w) <=> q \in Disagreements(Children(v)[s], Children(w)[s])
      BY <2>1, <2>2, DisagreementsAre
    <2>4. ChangeAt(v, w, <<s>> \o q) = ChangeAt(Children(v)[s], Children(w)[s], q)
      BY <2>1 DEF ChangeAt
    <2> QED
      BY <1>1, <2>3, <2>4
  <1>2. ASSUME s \notin DOMAIN Children(v) \cap DOMAIN Children(w)
        PROVE  SameAlong(v, w, <<s>> \o q) <=> q = <<>>
    BY <1>2, AlongBelow
  <1>3. CASE s \in DOMAIN Children(v) /\ s \notin DOMAIN Children(w)
    <2>1. <<s>> \o q \in Disagreements(v, w) => q = <<>>
      BY <1>2, <1>3, DisagreementsAre
    <2>2. ASSUME q = <<>>
          PROVE  <<s>> \o q \in Disagreements(v, w) /\ ChangeAt(v, w, <<s>> \o q) = "deleted"
      <3>1. Children(v)[s] \in JSON /\ Children(v)[s] # Absent
        BY <1>3, ChildrenFacts, AbsentFacts
      <3>2. Reach(v, <<s>> \o q) = Children(v)[s] /\ <<s>> \o q \in Paths(v)
        <4>1. Reach(Children(v)[s], q) = Children(v)[s] /\ q \in Paths(Children(v)[s])
          BY <2>2, <3>1, ReachHere
        <4> QED
          BY <1>3, <4>1, ReachBelow
      <3>3. Reach(w, <<s>> \o q) = Absent
        BY <1>3, ReachBelow
      <3>4. SameAlong(v, w, <<s>> \o q)
        BY <1>2, <1>3, <2>2
      <3>5. <<s>> \o q \in Disagreements(v, w)
        BY <3>1, <3>2, <3>3, <3>4, DisagreementsAre, AbsentFacts
      <3>6. ChangeAt(v, w, <<s>> \o q) = "deleted"
        BY <3>1, <3>2, <3>3 DEF ChangeAt
      <3> QED
        BY <3>5, <3>6
    <2> QED
      BY <1>3, <2>1, <2>2
  <1>4. CASE s \in DOMAIN Children(w) /\ s \notin DOMAIN Children(v)
    <2>1. <<s>> \o q \in Disagreements(v, w) => q = <<>>
      BY <1>2, <1>4, DisagreementsAre
    <2>2. ASSUME q = <<>>
          PROVE  <<s>> \o q \in Disagreements(v, w) /\ ChangeAt(v, w, <<s>> \o q) = "added"
      <3>1. Children(w)[s] \in JSON /\ Children(w)[s] # Absent
        BY <1>4, ChildrenFacts, AbsentFacts
      <3>2. Reach(w, <<s>> \o q) = Children(w)[s] /\ <<s>> \o q \in Paths(w)
        <4>1. Reach(Children(w)[s], q) = Children(w)[s] /\ q \in Paths(Children(w)[s])
          BY <2>2, <3>1, ReachHere
        <4> QED
          BY <1>4, <4>1, ReachBelow
      <3>3. Reach(v, <<s>> \o q) = Absent
        BY <1>4, ReachBelow
      <3>4. SameAlong(v, w, <<s>> \o q)
        BY <1>2, <1>4, <2>2
      <3>5. <<s>> \o q \in Disagreements(v, w)
        BY <3>1, <3>2, <3>3, <3>4, DisagreementsAre, AbsentFacts
      <3>6. ChangeAt(v, w, <<s>> \o q) = "added"
        BY <3>3 DEF ChangeAt
      <3> QED
        BY <3>5, <3>6
    <2> QED
      BY <1>4, <2>1, <2>2
  <1> QED
    BY <1>1, <1>3, <1>4

LEMMA OneSided ==
  ASSUME NEW v \in JSON, NEW w \in JSON, SameContainer(v, w), NEW s \in Steps,
         ~(s \in DOMAIN Children(v) /\ s \in DOMAIN Children(w)),
         s \in DOMAIN Children(v) \cup DOMAIN Children(w)
  PROVE  /\ <<s>> \in Disagreements(v, w)
         /\ ChangeAt(v, w, <<s>>) = IF s \in DOMAIN Children(v) THEN "deleted" ELSE "added"
         /\ \A q \in Seq(Steps) : <<s>> \o q \in Disagreements(v, w) => <<s>> \o q = <<s>>
  <1>1. <<s>> \o <<>> = <<s>> /\ <<>> \in Seq(Steps)
    OBVIOUS
  <1>2. ASSUME NEW q \in Seq(Steps)
        PROVE  /\ <<s>> \o q \in Disagreements(v, w) <=> q = <<>>
               /\ q = <<>> => ChangeAt(v, w, <<s>> \o q) =
                                IF s \in DOMAIN Children(v) THEN "deleted" ELSE "added"
    <2>1. CASE s \in DOMAIN Children(v)
      BY <2>1, DisagreeBelow
    <2>2. CASE s \notin DOMAIN Children(v)
      BY <2>2, DisagreeBelow
    <2> QED
      BY <2>1, <2>2
  <1>3. <<s>> \o <<>> \in Disagreements(v, w)
    BY <1>1, <1>2
  <1>4. ChangeAt(v, w, <<s>> \o <<>>) = IF s \in DOMAIN Children(v) THEN "deleted" ELSE "added"
    BY <1>1, <1>2
  <1> QED
    BY <1>1, <1>2, <1>3, <1>4

(* The report that the disagreements ask for. *)
Expected(v, w) == {Difference(p, ChangeAt(v, w, p)) : p \in Disagreements(v, w)}

(* The part of a report that is about one step. *)
Change1(step, inOrig, inReplayed, below) ==
  IF ~inReplayed THEN At(step, "deleted") ELSE IF ~inOrig THEN At(step, "added") ELSE Below(step, below)

LEMMA ExpectedHere ==
  ASSUME NEW v \in JSON, NEW w \in JSON, ~SameContainer(v, w)
  PROVE  Expected(v, w) = CompareBy(CompareValues, v, w)
  <1>1. \A p : p \in Disagreements(v, w) <=> p = <<>> /\ v # w
    BY DisagreementShape, DisagreeHere
  <1>2. Expected(v, w) = IF v = w THEN {} ELSE {Difference(<<>>, ChangeAt(v, w, <<>>))}
    <2>1. CASE v = w
      BY <1>1, <2>1 DEF Expected
    <2>2. CASE v # w
      <3>1. Disagreements(v, w) = {<<>>}
        BY <1>1, <2>2
      <3> QED
        BY <2>2, <3>1 DEF Expected
    <2> QED
      BY <2>1, <2>2
  <1>3. Reach(v, <<>>) = v /\ Reach(w, <<>>) = w /\ v # Absent /\ w # Absent
    BY ReachHere, AbsentFacts
  <1>4. ChangeAt(v, w, <<>>) = IF v.kind \in {"object", "array"} THEN "type_changed" ELSE "value_changed"
    BY <1>3 DEF ChangeAt
  <1>5. CASE v.kind \in {"object", "array"}
    <2>1. v.kind # w.kind
      BY <1>5 DEF SameContainer
    <2>2. v # w
      BY <2>1
    <2>3. CompareBy(CompareValues, v, w) = {Difference(<<>>, "type_changed")}
      BY <1>5, <2>1 DEF CompareBy
    <2> QED
      BY <1>2, <1>4, <1>5, <2>2, <2>3
  <1>6. CASE v.kind \notin {"object", "array"}
    <2>1. CompareBy(CompareValues, v, w) = IF v = w THEN {} ELSE {Difference(<<>>, "value_changed")}
      BY <1>6 DEF CompareBy
    <2> QED
      BY <1>2, <1>4, <1>6, <2>1
  <1> QED
    BY <1>5, <1>6

LEMMA ExpectedBelow ==
  ASSUME NEW v \in JSON, NEW w \in JSON, SameContainer(v, w)
  PROVE  Expected(v, w) =
           UNION {Change1(s, s \in DOMAIN Children(v), s \in DOMAIN Children(w),
                          Expected(Children(v)[s], Children(w)[s])) :
                  s \in DOMAIN Children(v) \cup DOMAIN Children(w)}
  <1> DEFINE Change(s) == Change1(s, s \in DOMAIN Children(v), s \in DOMAIN Children(w),
                                  Expected(Children(v)[s], Children(w)[s]))
             steps == DOMAIN Children(v) \cup DOMAIN Children(w)
  <1>1. steps \subseteq Steps
    BY DEF Steps
  <1>2. ASSUME NEW p \in Disagreements(v, w)
        PROVE  \E s \in steps : Difference(p, ChangeAt(v, w, p)) \in Change(s)
    <2>1. p # <<>>
      BY DisagreeHere
    <2>2. PICK s \in Steps, q \in Seq(Steps) : s \in steps /\ p = <<s>> \o q
      BY <2>1, DisagreementShape
    <2>3. CASE s \in DOMAIN Children(v) /\ s \in DOMAIN Children(w)
      <3>1. /\ q \in Disagreements(Children(v)[s], Children(w)[s])
            /\ ChangeAt(v, w, p) = ChangeAt(Children(v)[s], Children(w)[s], q)
        BY <2>2, <2>3, DisagreeBelow
      <3> DEFINE d == Difference(q, ChangeAt(Children(v)[s], Children(w)[s], q))
      <3>2. d \in Expected(Children(v)[s], Children(w)[s])
        BY <3>1 DEF Expected
      <3>3. d.path = q /\ d.change = ChangeAt(Children(v)[s], Children(w)[s], q)
        BY DEF Difference
      <3> HIDE DEF d
      <3>4. Difference(<<s>> \o d.path, d.change) \in Below(s, Expected(Children(v)[s], Children(w)[s]))
        BY <3>2 DEF Below
      <3>5. Difference(p, ChangeAt(v, w, p)) \in Below(s, Expected(Children(v)[s], Children(w)[s]))
        BY <2>2, <3>1, <3>3, <3>4
      <3> QED
        BY <2>2, <2>3, <3>5 DEF Change1
    <2>4. CASE s \notin DOMAIN Children(w)
      <3>1. p = <<s>> /\ ChangeAt(v, w, <<s>>) = "deleted"
        BY <2>2, <2>4, OneSided
      <3> QED
        BY <2>2, <2>4, <3>1 DEF Change1, At
    <2>5. CASE s \notin DOMAIN Children(v) /\ s \in DOMAIN Children(w)
      <3>1. p = <<s>> /\ ChangeAt(v, w, <<s>>) = "added"
        BY <2>2, <2>5, OneSided
      <3> QED
        BY <2>2, <2>5, <3>1 DEF Change1, At
    <2> QED
      BY <2>3, <2>4, <2>5
  <1>3. ASSUME NEW s \in steps, NEW d \in Change(s)
        PROVE  \E p \in Disagreements(v, w) : d = Difference(p, ChangeAt(v, w, p))
    <2>1. s \in Steps
      BY <1>1
    <2>2. CASE s \in DOMAIN Children(v) /\ s \in DOMAIN Children(w)
      <3>1. d \in Below(s, Expected(Children(v)[s], Children(w)[s]))
        BY <2>2 DEF Change1
      <3>2. PICK e \in Expected(Children(v)[s], Children(w)[s]) : d = Difference(<<s>> \o e.path, e.change)
        BY <3>1 DEF Below
      <3>3. PICK q \in Disagreements(Children(v)[s], Children(w)[s]) :
              e = Difference(q, ChangeAt(Children(v)[s], Children(w)[s], q))
        BY <3>2 DEF Expected
      <3>4. e.path = q /\ e.change = ChangeAt(Children(v)[s], Children(w)[s], q)
        BY <3>3 DEF Difference
      <3>5. Children(v)[s] \in JSON /\ Children(w)[s] \in JSON
        BY <2>2, ChildrenFacts
      <3>6. q \in Paths(Children(v)[s]) \/ q \in Paths(Children(w)[s])
        BY DisagreementsAre
      <3>7. q \in Seq(Steps)
        BY <3>5, <3>6, PathsAreSteps DEF Paths
      <3>8. /\ <<s>> \o q \in Disagreements(v, w)
            /\ ChangeAt(v, w, <<s>> \o q) = ChangeAt(Children(v)[s], Children(w)[s], q)
        BY <2>1, <2>2, <3>3, <3>7, DisagreeBelow
      <3> QED
        BY <3>2, <3>4, <3>8
    <2>3. CASE s \notin DOMAIN Children(w)
      <3>1. d = Difference(<<s>>, "deleted")
        BY <2>3 DEF Change1, At
      <3>2. <<s>> \in Disagreements(v, w) /\ ChangeAt(v, w, <<s>>) = "deleted"
        BY <2>1, <2>3, OneSided
      <3> QED
        BY <3>1, <3>2
    <2>4. CASE s \notin DOMAIN Children(v) /\ s \in DOMAIN Children(w)
      <3>1. d = Difference(<<s>>, "added")
        BY <2>4 DEF Change1, At
      <3>2. <<s>> \in Disagreements(v, w) /\ ChangeAt(v, w, <<s>>) = "added"
        BY <2>1, <2>4, OneSided
      <3> QED
        BY <3>1, <3>2
    <2> QED
      BY <2>2, <2>3, <2>4
  <1> HIDE DEF Change, steps
  <1>4. \A d : d \in Expected(v, w) <=> \E s \in steps : d \in Change(s)
    BY <1>2, <1>3 DEF Expected
  <1>5. Expected(v, w) = UNION {Change(s) : s \in steps}
    BY <1>4
  <1> QED
    BY <1>5 DEF Change, steps

(* Objects and arrays are compared in one way: by their steps. *)
LEMMA StepsCompared ==
  ASSUME NEW v \in JSON, NEW w \in JSON, SameContainer(v, w)
  PROVE  CompareBy(CompareValues, v, w) =
           UNION {Change1(s, s \in DOMAIN Children(v), s \in DOMAIN Children(w),
                          CompareValues[<<Children(v)[s], Children(w)[s]>>]) :
                  s \in DOMAIN Children(v) \cup DOMAIN Children(w)}
  <1> DEFINE Change(s) == Change1(s, s \in DOMAIN Children(v), s \in DOMAIN Children(w),
                                  CompareValues[<<Children(v)[s], Children(w)[s]>>])
             steps == DOMAIN Children(v) \cup DOMAIN Children(w)
  <1>1. CASE v.kind = "object"
    <2> DEFINE Of(k) ==
          CASE k \notin DOMAIN w.fields -> At(Key(k), "deleted")
            [] k \notin DOMAIN v.fields -> At(Key(k), "added")
            [] OTHER                    -> Below(Key(k), CompareValues[<<v.fields[k], w.fields[k]>>])
               keys == DOMAIN v.fields \cup DOMAIN w.fields
    <2>1. w.kind = "object"
      BY <1>1 DEF SameContainer
    <2>2. CompareBy(CompareValues, v, w) = UNION {Of(k) : k \in keys}
      BY <1>1, <2>1 DEF CompareBy, CompareObjects
    <2>3. /\ DOMAIN Children(v) = {Key(k) : k \in DOMAIN v.fields}
          /\ DOMAIN Children(w) = {Key(k) : k \in DOMAIN w.fields}
      BY <1>1, <2>1, ObjectChildren
    <2>4. ASSUME NEW k \in keys
          PROVE  /\ Key(k) \in DOMAIN Children(v) <=> k \in DOMAIN v.fields
                 /\ Key(k) \in DOMAIN Children(w) <=> k \in DOMAIN w.fields
      BY <2>3, KeysApart
    <2>5. ASSUME NEW k \in keys PROVE Of(k) = Change(Key(k))
      <3>1. CASE k \in DOMAIN v.fields /\ k \in DOMAIN w.fields
        <4>1. Children(v)[Key(k)] = v.fields[k] /\ Children(w)[Key(k)] = w.fields[k]
          BY <1>1, <2>1, <3>1, ObjectChildren
        <4>2. Of(k) = Below(Key(k), CompareValues[<<v.fields[k], w.fields[k]>>])
          BY <3>1
        <4>3. Change(Key(k)) = Below(Key(k), CompareValues[<<Children(v)[Key(k)], Children(w)[Key(k)]>>])
          BY <2>4, <3>1 DEF Change1
        <4> HIDE DEF Of, Change
        <4> QED
          BY <4>1, <4>2, <4>3
      <3>2. CASE k \notin DOMAIN w.fields
        <4>1. Of(k) = At(Key(k), "deleted")
          BY <3>2
        <4>2. Change(Key(k)) = At(Key(k), "deleted")
          BY <2>4, <3>2 DEF Change1
        <4> HIDE DEF Of, Change
        <4> QED
          BY <4>1, <4>2
      <3>3. CASE k \notin DOMAIN v.fields /\ k \in DOMAIN w.fields
        <4>1. Of(k) = At(Key(k), "added")
          BY <3>3
        <4>2. Change(Key(k)) = At(Key(k), "added")
          BY <2>4, <3>3 DEF Change1
        <4> HIDE DEF Of, Change
        <4> QED
          BY <4>1, <4>2
      <3> QED
        BY <3>1, <3>2, <3>3
    <2>6. steps = {Key(k) : k \in keys}
      BY <2>3
    <2> HIDE DEF Of, Change, steps, keys
    <2>7. UNION {Of(k) : k \in keys} = UNION {Change(s) : s \in steps}
      BY <2>5, <2>6
    <2> QED
      BY <2>2, <2>7 DEF Change, steps
  <1>2. CASE v.kind = "array"
    <2> DEFINE Of(i) ==
          CASE i \notin DOMAIN w.items -> At(Index(i), "deleted")
            [] i \notin DOMAIN v.items -> At(Index(i), "added")
            [] OTHER                   -> Below(Index(i), CompareValues[<<v.items[i], w.items[i]>>])
               places == DOMAIN v.items \cup DOMAIN w.items
    <2>1. w.kind = "array"
      BY <1>2 DEF SameContainer
    <2>2. CompareBy(CompareValues, v, w) = UNION {Of(i) : i \in places}
      BY <1>2, <2>1 DEF CompareBy, CompareArrays
    <2>3. /\ DOMAIN Children(v) = {Index(i) : i \in DOMAIN v.items} /\ DOMAIN v.items \subseteq Nat
          /\ DOMAIN Children(w) = {Index(i) : i \in DOMAIN w.items} /\ DOMAIN w.items \subseteq Nat
      BY <1>2, <2>1, ArrayChildren
    <2>4. ASSUME NEW i \in places
          PROVE  /\ Index(i) \in DOMAIN Children(v) <=> i \in DOMAIN v.items
                 /\ Index(i) \in DOMAIN Children(w) <=> i \in DOMAIN w.items
      <3>1. \A j \in DOMAIN v.items \cup DOMAIN w.items : Index(i) = Index(j) => i = j
        BY <2>3, IndicesApart
      <3> QED
        BY <2>3, <3>1
    <2>5. ASSUME NEW i \in places PROVE Of(i) = Change(Index(i))
      <3>1. CASE i \in DOMAIN v.items /\ i \in DOMAIN w.items
        <4>1. Children(v)[Index(i)] = v.items[i] /\ Children(w)[Index(i)] = w.items[i]
          BY <1>2, <2>1, <3>1, ArrayChildren
        <4>2. Of(i) = Below(Index(i), CompareValues[<<v.items[i], w.items[i]>>])
          BY <3>1
        <4>3. Change(Index(i)) = Below(Index(i), CompareValues[<<Children(v)[Index(i)], Children(w)[Index(i)]>>])
          BY <2>4, <3>1 DEF Change1
        <4> HIDE DEF Of, Change
        <4> QED
          BY <4>1, <4>2, <4>3
      <3>2. CASE i \notin DOMAIN w.items
        <4>1. Of(i) = At(Index(i), "deleted")
          BY <3>2
        <4>2. Change(Index(i)) = At(Index(i), "deleted")
          BY <2>4, <3>2 DEF Change1
        <4> HIDE DEF Of, Change
        <4> QED
          BY <4>1, <4>2
      <3>3. CASE i \notin DOMAIN v.items /\ i \in DOMAIN w.items
        <4>1. Of(i) = At(Index(i), "added")
          BY <3>3
        <4>2. Change(Index(i)) = At(Index(i), "added")
          BY <2>4, <3>3 DEF Change1
        <4> HIDE DEF Of, Change
        <4> QED
          BY <4>1, <4>2
      <3> QED
        BY <3>1, <3>2, <3>3
    <2>6. steps = {Index(i) : i \in places}
      BY <2>3
    <2> HIDE DEF Of, Change, steps, places
    <2>7. UNION {Of(i) : i \in places} = UNION {Change(s) : s \in steps}
      BY <2>5, <2>6
    <2> QED
      BY <2>2, <2>7 DEF Change, steps
  <1> QED
    BY <1>1, <1>2 DEF SameContainer

(* The comparison finds what it should: the topmost disagreements.         *)
LEMMA TopmostFound ==
  ASSUME NEW v \in JSON, NEW w \in JSON
  PROVE  CompareValues[<<v, w>>] = Expected(v, w)
  <1> DEFINE Right(p) == CompareValues[p] = Expected(p[1], p[2])
             Wrong    == {d \in Nat : \E p \in JSON \X JSON : Depth[p[1]] = d /\ ~Right(p)}
  <1>1. SUFFICES ASSUME ~Right(<<v, w>>) PROVE FALSE
    OBVIOUS
  <1>2. Depth[v] \in Wrong
    <2>1. <<v, w>> \in JSON \X JSON /\ Depth[<<v, w>>[1]] = Depth[v] /\ Depth[v] \in Nat
      BY JSONFacts
    <2> HIDE DEF Right
    <2> QED
      BY <1>1, <2>1
  <1>3. PICK d \in Wrong : \A e \in Wrong : d <= e
    BY <1>2, LeastElement
  <1>4. PICK p \in JSON \X JSON : Depth[p[1]] = d /\ ~Right(p)
    BY <1>3
  <1> DEFINE x == p[1]
             y == p[2]
  <1>5. x \in JSON /\ y \in JSON /\ p = <<x, y>> /\ Depth[x] = d /\ d \in Nat
    BY <1>4, ShallowFacts
  <1>6. CompareValues[p] = CompareBy(CompareValues, x, y)
    BY <1>5, ValuesCompared
  <1>7. ASSUME NEW a \in JSON, Depth[a] < d, NEW b \in JSON
        PROVE  CompareValues[<<a, b>>] = Expected(a, b)
    <2>1. <<a, b>> \in JSON \X JSON /\ <<a, b>>[1] = a /\ <<a, b>>[2] = b /\ Depth[a] \in Nat
      BY JSONFacts
    <2>2. Depth[a] \notin Wrong
      BY <1>3, <1>5, <1>7, <2>1
    <2>3. Right(<<a, b>>)
      <3> HIDE DEF Right
      <3> QED
        BY <2>1, <2>2
    <2> QED
      BY <2>1, <2>3
  <1>8. CompareBy(CompareValues, x, y) # Expected(x, y)
    BY <1>4, <1>6
  <1> HIDE DEF x, y, Right, Wrong
  <1>9. CASE ~SameContainer(x, y)
    BY <1>5, <1>8, <1>9, ExpectedHere
  <1>10. CASE SameContainer(x, y)
    <2> DEFINE Old(s) == Change1(s, s \in DOMAIN Children(x), s \in DOMAIN Children(y),
                                 CompareValues[<<Children(x)[s], Children(y)[s]>>])
               New1(s) == Change1(s, s \in DOMAIN Children(x), s \in DOMAIN Children(y),
                                 Expected(Children(x)[s], Children(y)[s]))
               steps  == DOMAIN Children(x) \cup DOMAIN Children(y)
    <2>1. ASSUME NEW s \in steps PROVE Old(s) = New1(s)
      <3>1. CASE s \in DOMAIN Children(x) /\ s \in DOMAIN Children(y)
        <4>1. /\ Children(x)[s] \in JSON /\ Depth[Children(x)[s]] < d
              /\ Children(y)[s] \in JSON
          BY <1>5, <3>1, ChildrenFacts
        <4>2. CompareValues[<<Children(x)[s], Children(y)[s]>>] = Expected(Children(x)[s], Children(y)[s])
          BY <1>7, <4>1
        <4> QED
          BY <4>2
      <3>2. CASE ~(s \in DOMAIN Children(x) /\ s \in DOMAIN Children(y))
        BY <3>2 DEF Change1
      <3> QED
        BY <3>1, <3>2
    <2>2. CompareBy(CompareValues, x, y) = UNION {Old(s) : s \in steps}
      BY <1>5, <1>10, StepsCompared
    <2>3. Expected(x, y) = UNION {New1(s) : s \in steps}
      BY <1>5, <1>10, ExpectedBelow
    <2> HIDE DEF Old, New1, steps
    <2>4. UNION {Old(s) : s \in steps} = UNION {New1(s) : s \in steps}
      BY <2>1
    <2> QED
      BY <1>8, <2>2, <2>3, <2>4
  <1> QED
    BY <1>9, <1>10

----------------------------------------------------------------------------
(* Bodies compared. *)

(* A body that was recorded whole, as the file gives it back. *)
HoldsWhole(body, data) ==
  /\ body.binary \in BOOLEAN /\ (body.binary => data # <<>>)
  /\ Untagged(body) = IF body.binary THEN Base64(data) ELSE Text(Filed(data))

LEMMA WholeIsHeld ==
  ASSUME NEW data \in Seq(STRING), NEW type, NEW maxSize \in Nat,
         ~NewBodyContent(data, type, maxSize).truncated
  PROVE  HoldsWhole(Stored(NewBodyContent(data, type, maxSize)), data)
  <1> DEFINE new  == NewBodyContent(data, type, maxSize)
             body == Stored(new)
  <1>1. /\ new.binary = (data # <<>> /\ ~IsTextContent(type)) /\ new.binary \in BOOLEAN
        /\ new.truncated = (maxSize > 0 /\ Len(data) > maxSize)
        /\ body.binary = new.binary
        /\ Untagged(body) = IF new.binary THEN Base64(KeptOf(data, maxSize))
                            ELSE Text(Filed(KeptOf(data, maxSize)))
    BY NewBodyFacts, StoredFacts
  <1>2. ~(maxSize > 0 /\ Len(data) > maxSize)
    BY <1>1
  <1>3. KeptOf(data, maxSize) = data
    BY <1>2, KeptFacts
  <1> HIDE DEF new, body
  <1> QED
    BY <1>1, <1>3 DEF HoldsWhole, body, new

LEMMA TextHeld ==
  ASSUME NEW data \in Seq(STRING), NEW body, HoldsWhole(body, data), ~body.binary
  PROVE  /\ BodyContent(body) = Text(Filed(data))
         /\ TextBytes(BodyContent(body)) = Filed(data)
         /\ Filed(data) \in Seq(FileBytes(STRING))
         /\ Len(BodyContent(body)) = Len(Filed(data))
         /\ \A i \in 1..Len(Filed(data)) : BodyContent(body)[i] = <<Filed(data)[i]>>
  <1>1. BodyContent(body) = Text(Filed(data))
    BY DEF HoldsWhole, BodyContent
  <1>2. Filed(data) \in Seq(FileBytes(STRING))
    BY FiledFacts
  <1> QED
    BY <1>1, <1>2, TextFacts

LEMMA BinaryHeld ==
  ASSUME NEW data \in Seq(STRING), NEW body, HoldsWhole(body, data), body.binary
  PROVE  /\ BodyContent(body) = << <<Shown, 4 * ((Len(data) + 2) \div 3)>> >>
         /\ Unmarshal(BodyContent(body)) = Null
  <1>1. Untagged(body) = Base64(data)
    BY DEF HoldsWhole
  <1>2. Len(Base64(data)) = (Len(data) + 2) \div 3
    BY Base64Groups
  <1>3. BodyContent(body) = << <<Shown, 4 * ((Len(data) + 2) \div 3)>> >>
    BY <1>1, <1>2 DEF BodyContent
  <1>4. TextBytes(BodyContent(body)) = <<Shown>>
    BY <1>3 DEF TextBytes
  <1>5. Shown \in ToSet(<<Shown>>)
    BY DEF ToSet
  <1>6. <<Shown>> \notin DOMAIN Documents
    BY <1>5, DocumentsAssumption
  <1> QED
    BY <1>3, <1>4, <1>6 DEF Unmarshal

(* What is compared of a body as JSON. *)
LEMMA RecordedMeaning ==
  ASSUME NEW r, r.data \in Seq(STRING), NEW body, HoldsWhole(body, r.data)
  PROVE  Unmarshal(BodyContent(body)) = Recorded(body, r) /\ Recorded(body, r) \in JSON
  <1>1. CASE body.binary
    BY <1>1, BinaryHeld, JSONAssumption DEF Recorded
  <1>2. CASE ~body.binary
    <2>1. TextBytes(BodyContent(body)) = Filed(r.data)
      BY <1>2, TextHeld
    <2>2. Unmarshal(BodyContent(body)) = Meaning(r)
      BY <2>1 DEF Unmarshal, Meaning, Parses
    <2>3. Meaning(r) \in JSON
      BY JSONAssumption, DocumentsAssumption DEF Meaning, Parses
    <2> QED
      BY <1>2, <2>2, <2>3 DEF Recorded
  <1> QED
    BY <1>1, <1>2 DEF HoldsWhole

LEMMA OneIsNotTwo ==
  ASSUME NEW x, NEW u, NEW v
  PROVE  <<x, u>> # <<v>>
  <1>1. Len(<<x, u>>) = 2 /\ Len(<<v>>) = 1
    OBVIOUS
  <1> QED
    BY <1>1

(* Two bodies look the same only if both are binary and of one length, or  *)
(* neither is and they are the same or both hold U+FFFD on file.           *)
LEMMA SameContent ==
  ASSUME NEW a \in Seq(STRING), NEW b \in Seq(STRING),
         NEW orig, HoldsWhole(orig, a), NEW replayed, HoldsWhole(replayed, b),
         a # b, BodyContent(orig) = BodyContent(replayed)
  PROVE  \/ /\ orig.binary /\ replayed.binary
            /\ (Len(a) + 2) \div 3 = (Len(b) + 2) \div 3
         \/ HasReplacement(Filed(a)) /\ HasReplacement(Filed(b))
  <1> DEFINE m == (Len(a) + 2) \div 3
             n == (Len(b) + 2) \div 3
  <1>1. m \in Nat /\ n \in Nat
    OBVIOUS
  <1>2. CASE orig.binary /\ replayed.binary
    <2>1. << <<Shown, 4 * m>> >> = << <<Shown, 4 * n>> >>
      BY <1>2, BinaryHeld
    <2> HIDE DEF m, n
    <2>2. 4 * m = 4 * n
      BY <2>1
    <2>3. m = n
      BY <1>1, <2>2
    <2> QED
      BY <1>2, <2>3 DEF m, n
  <1>3. ASSUME NEW x \in Nat, NEW c \in Seq(STRING), NEW body, HoldsWhole(body, c), ~body.binary
        PROVE  << <<Shown, 4 * x>> >> # BodyContent(body)
    <2>1. SUFFICES ASSUME << <<Shown, 4 * x>> >> = BodyContent(body) PROVE FALSE
      OBVIOUS
    <2>2. /\ Len(BodyContent(body)) = Len(Filed(c))
          /\ \A i \in 1..Len(Filed(c)) : BodyContent(body)[i] = <<Filed(c)[i]>>
      BY <1>3, TextHeld
    <2> DEFINE y == <<Shown, 4 * x>>
    <2>3. \A u : y # <<u>>
      BY OneIsNotTwo
    <2> HIDE DEF y
    <2>4. BodyContent(body) = <<y>>
      BY <2>1 DEF y
    <2>5. Len(Filed(c)) = 1 /\ BodyContent(body)[1] = y
      BY <2>2, <2>4
    <2>6. y = <<Filed(c)[1]>>
      BY <2>2, <2>5
    <2> QED
      BY <2>3, <2>6
  <1>4. CASE orig.binary /\ ~replayed.binary
    BY <1>1, <1>3, <1>4, BinaryHeld
  <1>5. CASE ~orig.binary /\ replayed.binary
    BY <1>1, <1>3, <1>5, BinaryHeld
  <1>6. CASE ~orig.binary /\ ~replayed.binary
    <2>1. Filed(a) = Filed(b)
      BY <1>6, TextHeld
    <2>2. CASE Broken(a) = {} /\ Broken(b) = {}
      BY <2>1, <2>2, FiledWhole
    <2>3. ASSUME NEW i \in Broken(a) PROVE HasReplacement(Filed(a))
      BY FiledReplaces
    <2>4. ASSUME NEW i \in Broken(b) PROVE HasReplacement(Filed(b))
      BY FiledReplaces
    <2> QED
      BY <2>1, <2>2, <2>3, <2>4
  <1> QED
    BY <1>2, <1>4, <1>5, <1>6 DEF HoldsWhole

LEMMA TypeKnown ==
  ASSUME NEW r, r.headers \in Headers,
         NEW type, type # NoType, type \in ToSet(ContentType(HeadersToMap(r.headers)))
  PROVE  type \in Types(r)
  <1> DEFINE headers == HeadersToMap(r.headers)
  <1>1. PICK n \in {"Content-Type", "content-type"} : type \in ToSet(Value(headers, n))
    BY DEF ContentType
  <1>2. ToSet(Empty) = {NoType}
    BY DEF Empty, ToSet
  <1>3. n \in DOMAIN headers /\ type \in ToSet(headers[n])
    BY <1>1, <1>2 DEF Value
  <1>4. Fold[n] = "content-type"
    BY FoldAssumption
  <1>5. type \in {h.value : h \in {g \in ToSet(r.headers) : g.name = n}}
    BY <1>3, HeaderValues
  <1> QED
    BY <1>4, <1>5 DEF Types

(* What the code cannot tell apart, see Blind. *)
Alike(a, orig, b, replayed) ==
  \/ "text/html" \in Types(a) \cap Types(b)
  \/ /\ orig.binary /\ replayed.binary
     /\ (Len(a.data) + 2) \div 3 = (Len(b.data) + 2) \div 3
  \/ /\ "application/json" \in Types(a) \cap Types(b)
     /\ Recorded(orig, a) = Recorded(replayed, b)
  \/ Garbled(a) /\ Garbled(b)

(* Two recorded bodies are found to differ unless their bytes are the same *)
(* or the code cannot tell them apart.                                     *)
LEMMA BodiesCompared ==
  ASSUME NEW a, a.headers \in Headers, a.data \in Seq(STRING),
         NEW b, b.headers \in Headers, b.data \in Seq(STRING),
         NEW orig, orig.headers = HeadersToMap(a.headers), HoldsWhole(orig.body, a.data),
         NEW replayed, replayed.headers = HeadersToMap(b.headers), HoldsWhole(replayed.body, b.data)
  PROVE  /\ a.data = b.data /\ orig.body.binary = replayed.body.binary
              => CompareBodies(orig, replayed).diffs = {}
         /\ CompareBodies(orig, replayed).diffs = {} =>
              a.data = b.data \/ Alike(a, orig.body, b, replayed.body)
  <1> DEFINE origType     == ContentType(orig.headers)
             replayedType == ContentType(replayed.headers)
             origBody     == BodyContent(orig.body)
             replayedBody == BodyContent(replayed.body)
             html         == IsHTML(origType) /\ IsHTML(replayedType)
             none         == origBody = <<>> /\ replayedBody = <<>>
             json         == IsJSON(origType) /\ IsJSON(replayedType)
             diffs        == CompareBodies(orig, replayed).diffs
  <1>1. /\ html => diffs = {}
        /\ none => diffs = {}
        /\ origBody = replayedBody => diffs = {}
        /\ ~html /\ origBody # replayedBody /\ json => diffs = DiffJSONBodies(origBody, replayedBody)
        /\ ~html /\ origBody # replayedBody /\ ~json => diffs = WholeBody
    <2>1. none => origBody = replayedBody
      OBVIOUS
    <2> HIDE DEF origBody, replayedBody, origType, replayedType
    <2>2. CompareBodies(orig, replayed) =
            IF html THEN [diffs |-> {}, skipped |-> TRUE]
            ELSE IF none THEN [diffs |-> {}, skipped |-> TRUE]
            ELSE IF origBody = replayedBody THEN [diffs |-> {}, skipped |-> FALSE]
            ELSE IF json THEN [diffs |-> DiffJSONBodies(origBody, replayedBody), skipped |-> FALSE]
            ELSE [diffs |-> WholeBody, skipped |-> FALSE]
      BY DEF CompareBodies, origBody, replayedBody, origType, replayedType
    <2>3. diffs = IF html \/ none \/ origBody = replayedBody THEN {}
                  ELSE IF json THEN DiffJSONBodies(origBody, replayedBody) ELSE WholeBody
      <3> HIDE DEF html, none, json
      <3> QED
        BY <2>2
    <2> HIDE DEF html, none, json, diffs
    <2> QED
      BY <2>1, <2>3
  <1>2. ASSUME html PROVE "text/html" \in Types(a) \cap Types(b)
    <2>1. "text/html" \in ToSet(ContentType(HeadersToMap(a.headers)))
      BY <1>2 DEF IsHTML
    <2>2. "text/html" \in ToSet(ContentType(HeadersToMap(b.headers)))
      BY <1>2 DEF IsHTML
    <2>3. "text/html" # NoType
      BY DEF NoType
    <2> QED
      BY <2>1, <2>2, <2>3, TypeKnown
  <1>3. ASSUME json PROVE "application/json" \in Types(a) \cap Types(b)
    <2>1. "application/json" \in ToSet(ContentType(HeadersToMap(a.headers)))
      BY <1>3 DEF IsJSON
    <2>2. "application/json" \in ToSet(ContentType(HeadersToMap(b.headers)))
      BY <1>3 DEF IsJSON
    <2>3. "application/json" # NoType
      BY DEF NoType
    <2> QED
      BY <2>1, <2>2, <2>3, TypeKnown
  <1>4. ASSUME a.data = b.data, orig.body.binary = replayed.body.binary
        PROVE  origBody = replayedBody
    <2>1. CASE orig.body.binary
      BY <1>4, <2>1, BinaryHeld
    <2>2. CASE ~orig.body.binary
      BY <1>4, <2>2, TextHeld
    <2> QED
      BY <2>1, <2>2
  <1>5. ASSUME a.data # b.data, origBody = replayedBody
        PROVE  \/ /\ orig.body.binary /\ replayed.body.binary
                  /\ (Len(a.data) + 2) \div 3 = (Len(b.data) + 2) \div 3
               \/ Garbled(a) /\ Garbled(b)
    BY <1>5, SameContent DEF Garbled, HasReplacement
  <1>6. ASSUME DiffJSONBodies(origBody, replayedBody) = {}
        PROVE  Recorded(orig.body, a) = Recorded(replayed.body, b)
    <2>1. /\ Unmarshal(origBody) = Recorded(orig.body, a)
          /\ Unmarshal(replayedBody) = Recorded(replayed.body, b)
          /\ Recorded(orig.body, a) \in JSON /\ Recorded(replayed.body, b) \in JSON
      BY RecordedMeaning
    <2>2. CompareValues[<<Recorded(orig.body, a), Recorded(replayed.body, b)>>] = {}
      BY <1>6, <2>1 DEF DiffJSONBodies
    <2> QED
      BY <2>1, <2>2, NothingToReport
  <1>7. WholeBody # {}
    BY DEF WholeBody
  <1> HIDE DEF html, none, json, diffs, origBody, replayedBody, origType, replayedType
  <1>8. a.data = b.data /\ orig.body.binary = replayed.body.binary => diffs = {}
    BY <1>1, <1>4
  <1>9. diffs = {} => a.data = b.data \/ Alike(a, orig.body, b, replayed.body)
    <2>1. CASE html
      BY <1>2, <2>1 DEF Alike
    <2>2. CASE ~html /\ origBody = replayedBody
      BY <1>5, <2>2 DEF Alike
    <2>3. CASE ~html /\ origBody # replayedBody /\ json
      BY <1>1, <1>3, <1>6, <2>3 DEF Alike
    <2>4. CASE ~html /\ origBody # replayedBody /\ ~json
      BY <1>1, <1>7, <2>4
    <2> QED
      BY <2>1, <2>2, <2>3, <2>4
  <1> QED
    BY <1>8, <1>9 DEF diffs

(* With one type under one known spelling the code finds that type.        *)
LEMMA OnlyTypeFound ==
  ASSUME NEW r, r.headers \in Headers, NEW type, type # NoType, OnlyType(r, type)
  PROVE  ToSet(ContentType(HeadersToMap(r.headers))) = {type}
  <1> DEFINE headers == HeadersToMap(r.headers)
  <1>1. Types(r) = {type}
    BY DEF OnlyType
  <1>2. PICK n \in {"Content-Type", "content-type"} :
          {m \in Spellings(r) : Fold[m] = "content-type"} = {n}
    BY DEF OnlyType
  <1>3. DOMAIN headers = Spellings(r)
    BY HeaderValues DEF Spellings
  <1>4. n \in DOMAIN headers /\ Fold[n] = "content-type"
    BY <1>2, <1>3
  <1>5. ToSet(headers[n]) \subseteq Types(r)
    <2>1. ToSet(headers[n]) \subseteq {h.value : h \in {g \in ToSet(r.headers) : g.name = n}}
      BY <1>4, HeaderValues
    <2> QED
      BY <1>4, <2>1 DEF Types
  <1>6. ToSet(headers[n]) = {type}
    <2>1. headers[n][1] \in ToSet(headers[n])
      BY <1>4, SomeValue DEF ToSet
    <2> QED
      BY <1>1, <1>5, <2>1
  <1>7. headers[n] # Empty
    BY <1>6 DEF Empty, ToSet
  <1>8. ContentType(headers) = headers[n]
    <2>1. CASE n = "Content-Type"
      BY <1>4, <1>7, <2>1 DEF ContentType, Value
    <2>2. CASE n = "content-type"
      <3>1. Fold["Content-Type"] = "content-type"
        BY FoldAssumption
      <3>2. "Content-Type" \notin DOMAIN headers
        BY <1>2, <1>3, <2>2, <3>1
      <3> HIDE DEF headers
      <3> QED
        BY <1>4, <2>2, <3>2 DEF ContentType, Value
    <2> QED
      BY <2>1, <2>2
  <1> QED
    BY <1>6, <1>8

(* Of two JSON bodies the fields are compared.                             *)
LEMMA FieldsCompared ==
  ASSUME NEW a, a.headers \in Headers, a.data \in Seq(STRING), OnlyType(a, "application/json"),
         NEW b, b.headers \in Headers, b.data \in Seq(STRING), OnlyType(b, "application/json"),
         NEW orig, orig.headers = HeadersToMap(a.headers),
         HoldsWhole(orig.body, a.data), ~orig.body.binary,
         NEW replayed, replayed.headers = HeadersToMap(b.headers),
         HoldsWhole(replayed.body, b.data), ~replayed.body.binary
  PROVE  CompareBodies(orig, replayed).diffs = Expected(Meaning(a), Meaning(b))
  <1> DEFINE origType     == ContentType(orig.headers)
             replayedType == ContentType(replayed.headers)
             origBody     == BodyContent(orig.body)
             replayedBody == BodyContent(replayed.body)
             v            == Meaning(a)
             w            == Meaning(b)
  <1>1. ToSet(origType) = {"application/json"} /\ ToSet(replayedType) = {"application/json"}
    <2>1. "application/json" # NoType
      BY DEF NoType
    <2> QED
      BY <2>1, OnlyTypeFound
  <1>2. IsJSON(origType) /\ IsJSON(replayedType) /\ ~IsHTML(origType)
    BY <1>1 DEF IsJSON, IsHTML
  <1>3. /\ Unmarshal(origBody) = v /\ v \in JSON
        /\ Unmarshal(replayedBody) = w /\ w \in JSON
    BY RecordedMeaning DEF Recorded
  <1> HIDE DEF origType, replayedType, origBody, replayedBody, v, w
  <1>4. CompareBodies(orig, replayed) =
          IF IsHTML(origType) /\ IsHTML(replayedType) THEN [diffs |-> {}, skipped |-> TRUE]
          ELSE IF origBody = <<>> /\ replayedBody = <<>> THEN [diffs |-> {}, skipped |-> TRUE]
          ELSE IF origBody = replayedBody THEN [diffs |-> {}, skipped |-> FALSE]
          ELSE IF IsJSON(origType) /\ IsJSON(replayedType)
               THEN [diffs |-> DiffJSONBodies(origBody, replayedBody), skipped |-> FALSE]
          ELSE [diffs |-> WholeBody, skipped |-> FALSE]
    BY DEF CompareBodies, origBody, replayedBody, origType, replayedType
  <1>5. CASE origBody = replayedBody
    <2>1. CompareBodies(orig, replayed).diffs = {}
      BY <1>2, <1>4, <1>5
    <2>2. CompareValues[<<v, w>>] = {}
      BY <1>3, <1>5, NothingToReport
    <2> QED
      BY <1>3, <2>1, <2>2, TopmostFound DEF v, w
  <1>6. CASE origBody # replayedBody
    <2>1. ~(origBody = <<>> /\ replayedBody = <<>>)
      BY <1>6
    <2>2. CompareBodies(orig, replayed).diffs = DiffJSONBodies(origBody, replayedBody)
      BY <1>2, <1>4, <1>6, <2>1
    <2>3. DiffJSONBodies(origBody, replayedBody) = CompareValues[<<v, w>>]
      BY <1>3 DEF DiffJSONBodies
    <2> QED
      BY <1>3, <2>2, <2>3, TopmostFound DEF v, w
  <1> QED
    BY <1>5, <1>6

----------------------------------------------------------------------------
(* The invariant. *)

LEMMA OwnElements ==
  ASSUME NEW S, NEW s \in Seq(S)
  PROVE  s \in Seq(ToSet(s))
  <1>1. \A i \in 1..Len(s) : s[i] \in ToSet(s)
    BY DEF ToSet
  <1>2. s \in [1..Len(s) -> ToSet(s)] /\ Len(s) \in Nat
    BY <1>1
  <1> QED
    BY <1>2, SeqMade

LEMMA OneMore ==
  ASSUME NEW s, s \in Seq(ToSet(s)), NEW e
  PROVE  /\ Append(s, e) \in Seq(ToSet(Append(s, e)))
         /\ Len(Append(s, e)) = Len(s) + 1 /\ DOMAIN Append(s, e) = 1..(Len(s) + 1)
         /\ \A i \in DOMAIN s : Append(s, e)[i] = s[i]
         /\ Append(s, e)[Len(s) + 1] = e
  <1> DEFINE T == ToSet(s) \cup {e}
  <1>1. s \in Seq(T) /\ e \in T
    <2>1. \A i \in 1..Len(s) : s[i] \in T
      OBVIOUS
    <2>2. s \in [1..Len(s) -> T] /\ Len(s) \in Nat
      BY <2>1
    <2> HIDE DEF T
    <2>3. s \in Seq(T)
      BY <2>2, SeqMade
    <2> QED
      BY <2>3 DEF T
  <1> HIDE DEF T
  <1>2. Append(s, e) \in Seq(T)
    BY <1>1
  <1>3. Append(s, e) \in Seq(ToSet(Append(s, e)))
    BY <1>2, OwnElements
  <1> QED
    BY <1>1, <1>3

LEMMA OneLess ==
  ASSUME NEW S, NEW s \in Seq(S), NEW n \in DOMAIN s
  PROVE  /\ RemoveAt(s, n) \in Seq(S)
         /\ n = 1 => /\ Len(RemoveAt(s, 1)) = Len(s) - 1
                     /\ \A i \in DOMAIN RemoveAt(s, 1) : i + 1 \in DOMAIN s /\ RemoveAt(s, 1)[i] = s[i + 1]
  <1>1. SubSeq(s, 1, n - 1) \in Seq(S) /\ SubSeq(s, n + 1, Len(s)) \in Seq(S)
    OBVIOUS
  <1>2. RemoveAt(s, n) \in Seq(S)
    <2>1. SubSeq(s, 1, n - 1) \o SubSeq(s, n + 1, Len(s)) \in Seq(S)
      BY <1>1
    <2> QED
      BY <2>1 DEF RemoveAt
  <1>3. ASSUME n = 1
        PROVE  /\ Len(RemoveAt(s, 1)) = Len(s) - 1
               /\ \A i \in DOMAIN RemoveAt(s, 1) :
                    i + 1 \in DOMAIN s /\ RemoveAt(s, 1)[i] = s[i + 1]
    <2> DEFINE rest == SubSeq(s, 2, Len(s))
    <2>1. /\ rest \in Seq(S) /\ Len(rest) = Len(s) - 1
          /\ \A i \in 1..(Len(s) - 1) : i + 1 \in DOMAIN s /\ rest[i] = s[i + 1]
      <3>1. Len(s) \in Nat /\ 1 <= Len(s) /\ DOMAIN s = 1..Len(s)
        BY <1>3
      <3>2. rest \in Seq(S)
        OBVIOUS
      <3>3. Len(rest) = Len(s) - 1
        BY <3>1
      <3>4. ASSUME NEW i \in 1..(Len(s) - 1) PROVE i + 1 \in DOMAIN s /\ rest[i] = s[i + 1]
        <4>1. rest[i] = s[2 + i - 1]
          BY <3>1
        <4>2. 2 + i - 1 = i + 1 /\ i + 1 \in 1..Len(s)
          BY <3>1
        <4> QED
          BY <3>1, <4>1, <4>2
      <3> HIDE DEF rest
      <3> QED
        BY <3>2, <3>3, <3>4
    <2>2. SubSeq(s, 1, 0) = <<>>
      OBVIOUS
    <2>3. RemoveAt(s, 1) = <<>> \o rest
      BY <2>2 DEF RemoveAt
    <2> HIDE DEF rest
    <2>4. RemoveAt(s, 1) = rest
      BY <2>1, <2>3
    <2> QED
      BY <2>1, <2>4
  <1> QED
    BY <1>2, <1>3

(* What the code keeps of the type is whether the body is a text. *)
LEMMA OfTwoTypes ==
  ASSUME NEW data, NEW type, NEW maxSize
  PROVE  \E t \in {<<"text/plain">>, <<"image/png">>} :
           NewBodyContent(data, type, maxSize) = NewBodyContent(data, t, maxSize)
  <1>1. IsTextContent(<<"text/plain">>) /\ ~IsTextContent(<<"image/png">>)
    <2>1. \A x : ToSet(<<x>>) = {x}
      BY DEF ToSet
    <2> QED
      BY <2>1 DEF IsTextContent
  <1>2. CASE IsTextContent(type)
    <2>1. NewBodyContent(data, type, maxSize) = NewBodyContent(data, <<"text/plain">>, maxSize)
      BY <1>1, <1>2 DEF NewBodyContent
    <2> QED
      BY <2>1
  <1>3. CASE ~IsTextContent(type)
    <2>1. NewBodyContent(data, type, maxSize) = NewBodyContent(data, <<"image/png">>, maxSize)
      BY <1>1, <1>3 DEF NewBodyContent
    <2> QED
      BY <2>1
  <1> QED
    BY <1>2, <1>3

(* One entry of a session and the response it comes from. *)
Recording(record, r, maxSize, stored) ==
  \E type \in {<<"text/plain">>, <<"image/png">>} :
    LET body == NewBodyContent(r.data, type, maxSize)
    IN  record = [status  |-> r.status,
                  headers |-> HeadersToMap(r.headers),
                  body    |-> IF stored THEN Stored(body) ELSE body]

LEMMA RecordedSo ==
  ASSUME NEW r, NEW maxSize
  PROVE  Recording(ResponseRecord(r, maxSize), r, maxSize, FALSE)
  <1> DEFINE t == <<Head(Value(HeadersToMap(r.headers), "Content-Type"))>>
  <1>1. PICK type \in {<<"text/plain">>, <<"image/png">>} :
          NewBodyContent(r.data, t, maxSize) = NewBodyContent(r.data, type, maxSize)
    BY OfTwoTypes
  <1>2. ResponseRecord(r, maxSize) = [status  |-> r.status,
                                      headers |-> HeadersToMap(r.headers),
                                      body    |-> NewBodyContent(r.data, type, maxSize)]
    BY <1>1 DEF ResponseRecord
  <1> QED
    BY <1>2 DEF Recording

LEMMA ImportedSo ==
  ASSUME NEW e, IsEntry(e), NEW maxSize
  PROVE  Recording(ConvertResponse(e, maxSize), e, maxSize, FALSE)
  <1> DEFINE t == IF e.mime # NoType THEN <<e.mime>>
                  ELSE Value(HeadersToMap(e.headers), "Content-Type")
  <1>1. PICK type \in {<<"text/plain">>, <<"image/png">>} :
          NewBodyContent(e.data, t, maxSize) = NewBodyContent(e.data, type, maxSize)
    BY OfTwoTypes
  <1>2. NewBodyContent(<<>>, t, maxSize) = NoBody
    BY DEF NewBodyContent
  <1>3. NewBodyContent(e.data, t, maxSize) =
          IF e.text = <<>> THEN NoBody ELSE NewBodyContent(BodyBytes(e), t, maxSize)
    <2>1. BodyBytes(e) = e.data /\ (e.text = <<>> => e.data = <<>>)
      BY DEF IsEntry, BodyBytes
    <2> QED
      BY <1>2, <2>1
  <1>4. ConvertResponse(e, maxSize) = [status  |-> e.status,
                                       headers |-> HeadersToMap(e.headers),
                                       body    |-> NewBodyContent(e.data, type, maxSize)]
    BY <1>1, <1>3 DEF ConvertResponse
  <1> QED
    BY <1>4 DEF Recording

LEMMA SavedSo ==
  ASSUME NEW record, NEW r, NEW maxSize, Recording(record, r, maxSize, FALSE)
  PROVE  Recording(StoredRecord(record), r, maxSize, TRUE)
  <1>1. PICK type \in {<<"text/plain">>, <<"image/png">>} :
          record = [status  |-> r.status,
                    headers |-> HeadersToMap(r.headers),
                    body    |-> NewBodyContent(r.data, type, maxSize)]
    BY DEF Recording
  <1>2. StoredRecord(record) = [status  |-> r.status,
                                headers |-> HeadersToMap(r.headers),
                                body    |-> Stored(NewBodyContent(r.data, type, maxSize))]
    BY <1>1 DEF StoredRecord
  <1> QED
    BY <1>2 DEF Recording

LEMMA SessionIs ==
  SessionExact <=>
    /\ served \in Seq(Responses \cup UNION {ToSet(har.entries) : har \in HarFiles})
    /\ session \in Seq(ToSet(session)) /\ Len(session) = Len(served)
    /\ \A n \in DOMAIN served : Recording(session[n], served[n], maxBodySize, OnFile)
  BY DEF SessionExact, Recording

LEMMA MostBytesIsNat ==
  ASSUME size \in Sizes
  PROVE  MostBytes \in Nat /\ (size.unit # NoUnit => size.unit \in DOMAIN Units)
  <1>1. size \in [number : Nat, unit : DOMAIN Units \cup {NoUnit}]
    BY SizesAssumption
  <1>2. size.number \in Nat /\ (size.unit # NoUnit => size.unit \in DOMAIN Units)
    BY <1>1
  <1>3. \A u \in DOMAIN Units : Units[u] \in Nat
    BY DEF Units
  <1>4. ASSUME NEW m \in Nat PROVE size.number * m \in Nat
    BY <1>2
  <1> QED
    BY <1>2, <1>3, <1>4 DEF MostBytes

LEMMA Start0 == Init => Inductive
  <1> SUFFICES ASSUME Init PROVE Inductive
    OBVIOUS
  <1>1. /\ phase = "args" /\ size \in Sizes /\ served = <<>> /\ session = <<>>
        /\ limit = 1 /\ todo = <<>> /\ results = <<>> /\ report = <<>>
    BY DEF Init
  <1>2. \A S : <<>> \in Seq(S)
    OBVIOUS
  <1>3. SizeExact
    BY <1>1 DEF SizeExact
  <1>4. SessionExact
    BY <1>1, <1>2, SessionIs
  <1>5. ResultsExact
    BY <1>1, <1>2 DEF ResultsExact
  <1>6. ReplayInOrder
    BY <1>1 DEF ReplayInOrder
  <1>7. ReportExact
    BY <1>1 DEF ReportExact
  <1> QED
    BY <1>1, <1>2, <1>3, <1>4, <1>5, <1>6, <1>7 DEF Inductive

LEMMA ReadArgsKeeps == Inductive /\ ReadArgs => Inductive'
  <1> SUFFICES ASSUME Inductive, ReadArgs PROVE Inductive'
    OBVIOUS
  <1> USE DEF Inductive
  <1>1. /\ phase = "args" /\ phase' \in {"refused", "record"}
        /\ phase' = "record" => maxBodySize' \in ParseSize \ {Refused}
        /\ UNCHANGED <<size, served, session, limit, todo, results, ignore, report>>
    BY DEF ReadArgs
  <1>2. served = <<>> /\ size \in Sizes
    BY <1>1 DEF SizeExact
  <1>3. phase' = "record" => maxBodySize' = MostBytes'
    <2>1. ASSUME NEW m \in ParseSize \ {Refused} PROVE m = MostBytes
      <3>1. CASE size.unit = NoUnit
        <4>1. m = size.number
          BY <3>1 DEF ParseSize
        <4>2. size.number \in Nat
          BY <1>2, SizesAssumption
        <4>3. size.number * 1 = size.number
          BY <4>2
        <4> QED
          BY <3>1, <4>1, <4>3 DEF MostBytes
      <3>2. CASE size.unit # NoUnit
        BY <3>2 DEF ParseSize, MostBytes
      <3> QED
        BY <3>1, <3>2
    <2>2. MostBytes' = MostBytes
      BY <1>1 DEF MostBytes
    <2> QED
      BY <1>1, <2>1, <2>2
  <1>4. SizeExact'
    BY <1>1, <1>2, <1>3 DEF SizeExact
  <1>5. SessionExact'
    <2>1. session = <<>>
      <3>1. Len(served) = 0
        BY <1>2
      <3>2. Len(session) = 0 /\ session \in Seq(ToSet(session))
        BY <3>1, SessionIs
      <3> QED
        BY <3>2
    <2> QED
      BY <1>1, <1>2, <2>1 DEF SessionExact
  <1>6. ResultsExact'
    BY <1>1 DEF ResultsExact
  <1>7. ReplayInOrder' /\ ReportExact'
    BY <1>1 DEF ReplayInOrder, ReportExact
  <1> QED
    BY <1>1, <1>4, <1>5, <1>6, <1>7

LEMMA CaptureKeeps == Inductive /\ Capture => Inductive'
  <1> SUFFICES ASSUME Inductive, Capture PROVE Inductive'
    OBVIOUS
  <1> USE DEF Inductive
  <1> DEFINE All == Responses \cup UNION {ToSet(har.entries) : har \in HarFiles}
  <1>1. PICK r \in Responses : /\ served' = Append(served, r)
                               /\ session' = Append(session, ResponseRecord(r, maxBodySize))
    BY BoundsAssumption DEF Capture
  <1>2. /\ phase = "record" /\ phase' = "record"
        /\ UNCHANGED <<size, maxBodySize, limit, todo, results, ignore, report>>
    BY DEF Capture, sizeVars
  <1>3. SizeExact'
    BY <1>2 DEF SizeExact, MostBytes
  <1>4. SessionExact'
    <2>1. /\ served \in Seq(All) /\ session \in Seq(ToSet(session)) /\ Len(session) = Len(served)
          /\ \A n \in DOMAIN served : Recording(session[n], served[n], maxBodySize, FALSE)
      <3>1. OnFile = FALSE
        BY <1>2 DEF OnFile
      <3> QED
        BY <3>1, SessionIs
    <2> HIDE DEF All
    <2>2. /\ session' \in Seq(ToSet(session')) /\ Len(session') = Len(session) + 1
          /\ \A n \in DOMAIN session : session'[n] = session[n]
          /\ session'[Len(session) + 1] = ResponseRecord(r, maxBodySize)
      BY <1>1, <2>1, OneMore
    <2>3. /\ served' \in Seq(All) /\ Len(served') = Len(served) + 1
          /\ \A n \in DOMAIN served : served'[n] = served[n]
          /\ served'[Len(served) + 1] = r
      <3>1. r \in All
        BY DEF All
      <3> QED
        BY <1>1, <2>1, <3>1
    <2>4. ASSUME NEW n \in DOMAIN served'
          PROVE  Recording(session'[n], served'[n], maxBodySize, FALSE)
      <3>1. n \in DOMAIN served \/ n = Len(served) + 1
        BY <2>1, <2>3
      <3>2. CASE n \in DOMAIN served
        <4>1. n \in DOMAIN session
          BY <2>1, <3>2
        <4> QED
          BY <2>1, <2>2, <2>3, <3>2, <4>1
      <3>3. CASE n = Len(served) + 1
        BY <2>1, <2>2, <2>3, <3>3, RecordedSo
      <3> QED
        BY <3>1, <3>2, <3>3
    <2>5. OnFile' = FALSE /\ maxBodySize' = maxBodySize
      BY <1>2 DEF OnFile
    <2>6. SessionExact' <=>
            /\ served' \in Seq(All)
            /\ session' \in Seq(ToSet(session')) /\ Len(session') = Len(served')
            /\ \A n \in DOMAIN served' : Recording(session'[n], served'[n], maxBodySize', OnFile')
      BY DEF SessionExact, Recording, All
    <2> QED
      BY <2>1, <2>2, <2>3, <2>4, <2>5, <2>6
  <1>5. ResultsExact'
    BY <1>2 DEF ResultsExact
  <1>6. ReplayInOrder' /\ ReportExact'
    BY <1>2 DEF ReplayInOrder, ReportExact
  <1> QED
    BY <1>2, <1>3, <1>4, <1>5, <1>6

LEMMA ImportKeeps == Inductive /\ Import => Inductive'
  <1> SUFFICES ASSUME Inductive, Import PROVE Inductive'
    OBVIOUS
  <1> USE DEF Inductive
  <1> DEFINE All == Responses \cup UNION {ToSet(har.entries) : har \in HarFiles}
  <1>1. PICK har \in HarFiles :
          \/ /\ served' = UsableOf(har.entries)
             /\ session' = Converted(har.entries, maxBodySize) /\ phase' = "save"
          \/ phase' = "failed" /\ UNCHANGED <<served, session>>
    BY DEF Import
  <1>2. /\ phase = "record" /\ served = <<>> /\ phase' \in {"save", "failed"}
        /\ UNCHANGED <<size, maxBodySize, limit, todo, results, ignore, report>>
    BY DEF Import, sizeVars
  <1>3. SizeExact'
    BY <1>2 DEF SizeExact, MostBytes
  <1>4. SessionExact'
    <2>1. SessionExact' <=>
            /\ served' \in Seq(All)
            /\ session' \in Seq(ToSet(session')) /\ Len(session') = Len(served')
            /\ \A n \in DOMAIN served' : Recording(session'[n], served'[n], maxBodySize', OnFile')
      BY DEF SessionExact, Recording
    <2>2. CASE phase' = "failed"
      <3>1. served' = <<>> /\ session' \in Seq(ToSet(session')) /\ Len(session') = 0
        <4>1. UNCHANGED <<served, session>>
          BY <1>1, <2>2
        <4>2. session \in Seq(ToSet(session)) /\ Len(session) = Len(served)
          BY SessionIs
        <4> QED
          BY <1>2, <4>1, <4>2
      <3>2. served' \in Seq(All) /\ Len(served') = 0
        BY <3>1
      <3> QED
        BY <2>1, <3>1, <3>2
    <2>3. CASE phase' = "save"
      <3> DEFINE used == UsableOf(har.entries)
                 T    == ToSet(har.entries)
      <3>1. served' = used /\ session' = [i \in DOMAIN used |-> ConvertResponse(used[i], maxBodySize)]
        BY <1>1, <2>3 DEF Converted
      <3>2. used \in Seq(T)
        <4> DEFINE S == {i \in DOMAIN har.entries : Usable(har.entries[i])}
        <4>1. har.entries \in Seq(T)
          BY HarAssumption
        <4>2. S \in SUBSET DOMAIN har.entries
          OBVIOUS
        <4> HIDE DEF S, T
        <4>3. Picked(har.entries, S) \in Seq(T)
          BY <4>1, <4>2, PickedFacts
        <4> QED
          BY <4>3 DEF UsableOf, S
      <3> HIDE DEF used
      <3>3. \A i \in DOMAIN used : IsEntry(used[i])
        BY <3>2, HarAssumption, SeqElement
      <3>4. used \in Seq(All)
        <4>1. T \subseteq All
          OBVIOUS
        <4>2. \A i \in 1..Len(used) : used[i] \in All
          <5> HIDE DEF T, All
          <5> QED
            BY <3>2, <4>1
        <4> HIDE DEF T, All
        <4>3. used \in [1..Len(used) -> All] /\ Len(used) \in Nat
          BY <3>2, <4>2
        <4> QED
          BY <4>3, SeqMade
      <3>5. Len(session') = Len(used) /\ session' \in Seq(ToSet(session'))
        <4> DEFINE C == {ConvertResponse(used[i], maxBodySize) : i \in DOMAIN used}
        <4>1. Len(used) \in Nat /\ DOMAIN used = 1..Len(used)
          BY <3>2
        <4>2. session' \in [1..Len(used) -> C]
          BY <3>1, <4>1
        <4> HIDE DEF C
        <4>3. session' \in Seq(C) /\ Len(session') = Len(used)
          BY <4>1, <4>2, SeqMade
        <4> QED
          BY <4>3, OwnElements
      <3>6. \A n \in DOMAIN served' : Recording(session'[n], served'[n], maxBodySize', FALSE)
        BY <1>2, <3>1, <3>3, ImportedSo
      <3>7. OnFile' = FALSE
        BY <2>3 DEF OnFile
      <3> HIDE DEF All
      <3> QED
        BY <2>1, <3>1, <3>4, <3>5, <3>6, <3>7
    <2> QED
      BY <1>2, <2>2, <2>3
  <1>5. ResultsExact'
    BY <1>2 DEF ResultsExact
  <1>6. ReplayInOrder' /\ ReportExact'
    BY <1>2 DEF ReplayInOrder, ReportExact
  <1> QED
    BY <1>2, <1>3, <1>4, <1>5, <1>6

LEMMA SaveKeeps == Inductive /\ Save => Inductive'
  <1> SUFFICES ASSUME Inductive, Save PROVE Inductive'
    OBVIOUS
  <1> USE DEF Inductive
  <1> DEFINE All == Responses \cup UNION {ToSet(har.entries) : har \in HarFiles}
  <1>1. /\ phase \in {"save", "record"} /\ phase' = "saved"
        /\ session' = [n \in DOMAIN session |-> StoredRecord(session[n])]
        /\ UNCHANGED <<size, maxBodySize, served, limit, todo, results, ignore, report>>
    BY DEF Save, sizeVars
  <1>2. SizeExact'
    BY <1>1 DEF SizeExact, MostBytes
  <1>3. SessionExact'
    <2>1. SessionExact' <=>
            /\ served' \in Seq(All)
            /\ session' \in Seq(ToSet(session')) /\ Len(session') = Len(served')
            /\ \A n \in DOMAIN served' : Recording(session'[n], served'[n], maxBodySize', OnFile')
      BY DEF SessionExact, Recording
    <2>2. /\ served \in Seq(All) /\ session \in Seq(ToSet(session)) /\ Len(session) = Len(served)
          /\ \A n \in DOMAIN served : Recording(session[n], served[n], maxBodySize, FALSE)
      <3>1. OnFile = FALSE
        BY <1>1 DEF OnFile
      <3> QED
        BY <3>1, SessionIs
    <2> HIDE DEF All
    <2>3. Len(session') = Len(session) /\ session' \in Seq(ToSet(session'))
      <3> DEFINE C == {StoredRecord(session[i]) : i \in DOMAIN session}
      <3>1. Len(session) \in Nat /\ DOMAIN session = 1..Len(session)
        BY <2>2
      <3>2. session' \in [1..Len(session) -> C]
        BY <1>1, <3>1
      <3> HIDE DEF C
      <3>3. session' \in Seq(C) /\ Len(session') = Len(session)
        BY <3>1, <3>2, SeqMade
      <3> QED
        BY <3>3, OwnElements
    <2>4. DOMAIN served = DOMAIN session
      BY <2>2
    <2>5. \A n \in DOMAIN served' : Recording(session'[n], served'[n], maxBodySize', TRUE)
      BY <1>1, <2>2, <2>4, SavedSo
    <2>6. OnFile' = TRUE
      BY <1>1 DEF OnFile
    <2> QED
      BY <1>1, <2>1, <2>2, <2>3, <2>5, <2>6
  <1>4. ResultsExact'
    BY <1>1 DEF ResultsExact
  <1>5. ReplayInOrder' /\ ReportExact'
    BY <1>1 DEF ReplayInOrder, ReportExact
  <1> QED
    BY <1>1, <1>2, <1>3, <1>4, <1>5

LEMMA KthIsIn ==
  ASSUME NEW m \in Nat, NEW S \in SUBSET (1..m)
  PROVE  Cardinality(S) \in Nat /\ \A k \in 1..Cardinality(S) : Kth(S, k) \in S
  <1>1. Cardinality(S) \in Nat
    <2>1. IsFiniteSet(1..m)
      BY FS_Interval
    <2>2. IsFiniteSet(S)
      BY <2>1, FS_Subset
    <2> QED
      BY <2>2, FS_CardinalityType
  <1>2. ASSUME NEW k \in 1..Cardinality(S) PROVE Kth(S, k) \in S
    <2>1. \E i \in S : Cardinality({j \in S : j <= i}) = k
      BY KthElement
    <2> QED
      BY <2>1 DEF Kth
  <1> QED
    BY <1>1, <1>2

LEMMA StartKeeps == Inductive /\ Start => Inductive'
  <1> SUFFICES ASSUME Inductive, Start PROVE Inductive'
    OBVIOUS
  <1> USE DEF Inductive
  <1>1. PICK kept \in SUBSET DOMAIN session :
          /\ todo' = [k \in 1..Cardinality(kept) |-> Kth(kept, k)]
          /\ phase' = IF kept = {} THEN "failed" ELSE "replay"
    BY DEF Start
  <1>2. /\ phase = "saved" /\ phase' \in {"failed", "replay"} /\ limit' \in Limits
        /\ UNCHANGED <<size, maxBodySize, served, session, results, ignore, report>>
    BY <1>1 DEF Start, sizeVars
  <1>3. SizeExact'
    BY <1>2 DEF SizeExact, MostBytes
  <1>4. SessionExact'
    <2>1. OnFile /\ OnFile'
      BY <1>2 DEF OnFile
    <2> QED
      BY <1>2, <2>1 DEF SessionExact
  <1>5. results = <<>> /\ ResultsExact'
    BY <1>2 DEF ResultsExact
  <1>6. /\ Cardinality(kept) \in Nat /\ \A k \in 1..Cardinality(kept) : Kth(kept, k) \in DOMAIN session
        /\ DOMAIN session \subseteq Nat
    <2>1. session \in Seq(ToSet(session))
      BY DEF SessionExact
    <2>2. Len(session) \in Nat /\ DOMAIN session = 1..Len(session)
      BY <2>1
    <2>3. /\ kept \in SUBSET (1..Len(session)) /\ 1..Len(session) \subseteq Nat
      BY <2>2
    <2>4. Cardinality(kept) \in Nat /\ \A k \in 1..Cardinality(kept) : Kth(kept, k) \in kept
      BY <2>2, <2>3, KthIsIn
    <2> QED
      BY <2>2, <2>3, <2>4
  <1>7. todo' \in Seq(Nat) /\ Len(todo') = Cardinality(kept)
    <2>1. todo' \in [1..Cardinality(kept) -> Nat]
      BY <1>1, <1>6
    <2> QED
      BY <1>6, <2>1, SeqMade
  <1>8. ReplayInOrder'
    <2>1. Len(results') = 0 /\ DOMAIN results' = {}
      BY <1>2, <1>5
    <2>2. \A k \in DOMAIN todo' : 0 + k = k /\ todo'[k] = Kth(kept, k)
      BY <1>1, <1>6
    <2>3. session' = session
      BY <1>2
    <2>4. /\ Len(results') + Len(todo') = Cardinality(kept)
          /\ \A k \in DOMAIN results' : results'[k].entry = Kth(kept, k)
          /\ \A k \in DOMAIN todo' : todo'[k] = Kth(kept, Len(results') + k)
      BY <1>6, <1>7, <2>1, <2>2
    <2> QED
      BY <2>3, <2>4 DEF ReplayInOrder
  <1>9. ReportExact'
    BY <1>2 DEF ReportExact
  <1> QED
    BY <1>2, <1>3, <1>4, <1>5, <1>7, <1>8, <1>9

LEMMA FinishKeeps ==
  ASSUME Inductive, NEW n \in DOMAIN todo, Finish(n)
  PROVE  Inductive'
  <1> USE DEF Inductive
  <1>1. PICK done : /\ results' = Append(results, done) /\ done.entry = todo[n]
                    /\ \/ done.answer = NoResponse
                       \/ /\ done.answer \in Responses
                          /\ done.record = ResponseRecord(done.answer, 0)
    <2>1. CASE results' = Append(results,
                 [entry |-> todo[n], answer |-> NoResponse, record |-> NoResponse])
      <3> DEFINE it == [entry |-> todo[n], answer |-> NoResponse, record |-> NoResponse]
      <3>1. it.entry = todo[n] /\ it.answer = NoResponse
        OBVIOUS
      <3> HIDE DEF it
      <3>2. results' = Append(results, it)
        BY <2>1 DEF it
      <3> QED
        BY <3>1, <3>2
    <2>2. CASE \E r \in Responses :
                 results' = Append(results,
                   [entry |-> todo[n], answer |-> r, record |-> ResponseRecord(r, 0)])
      <3>1. PICK r \in Responses :
              results' = Append(results,
                [entry |-> todo[n], answer |-> r, record |-> ResponseRecord(r, 0)])
        BY <2>2
      <3> DEFINE it == [entry |-> todo[n], answer |-> r, record |-> ResponseRecord(r, 0)]
      <3>2. it.entry = todo[n] /\ it.answer = r /\ it.record = ResponseRecord(r, 0)
        OBVIOUS
      <3> HIDE DEF it
      <3>3. results' = Append(results, it)
        BY <3>1 DEF it
      <3> QED
        BY <3>2, <3>3
    <2> QED
      BY <2>1, <2>2, BoundsAssumption DEF Finish
  <1>2. /\ phase = "replay" /\ n <= limit /\ todo' = RemoveAt(todo, n)
        /\ UNCHANGED <<phase, size, maxBodySize, served, session, limit, ignore, report>>
    BY DEF Finish, sizeVars
  <1>3. SizeExact'
    BY <1>2 DEF SizeExact, MostBytes
  <1>4. SessionExact'
    <2>1. OnFile /\ OnFile'
      BY <1>2 DEF OnFile
    <2> QED
      BY <1>2, <2>1 DEF SessionExact
  <1>5. results \in Seq(ToSet(results))
    BY DEF ResultsExact
  <1>6. /\ results' \in Seq(ToSet(results')) /\ Len(results') = Len(results) + 1
        /\ DOMAIN results' = 1..(Len(results) + 1)
        /\ \A i \in DOMAIN results : results'[i] = results[i]
        /\ results'[Len(results) + 1] = done
    BY <1>1, <1>5, OneMore
  <1>7. Len(results) \in Nat /\ DOMAIN results = 1..Len(results)
    BY <1>5
  <1>8. ResultsExact'
    <2>1. ASSUME NEW k \in DOMAIN results'
          PROVE  \/ results'[k].answer = NoResponse
                 \/ /\ results'[k].answer \in Responses
                    /\ results'[k].record = ResponseRecord(results'[k].answer, 0)
      <3>1. k \in DOMAIN results \/ k = Len(results) + 1
        BY <1>6, <1>7
      <3>2. CASE k \in DOMAIN results
        BY <1>6, <3>2 DEF ResultsExact
      <3>3. CASE k = Len(results) + 1
        BY <1>1, <1>6, <3>3
      <3> QED
        BY <3>1, <3>2, <3>3
    <2> QED
      BY <1>2, <1>6, <2>1 DEF ResultsExact
  <1>9. todo' \in Seq(Nat)
    BY <1>2, OneLess
  <1>10. ReplayInOrder'
    <2> SUFFICES ASSUME limit' = 1
                 PROVE  \E kept \in SUBSET DOMAIN session' :
                          /\ Len(results') + Len(todo') = Cardinality(kept)
                          /\ \A k \in DOMAIN results' : results'[k].entry = Kth(kept, k)
                          /\ \A k \in DOMAIN todo' : todo'[k] = Kth(kept, Len(results') + k)
      BY DEF ReplayInOrder
    <2>1. PICK kept \in SUBSET DOMAIN session :
            /\ Len(results) + Len(todo) = Cardinality(kept)
            /\ \A k \in DOMAIN results : results[k].entry = Kth(kept, k)
            /\ \A k \in DOMAIN todo : todo[k] = Kth(kept, Len(results) + k)
      BY <1>2 DEF ReplayInOrder
    <2>2. n = 1 /\ Len(todo) \in Nat
      BY <1>2
    <2>3. /\ Len(todo') = Len(todo) - 1
          /\ \A k \in DOMAIN todo' : k + 1 \in DOMAIN todo /\ todo'[k] = todo[k + 1]
      BY <1>2, <2>2, OneLess
    <2>4. Len(results') + Len(todo') = Cardinality(kept)
      BY <1>6, <1>7, <2>1, <2>2, <2>3
    <2>5. ASSUME NEW k \in DOMAIN results' PROVE results'[k].entry = Kth(kept, k)
      <3>1. k \in DOMAIN results \/ k = Len(results) + 1
        BY <1>6, <1>7
      <3>2. done.entry = Kth(kept, Len(results) + 1)
        BY <1>1, <2>1, <2>2
      <3> QED
        BY <1>6, <2>1, <3>1, <3>2
    <2>6. ASSUME NEW k \in DOMAIN todo' PROVE todo'[k] = Kth(kept, Len(results') + k)
      <3>1. k + 1 \in DOMAIN todo /\ todo'[k] = todo[k + 1]
        BY <2>3
      <3>2. todo[k + 1] = Kth(kept, Len(results) + (k + 1))
        BY <2>1, <3>1
      <3>3. k \in Nat
        BY <1>9
      <3>4. Len(results) + (k + 1) = Len(results') + k
        BY <1>6, <1>7, <3>3
      <3> QED
        BY <3>1, <3>2, <3>4
    <2> QED
      BY <1>2, <2>4, <2>5, <2>6
  <1>11. ReportExact'
    BY <1>2 DEF ReportExact
  <1> QED
    BY <1>2, <1>3, <1>4, <1>8, <1>9, <1>10, <1>11

LEMMA CompareKeeps == Inductive /\ Compare => Inductive'
  <1> SUFFICES ASSUME Inductive, Compare PROVE Inductive'
    OBVIOUS
  <1> USE DEF Inductive
  <1>1. /\ phase = "replay" /\ phase' = "reported" /\ todo = <<>>
        /\ UNCHANGED <<size, maxBodySize, served, session, limit, todo, results>>
    BY DEF Compare, sizeVars
  <1>2. SizeExact'
    BY <1>1 DEF SizeExact, MostBytes
  <1>3. SessionExact'
    <2>1. OnFile /\ OnFile'
      BY <1>1 DEF OnFile
    <2> QED
      BY <1>1, <2>1 DEF SessionExact
  <1>4. ResultsExact'
    BY <1>1 DEF ResultsExact
  <1>5. ReplayInOrder'
    BY <1>1 DEF ReplayInOrder
  <1>6. ReportExact'
    <2> DEFINE Outcomes(i) == CompareEntry(session[i], StoredRecord(results[i].record), ignore')
               pairs       == DOMAIN session \cap DOMAIN results
    <2>1. report' \in {r \in [pairs -> UNION {Outcomes(i) : i \in pairs}] :
                         \A i \in pairs : r[i] \in Outcomes(i)}
      BY DEF Compare
    <2> HIDE DEF Outcomes
    <2>2. DOMAIN report' = pairs /\ \A i \in pairs : report'[i] \in Outcomes(i)
      BY <2>1
    <2> QED
      BY <1>1, <2>2 DEF ReportExact, Outcomes
  <1> QED
    BY <1>1, <1>2, <1>3, <1>4, <1>5, <1>6

LEMMA Stutters == Inductive /\ UNCHANGED vars => Inductive'
  <1> SUFFICES ASSUME Inductive, UNCHANGED vars PROVE Inductive'
    OBVIOUS
  <1> USE DEF Inductive, vars, sizeVars
  <1>1. SizeExact' /\ SessionExact'
    BY DEF SizeExact, SessionExact, MostBytes, OnFile
  <1>2. ResultsExact' /\ ReplayInOrder' /\ ReportExact'
    BY DEF ResultsExact, ReplayInOrder, ReportExact
  <1> QED
    BY <1>1, <1>2

(* What the files and the report hold comes, in every step, from what the  *)
(* servers sent (record to diff, main.go:370 to diff.go:54).               *)
THEOREM Invariance == Spec => []Inductive
  <1>1. Init => Inductive
    BY Start0
  <1>2. Inductive /\ [Next]_vars => Inductive'
    <2> SUFFICES ASSUME Inductive, [Next]_vars PROVE Inductive'
      OBVIOUS
    <2>1. CASE ReadArgs
      BY <2>1, ReadArgsKeeps
    <2>2. CASE Capture
      BY <2>2, CaptureKeeps
    <2>3. CASE Import
      BY <2>3, ImportKeeps
    <2>4. CASE Save
      BY <2>4, SaveKeeps
    <2>5. CASE Start
      BY <2>5, StartKeeps
    <2>6. ASSUME NEW n \in DOMAIN todo, Finish(n) PROVE Inductive'
      BY <2>6, FinishKeeps
    <2>7. CASE Compare
      BY <2>7, CompareKeeps
    <2>8. CASE Ended
      BY <2>8, Stutters DEF Ended
    <2>9. CASE UNCHANGED vars
      BY <2>9, Stutters
    <2> QED
      BY <2>1, <2>2, <2>3, <2>4, <2>5, <2>6, <2>7, <2>8, <2>9 DEF Next
  <1> QED
    BY <1>1, <1>2, PTL DEF Spec

----------------------------------------------------------------------------
(* What follows from it. *)

LEMMA WhoServed ==
  ASSUME Inductive, NEW n \in DOMAIN served
  PROVE  /\ served[n].headers \in Headers /\ served[n].data \in Seq(STRING)
         /\ n \in DOMAIN session
  <1> DEFINE Har == UNION {ToSet(har.entries) : har \in HarFiles}
  <1>1. /\ served \in Seq(Responses \cup Har) /\ session \in Seq(ToSet(session))
        /\ Len(session) = Len(served)
    BY DEF Inductive, SessionExact
  <1>2. served[n] \in Responses \cup Har
    <2> HIDE DEF Har
    <2> QED
      BY <1>1
  <1>3. CASE served[n] \in Responses
    BY <1>1, <1>3, ResponsesAssumption
  <1>4. CASE served[n] \in Har
    <2>1. served[n].headers \in Headers /\ IsEntry(served[n])
      BY <1>4, HarAssumption
    <2>2. served[n].data \in Seq(STRING)
      BY <2>1 DEF IsEntry
    <2> QED
      BY <1>1, <2>1, <2>2
  <1> QED
    BY <1>2, <1>3, <1>4

LEMMA SurvivesFrom == Inductive => BodySurvives
  <1> SUFFICES ASSUME Inductive, phase \notin {"args", "record", "save"},
                      NEW n \in DOMAIN served
               PROVE  LET data == served[n].data
                          cut  == MostBytes > 0 /\ Len(data) > MostBytes
                          kept == IF cut THEN SubSeq(data, 1, MostBytes) ELSE data
                          back == BytesOf(session[n].body)
                      IN  IF session[n].body.binary THEN back = kept
                          ELSE TextSurvives(data, kept, back)
    BY DEF BodySurvives
  <1> DEFINE data == served[n].data
             kept == KeptOf(data, MostBytes)
             body == session[n].body
  <1>1. data \in Seq(STRING)
    BY WhoServed
  <1>2. phase \notin {"args", "refused"} /\ maxBodySize = MostBytes /\ OnFile
    <2>1. phase # "refused"
      BY DEF Inductive, SizeExact
    <2> QED
      BY <2>1 DEF Inductive, SizeExact, OnFile
  <1>3. MostBytes \in Nat
    BY MostBytesIsNat DEF Inductive, SizeExact
  <1>4. PICK type \in {<<"text/plain">>, <<"image/png">>} :
          body = Stored(NewBodyContent(data, type, MostBytes))
    <2>1. Recording(session[n], served[n], maxBodySize, OnFile)
      BY SessionIs DEF Inductive
    <2>2. PICK type \in {<<"text/plain">>, <<"image/png">>} :
            session[n] = [status  |-> served[n].status,
                          headers |-> HeadersToMap(served[n].headers),
                          body    |-> Stored(NewBodyContent(data, type, maxBodySize))]
      BY <1>2, <2>1 DEF Recording
    <2> QED
      BY <1>2, <2>2
  <1> HIDE DEF data, body
  <1>5. /\ body.binary \in BOOLEAN
        /\ BytesOf(body) = IF body.binary THEN kept ELSE Filed(kept)
    BY <1>1, <1>3, <1>4, BodyBack
  <1>6. TextSurvives(data, kept, Filed(kept))
    BY <1>1, <1>3, KeptComesBack
  <1>7. kept = IF MostBytes > 0 /\ Len(data) > MostBytes THEN SubSeq(data, 1, MostBytes) ELSE data
    BY DEF KeptOf
  <1> HIDE DEF kept
  <1>8. IF body.binary THEN BytesOf(body) = kept ELSE TextSurvives(data, kept, BytesOf(body))
    BY <1>5, <1>6
  <1> QED
    BY <1>7, <1>8 DEF data, body

LEMMA MatchFrom == Inductive => PairsMatch
  <1> SUFFICES ASSUME Inductive, phase = "reported", limit = 1, Len(results) = Len(session),
                      NEW i \in DOMAIN report
               PROVE  results[i].entry = i
    BY DEF PairsMatch
  <1>1. PICK kept \in SUBSET DOMAIN session :
          /\ Len(results) + Len(todo) = Cardinality(kept)
          /\ \A k \in DOMAIN results : results[k].entry = Kth(kept, k)
    BY DEF Inductive, ReplayInOrder
  <1>2. Len(todo) = 0 /\ DOMAIN report = DOMAIN session \cap DOMAIN results
    BY DEF Inductive, ReportExact
  <1> DEFINE m == Len(session)
  <1>3. m \in Nat /\ DOMAIN session = 1..m /\ DOMAIN results = 1..m
    <2>1. session \in Seq(ToSet(session)) /\ results \in Seq(ToSet(results))
      BY DEF Inductive, SessionExact, ResultsExact
    <2> QED
      BY <2>1
  <1>4. Cardinality(kept) = m
    BY <1>1, <1>2, <1>3
  <1> HIDE DEF m
  <1>5. kept = 1..m
    BY <1>1, <1>3, <1>4, FullInterval
  <1>6. i \in 1..m
    BY <1>2, <1>3
  <1>7. Kth(kept, i) \in 1..m /\ Cardinality({j \in 1..m : j <= Kth(kept, i)}) = i
    <2>1. \E x \in 1..m : Cardinality({j \in 1..m : j <= x}) = i
      <3>1. 1..m \in SUBSET (1..m) /\ i \in 1..Cardinality(1..m)
        BY <1>4, <1>5, <1>6
      <3> QED
        BY <1>3, <3>1, KthElement
    <2> QED
      BY <1>5, <2>1 DEF Kth
  <1>8. Kth(kept, i) = i
    BY <1>3, <1>6, <1>7, KthOfInterval
  <1> QED
    BY <1>1, <1>3, <1>6, <1>8

(* A fair pair: whole bodies of known responses, compared in full. *)
LEMMA FairPairIs ==
  ASSUME Inductive, NEW i \in FairPairs
  PROVE  LET orig     == served[i]
             replayed == results[i].answer
             o        == session[i]
             r        == StoredRecord(results[i].record)
         IN  /\ orig.headers \in Headers /\ orig.data \in Seq(STRING)
             /\ replayed.headers \in Headers /\ replayed.data \in Seq(STRING)
             /\ OneSpelling(replayed)
             /\ o.status = orig.status /\ o.headers = HeadersToMap(orig.headers)
             /\ HoldsWhole(o.body, orig.data)
             /\ r.status = replayed.status /\ r.headers = HeadersToMap(replayed.headers)
             /\ HoldsWhole(r.body, replayed.data)
             /\ r.body.binary = results[i].record.body.binary
             /\ \E changed \in CompareHeaders(o.headers, r.headers) :
                  report[i] = [status  |-> o.status # r.status,
                               headers |-> changed,
                               body    |-> CompareBodies(o, r)]
  <1> DEFINE orig     == served[i]
             replayed == results[i].answer
             o        == session[i]
             record   == results[i].record
             r        == StoredRecord(record)
  <1>1. /\ i \in DOMAIN report /\ replayed # NoResponse /\ ~o.body.truncated
        /\ ~ignore.headers /\ ~ignore.body
    BY DEF FairPairs, Whole
  <1>2. phase = "reported"
    <2>1. DOMAIN <<>> = {}
      OBVIOUS
    <2> QED
      BY <1>1, <2>1 DEF Inductive, ReportExact
  <1>3. /\ i \in DOMAIN session /\ i \in DOMAIN results
        /\ report[i] \in CompareEntry(o, r, ignore)
    BY <1>1, <1>2 DEF Inductive, ReportExact
  <1>4. i \in DOMAIN served
    <2>1. /\ served \in Seq(Responses \cup UNION {ToSet(har.entries) : har \in HarFiles})
          /\ session \in Seq(ToSet(session)) /\ Len(session) = Len(served)
      BY DEF Inductive, SessionExact
    <2> HIDE DEF o
    <2> QED
      BY <1>3, <2>1
  <1>5. orig.headers \in Headers /\ orig.data \in Seq(STRING)
    BY <1>4, WhoServed
  <1>6. /\ replayed \in Responses /\ record = ResponseRecord(replayed, 0)
        /\ replayed.headers \in Headers /\ replayed.data \in Seq(STRING) /\ OneSpelling(replayed)
    <2>1. replayed \in Responses /\ record = ResponseRecord(replayed, 0)
      BY <1>1, <1>3 DEF Inductive, ResultsExact
    <2> QED
      BY <2>1, ResponsesAssumption
  <1>7. maxBodySize \in Nat /\ OnFile
    BY <1>2, MostBytesIsNat DEF Inductive, SizeExact, OnFile
  <1>8. PICK type :
          o = [status |-> orig.status, headers |-> HeadersToMap(orig.headers),
               body   |-> Stored(NewBodyContent(orig.data, type, maxBodySize))]
    BY <1>4, <1>7, SessionIs DEF Inductive, Recording
  <1>9. PICK kind :
          record = [status |-> replayed.status, headers |-> HeadersToMap(replayed.headers),
                    body   |-> NewBodyContent(replayed.data, kind, 0)]
    BY <1>6, RecordedSo DEF Recording
  <1> HIDE DEF orig, replayed, o, record
  <1>10. r = [status |-> replayed.status, headers |-> HeadersToMap(replayed.headers),
              body   |-> Stored(NewBodyContent(replayed.data, kind, 0))]
    BY <1>9 DEF StoredRecord
  <1>11. HoldsWhole(o.body, orig.data)
    <2>1. ~NewBodyContent(orig.data, type, maxBodySize).truncated
      <3>1. o.body = Stored(NewBodyContent(orig.data, type, maxBodySize))
        BY <1>8
      <3>2. o.body.truncated = NewBodyContent(orig.data, type, maxBodySize).truncated
        BY <1>5, <1>7, <3>1, StoredFacts
      <3> QED
        BY <1>1, <3>2
    <2> QED
      BY <1>5, <1>7, <1>8, <2>1, WholeIsHeld
  <1>12. HoldsWhole(r.body, replayed.data) /\ r.body.binary = record.body.binary
    <2>1. ~NewBodyContent(replayed.data, kind, 0).truncated
      <3>1. 0 \in Nat /\ ~(0 > 0)
        OBVIOUS
      <3>2. NewBodyContent(replayed.data, kind, 0).truncated = (0 > 0 /\ Len(replayed.data) > 0)
        BY <1>6, <3>1, NewBodyFacts
      <3> QED
        BY <3>1, <3>2
    <2>2. r.body = Stored(NewBodyContent(replayed.data, kind, 0))
      BY <1>10
    <2>3. r.body.binary = NewBodyContent(replayed.data, kind, 0).binary
      BY <1>6, <2>2, StoredFacts
    <2> QED
      BY <1>6, <1>9, <2>1, <2>2, <2>3, WholeIsHeld
  <1> HIDE DEF r
  <1>13. \E changed \in CompareHeaders(o.headers, r.headers) :
           report[i] = [status  |-> o.status # r.status,
                        headers |-> changed,
                        body    |-> CompareBodies(o, r)]
    BY <1>1, <1>3 DEF CompareEntry
  <1>14. /\ o.status = orig.status /\ o.headers = HeadersToMap(orig.headers)
         /\ r.status = replayed.status /\ r.headers = HeadersToMap(replayed.headers)
    BY <1>8, <1>10
  <1> QED
    BY <1>5, <1>6, <1>11, <1>12, <1>13, <1>14 DEF orig, replayed, o, r, record

LEMMA ShownFrom == Inductive => ChangeIsShown
  <1> SUFFICES ASSUME Inductive, NEW i \in FairPairs,
                      served[i].data # results[i].answer.data, report[i].body.diffs = {}
               PROVE  Blind(i)
    BY DEF ChangeIsShown
  <1> DEFINE orig     == served[i]
             replayed == results[i].answer
             o        == session[i]
             r        == StoredRecord(results[i].record)
  <1>1. /\ orig.headers \in Headers /\ orig.data \in Seq(STRING)
        /\ replayed.headers \in Headers /\ replayed.data \in Seq(STRING)
        /\ o.headers = HeadersToMap(orig.headers) /\ HoldsWhole(o.body, orig.data)
        /\ r.headers = HeadersToMap(replayed.headers) /\ HoldsWhole(r.body, replayed.data)
        /\ r.body.binary = results[i].record.body.binary
    BY FairPairIs
  <1>2. Recorded(r.body, replayed) = Recorded(results[i].record.body, replayed)
    BY <1>1 DEF Recorded
  <1>5. report[i].body = CompareBodies(o, r)
    <2>1. PICK changed \in CompareHeaders(o.headers, r.headers) :
            report[i] = [status  |-> o.status # r.status,
                         headers |-> changed,
                         body    |-> CompareBodies(o, r)]
      BY FairPairIs
    <2> QED
      BY <2>1
  <1> HIDE DEF orig, replayed, o, r
  <1>3. CompareBodies(o, r).diffs = {} /\ orig.data # replayed.data
    BY <1>5 DEF orig, replayed
  <1>4. Alike(orig, o.body, replayed, r.body)
    BY <1>1, <1>3, BodiesCompared
  <1> QED
    BY <1>1, <1>2, <1>4 DEF Alike, Blind, orig, replayed, o

LEMMA SilentFrom == Inductive => SameIsSilent
  <1> SUFFICES ASSUME Inductive, NEW i \in FairPairs,
                      served[i].status = results[i].answer.status,
                      served[i].data = results[i].answer.data,
                      OneSpelling(served[i]), Folded(served[i]) = Folded(results[i].answer),
                      session[i].body.binary = results[i].record.body.binary
               PROVE  ~HasChanged(report[i])
    BY DEF SameIsSilent
  <1> DEFINE orig     == served[i]
             replayed == results[i].answer
             o        == session[i]
             r        == StoredRecord(results[i].record)
  <1>1. /\ orig.headers \in Headers /\ orig.data \in Seq(STRING)
        /\ replayed.headers \in Headers /\ replayed.data \in Seq(STRING) /\ OneSpelling(replayed)
        /\ o.status = orig.status /\ o.headers = HeadersToMap(orig.headers)
        /\ HoldsWhole(o.body, orig.data)
        /\ r.status = replayed.status /\ r.headers = HeadersToMap(replayed.headers)
        /\ HoldsWhole(r.body, replayed.data)
        /\ r.body.binary = results[i].record.body.binary
    BY FairPairIs
  <1>2. PICK changed \in CompareHeaders(o.headers, r.headers) :
          report[i] = [status  |-> o.status # r.status,
                       headers |-> changed,
                       body    |-> CompareBodies(o, r)]
    BY FairPairIs
  <1>3. /\ orig.status = replayed.status /\ orig.data = replayed.data
        /\ OneSpelling(orig) /\ Folded(orig) = Folded(replayed)
        /\ o.body.binary = r.body.binary
    BY <1>1
  <1> HIDE DEF orig, replayed, o, r
  <1>4. ~report[i].status
    <2>1. report[i].status = (o.status # r.status)
      BY <1>2
    <2>2. o.status = r.status
      BY <1>1, <1>3
    <2> QED
      BY <2>1, <2>2
  <1>5. ASSUME NEW n \in DOMAIN report[i].headers PROVE ~report[i].headers[n]
    <2>1. report[i].headers = changed
      BY <1>2
    <2>2. changed[n] = (Value(Folded(orig), Fold[n]) # Value(Folded(replayed), Fold[n]))
      <3>1. changed \in CompareHeaders(HeadersToMap(orig.headers), HeadersToMap(replayed.headers))
        BY <1>1, <1>2
      <3>2. /\ DOMAIN changed = Spellings(orig) \cup Spellings(replayed)
            /\ \A name \in DOMAIN changed :
                 changed[name] = (Value(Folded(orig), Fold[name]) # Value(Folded(replayed), Fold[name]))
        <4>1. /\ orig.headers \in Headers /\ OneSpelling(orig)
              /\ replayed.headers \in Headers /\ OneSpelling(replayed)
          BY <1>1, <1>3
        <4> QED
          BY <3>1, <4>1, HeadersCompared
      <3> QED
        BY <2>1, <3>2
    <2>3. ~changed[n]
      BY <1>3, <2>2
    <2> QED
      BY <2>1, <2>3
  <1>6. report[i].body.diffs = {}
    <2>1. CompareBodies(o, r).diffs = {}
      BY <1>1, <1>3, BodiesCompared
    <2>2. report[i].body = CompareBodies(o, r)
      BY <1>2
    <2> QED
      BY <2>1, <2>2
  <1> QED
    BY <1>4, <1>5, <1>6 DEF HasChanged

LEMMA HeadersFrom == Inductive => HeadersExact
  <1> SUFFICES ASSUME Inductive, NEW i \in FairPairs, OneSpelling(served[i])
               PROVE  /\ DOMAIN report[i].headers =
                           Spellings(served[i]) \cup Spellings(results[i].answer)
                      /\ \A n \in DOMAIN report[i].headers :
                           report[i].headers[n] =
                             (Value(Folded(served[i]), Fold[n]) #
                              Value(Folded(results[i].answer), Fold[n]))
    BY DEF HeadersExact
  <1> DEFINE orig     == served[i]
             replayed == results[i].answer
             o        == session[i]
             r        == StoredRecord(results[i].record)
  <1>1. /\ orig.headers \in Headers /\ replayed.headers \in Headers /\ OneSpelling(replayed)
        /\ o.headers = HeadersToMap(orig.headers) /\ r.headers = HeadersToMap(replayed.headers)
    BY FairPairIs
  <1>2. PICK changed \in CompareHeaders(o.headers, r.headers) :
          report[i] = [status  |-> o.status # r.status,
                       headers |-> changed,
                       body    |-> CompareBodies(o, r)]
    BY FairPairIs
  <1> HIDE DEF orig, replayed, o, r
  <1>3. report[i].headers = changed /\ OneSpelling(orig)
    BY <1>2 DEF orig
  <1>4. /\ DOMAIN changed = Spellings(orig) \cup Spellings(replayed)
        /\ \A n \in DOMAIN changed :
             changed[n] = (Value(Folded(orig), Fold[n]) # Value(Folded(replayed), Fold[n]))
    BY <1>1, <1>2, <1>3, HeadersCompared
  <1> QED
    BY <1>3, <1>4 DEF orig, replayed

LEMMA FieldsFrom == Inductive => FieldsExact
  <1> SUFFICES ASSUME Inductive, NEW i \in FairPairs,
                      OnlyType(served[i], "application/json"),
                      OnlyType(results[i].answer, "application/json"),
                      ~session[i].body.binary, ~results[i].record.body.binary
               PROVE  report[i].body.diffs = Expected(Meaning(served[i]), Meaning(results[i].answer))
    BY DEF FieldsExact, Expected
  <1> DEFINE orig     == served[i]
             replayed == results[i].answer
             o        == session[i]
             r        == StoredRecord(results[i].record)
  <1>1. /\ orig.headers \in Headers /\ orig.data \in Seq(STRING)
        /\ replayed.headers \in Headers /\ replayed.data \in Seq(STRING)
        /\ o.headers = HeadersToMap(orig.headers) /\ HoldsWhole(o.body, orig.data)
        /\ r.headers = HeadersToMap(replayed.headers) /\ HoldsWhole(r.body, replayed.data)
        /\ r.body.binary = results[i].record.body.binary
    BY FairPairIs
  <1>2. ~r.body.binary /\ ~o.body.binary
    BY <1>1
  <1>3. PICK changed \in CompareHeaders(o.headers, r.headers) :
          report[i] = [status  |-> o.status # r.status,
                       headers |-> changed,
                       body    |-> CompareBodies(o, r)]
    BY FairPairIs
  <1>4. OnlyType(orig, "application/json") /\ OnlyType(replayed, "application/json")
    OBVIOUS
  <1> HIDE DEF orig, replayed, o, r
  <1>5. CompareBodies(o, r).diffs = Expected(Meaning(orig), Meaning(replayed))
    BY <1>1, <1>2, <1>4, FieldsCompared
  <1>6. report[i].body = CompareBodies(o, r)
    BY <1>3
  <1> QED
    BY <1>5, <1>6 DEF orig, replayed

(* Every saved entry gives back the bytes of its own response, up to the   *)
(* size, a text as far as it consists of characters (session.go:59-98).    *)
THEOREM Survives == Spec => []BodySurvives
  BY Invariance, SurvivesFrom, PTL

(* With one request at a time and nothing filtered, each entry is compared *)
(* with its own replay (diff.go:75).                                       *)
THEOREM Matching == Spec => []PairsMatch
  BY Invariance, MatchFrom, PTL

(* A body that the code can tell from the recorded one is reported         *)
(* (diff.go:182-210).                                                      *)
THEOREM Showing == Spec => []ChangeIsShown
  BY Invariance, ShownFrom, PTL

(* A response that came back the same is not reported (diff.go:145-160).   *)
THEOREM Silence == Spec => []SameIsSilent
  BY Invariance, SilentFrom, PTL

(* The headers that are reported are those that changed (diff.go:145-160). *)
THEOREM HeaderReport == Spec => []HeadersExact
  BY Invariance, HeadersFrom, PTL

(* Of two JSON bodies exactly the topmost places where their values        *)
(* disagree are reported, each with its kind (diff.go:226-360).            *)
THEOREM FieldReport == Spec => []FieldsExact
  BY Invariance, FieldsFrom, PTL
=============================================================================
