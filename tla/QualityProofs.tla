--------------------------- MODULE QualityProofs ---------------------------
(***************************************************************************)
(* Proofs about CheckDegraded, for texts of any length over any words.     *)
(***************************************************************************)
EXTENDS Quality, SequenceTheorems, FiniteSetTheorems, TLAPS

(* A state holds a text. *)
THEOREM TextTyped == Spec => []TypeOK
<1>1. Init => TypeOK
  BY DEF Init, TypeOK
<1>2. TypeOK /\ [Next]_words => TypeOK'
  <2>1. ASSUME TypeOK, NEW w \in Words, Grow(w)
        PROVE  TypeOK'
    BY <2>1 DEF TypeOK, Grow
  <2>2. TypeOK /\ UNCHANGED words => TypeOK'
    BY DEF TypeOK
  <2>3. QED
    BY <2>1, <2>2 DEF Next
<1>3. QED
  BY <1>1, <1>2, PTL DEF Spec

-----------------------------------------------------------------------------
(* Counting. *)

(* Five numbers in ascending order are five.                               *)
LEMMA FiveNumbers ==
  ASSUME NEW a \in Int, NEW b \in Int, NEW c \in Int, NEW d \in Int, NEW e \in Int,
         a < b, b < c, c < d, d < e
  PROVE  IsFiniteSet({a, b, c, d, e}) /\ Cardinality({a, b, c, d, e}) = 5
<1>1. IsFiniteSet({a}) /\ Cardinality({a}) = 1
  BY FS_Singleton
<1>2. IsFiniteSet({a} \cup {b}) /\ Cardinality({a} \cup {b}) = 2
  BY <1>1, b \notin {a}, FS_AddElement
<1>3. IsFiniteSet(({a} \cup {b}) \cup {c}) /\ Cardinality(({a} \cup {b}) \cup {c}) = 3
  BY <1>2, c \notin {a} \cup {b}, FS_AddElement
<1>4. /\ IsFiniteSet((({a} \cup {b}) \cup {c}) \cup {d})
      /\ Cardinality((({a} \cup {b}) \cup {c}) \cup {d}) = 4
  BY <1>3, d \notin ({a} \cup {b}) \cup {c}, FS_AddElement
<1>5. /\ IsFiniteSet(((({a} \cup {b}) \cup {c}) \cup {d}) \cup {e})
      /\ Cardinality(((({a} \cup {b}) \cup {c}) \cup {d}) \cup {e}) = 5
  BY <1>4, e \notin (({a} \cup {b}) \cup {c}) \cup {d}, FS_AddElement
<1>6. ((({a} \cup {b}) \cup {c}) \cup {d}) \cup {e} = {a, b, c, d, e}
  OBVIOUS
<1>7. QED
  BY <1>5, <1>6

(* A trigram met at five positions up to i counts five at i.               *)
LEMMA FiveCount ==
  ASSUME NEW text \in Seq(Words), NEW i \in Nat,
         NEW a \in 1 .. i, NEW b \in 1 .. i, NEW c \in 1 .. i, NEW d \in 1 .. i,
         a < b, b < c, c < d, d < i,
         Trigram(text, a) = Trigram(text, i), Trigram(text, b) = Trigram(text, i),
         Trigram(text, c) = Trigram(text, i), Trigram(text, d) = Trigram(text, i)
  PROVE  CountAt(text, i) >= 5
<1> DEFINE Met == {j \in 1 .. i : Trigram(text, j) = Trigram(text, i)}
<1>1. IsFiniteSet(Met)
  <2>1. IsFiniteSet(1 .. i)
    BY FS_Interval
  <2>2. QED
    BY <2>1, FS_Subset
<1>2. {a, b, c, d, i} \subseteq Met
  OBVIOUS
<1>3. Cardinality({a, b, c, d, i}) = 5
  <2>1. a \in Int /\ b \in Int /\ c \in Int /\ d \in Int /\ i \in Int
    OBVIOUS
  <2>2. QED
    BY <2>1, FiveNumbers
<1>4. Cardinality(Met) >= 5
  BY <1>1, <1>2, <1>3, FS_Subset, FS_CardinalityType
<1>5. QED
  BY <1>4 DEF CountAt

(* Five positions three apart take fifteen words.                          *)
LEMMA SaidFiveTimesRepeats ==
  ASSUME NEW text \in Seq(Words), SaysFiveTimes(text)
  PROVE  Repeats(text)
<1> DEFINE n == Len(text)
<1>1. n \in Nat
  OBVIOUS
<1>2. PICK a \in 1 .. n - 14 : \E b \in a + 3 .. n - 11 :
        /\ Trigram(text, a) = Trigram(text, b)
        /\ \E c \in b + 3 .. n - 8 :
             /\ Trigram(text, a) = Trigram(text, c)
             /\ \E d \in c + 3 .. n - 5 :
                  /\ Trigram(text, a) = Trigram(text, d)
                  /\ \E e \in d + 3 .. n - 2 : Trigram(text, a) = Trigram(text, e)
  BY DEF SaysFiveTimes
<1>3. PICK b \in a + 3 .. n - 11 :
        /\ Trigram(text, a) = Trigram(text, b)
        /\ \E c \in b + 3 .. n - 8 :
             /\ Trigram(text, a) = Trigram(text, c)
             /\ \E d \in c + 3 .. n - 5 :
                  /\ Trigram(text, a) = Trigram(text, d)
                  /\ \E e \in d + 3 .. n - 2 : Trigram(text, a) = Trigram(text, e)
  BY <1>2
<1>4. PICK c \in b + 3 .. n - 8 :
        /\ Trigram(text, a) = Trigram(text, c)
        /\ \E d \in c + 3 .. n - 5 :
             /\ Trigram(text, a) = Trigram(text, d)
             /\ \E e \in d + 3 .. n - 2 : Trigram(text, a) = Trigram(text, e)
  BY <1>3
<1>5. PICK d \in c + 3 .. n - 5 :
        /\ Trigram(text, a) = Trigram(text, d)
        /\ \E e \in d + 3 .. n - 2 : Trigram(text, a) = Trigram(text, e)
  BY <1>4
<1>6. PICK e \in d + 3 .. n - 2 : Trigram(text, a) = Trigram(text, e)
  BY <1>5
<1>7. n >= 15
  BY <1>1, <1>2
<1>8. CountAt(text, e) >= 5
  <2>1. /\ e \in Nat
        /\ a \in 1 .. e /\ b \in 1 .. e /\ c \in 1 .. e /\ d \in 1 .. e
        /\ a < b /\ b < c /\ c < d /\ d < e
    BY <1>1
  <2>2. /\ Trigram(text, b) = Trigram(text, e)
        /\ Trigram(text, c) = Trigram(text, e)
        /\ Trigram(text, d) = Trigram(text, e)
    BY <1>3, <1>4, <1>5, <1>6
  <2>3. QED
    BY <2>1, <2>2, <1>6, FiveCount
<1>9. e \in 1 .. Len(text) - 2
  BY <1>1
<1>10. QED
  BY <1>7, <1>8, <1>9 DEF Repeats

(* A loop with three words of its own five times over is found out.        *)
THEOREM TextLoopsCaught == Spec => []LoopsAreCaught
<1>1. TypeOK => LoopsAreCaught
  <2> SUFFICES ASSUME TypeOK, SaysFiveTimes(words)
               PROVE  CheckDegraded(words) \in {"known_error_phrase", "repetitive_loop"}
    BY DEF LoopsAreCaught
  <2>1. Repeats(words)
    BY SaidFiveTimesRepeats DEF TypeOK
  <2>2. ~ Empty(words)
    BY <2>1 DEF Repeats, Empty
  <2>3. QED
    BY <2>1, <2>2 DEF CheckDegraded
<1>2. QED
  BY <1>1, TextTyped, PTL

-----------------------------------------------------------------------------
(* What appending a word leaves as it was. *)

LEMMA AppendKeepsCounts ==
  ASSUME NEW text \in Seq(Words), NEW w \in Words, NEW i \in 1 .. Len(text) - 2
  PROVE  CountAt(Append(text, w), i) = CountAt(text, i)
<1>1. \A j \in 1 .. i : Trigram(Append(text, w), j) = Trigram(text, j)
  BY DEF Trigram
<1>2. {j \in 1 .. i : Trigram(Append(text, w), j) = Trigram(Append(text, w), i)}
        = {j \in 1 .. i : Trigram(text, j) = Trigram(text, i)}
  BY <1>1
<1>3. QED
  BY <1>2 DEF CountAt

LEMMA AppendKeepsRepeats ==
  ASSUME NEW text \in Seq(Words), NEW w \in Words, Repeats(text)
  PROVE  Repeats(Append(text, w))
<1>1. PICK i \in 1 .. Len(text) - 2 : CountAt(text, i) >= 5
  BY DEF Repeats
<1>2. CountAt(Append(text, w), i) >= 5
  BY <1>1, AppendKeepsCounts
<1>3. Len(Append(text, w)) = Len(text) + 1 /\ Len(text) >= 15 /\ Len(text) \in Nat
  BY DEF Repeats
<1>4. QED
  BY <1>2, <1>3 DEF Repeats

LEMMA AppendKeepsPhrase ==
  ASSUME NEW text \in Seq(Words), NEW w \in Words, NamesPhrase(text)
  PROVE  NamesPhrase(Append(text, w))
  BY DEF NamesPhrase

(* Going on does not clear a text of a loop or of an error phrase.         *)
THEOREM TextFaultsPersist == Spec => FaultsPersist
<1> DEFINE Persists ==
      /\ CheckDegraded(words) = "known_error_phrase" =>
            CheckDegraded(words') = "known_error_phrase"
      /\ CheckDegraded(words) = "repetitive_loop" =>
            CheckDegraded(words') \in {"known_error_phrase", "repetitive_loop"}
<1>1. ASSUME TypeOK, [Next]_words
      PROVE  [Persists]_words
  <2>1. CASE UNCHANGED words
    BY <2>1
  <2>2. ASSUME NEW w \in Words, Grow(w)
        PROVE  Persists
    <3>1. words' = Append(words, w) /\ words \in Seq(Words)
      BY <2>2, <1>1 DEF Grow, TypeOK
    <3>2. ~ Empty(words')
      BY <3>1 DEF Empty
    <3>3. NamesPhrase(words) => NamesPhrase(words')
      BY <3>1, AppendKeepsPhrase
    <3>4. Repeats(words) => Repeats(words')
      BY <3>1, AppendKeepsRepeats
    <3>5. QED
      BY <3>2, <3>3, <3>4 DEF CheckDegraded
  <2>3. QED
    BY <1>1, <2>1, <2>2 DEF Next
<1>2. QED
  BY <1>1, TextTyped, PTL DEF Spec, FaultsPersist
=============================================================================
