---------------------- MODULE MUServerViewControllerProofs ----------------------
(***************************************************************************)
(* The model with the table on the screen beside it.                        *)
(*                                                                          *)
(* The table only reads the model, but it acts on it through the server:    *)
(* what it asks for comes back as a message.  The invariant of the model    *)
(* is kept all the same, as the server answers with a legal change that it  *)
(* announces.                                                               *)
(*                                                                          *)
(* The table itself is the tree of channels written out, a channel before   *)
(* its users and its channels.  A handler that inserts, deletes or moves    *)
(* the rows of one user only tells the table how many rows come and go;     *)
(* that this is what a rebuilt table has is shown by comparing the rows     *)
(* without that user, which are the same before and after, and by counting  *)
(* his own: one if he is in a channel, none otherwise.                      *)
(***************************************************************************)
EXTENDS MUServerViewController, MKServerModelProofs, WellFoundedInduction

--------------------------------------------------------------------------------
(* Sequences: induction on numbers and on sequences, and what joining the   *)
(* sequences of a sequence of sequences comes to.                           *)

(* Induction on numbers, over a set instead of an operator: the least       *)
(* number not in the set is neither 0 nor the successor of one.             *)
LEMMA SetInduction ==
    ASSUME NEW S \in SUBSET Nat, 0 \in S, \A n \in S : n + 1 \in S
    PROVE  S = Nat
<1> DEFINE R == OpToRel(<, Nat)
           T == Nat \ S
<1> HIDE DEF R
<1>1. ASSUME T # {} PROVE FALSE
  <2>1. \E x \in T : \A y \in T : <<y, x>> \notin R
    <3> HIDE DEF T
    <3> IsWellFoundedOn(R, Nat)
      BY NatLessThanWellFounded DEF R
    <3> T \subseteq Nat
      BY DEF T
    <3> QED
      BY <1>1, WFMin
  <2>2. PICK x \in T : \A y \in T : <<y, x>> \notin R
    BY <2>1
  <2>3. x # 0 /\ x \in Nat /\ x - 1 \in Nat
    BY <2>2 DEF T
  <2>4. x - 1 \in T
    <3>1. x - 1 \in S => (x - 1) + 1 \in S
      OBVIOUS
    <3>2. (x - 1) + 1 = x
      BY <2>3
    <3> QED
      BY <2>3, <3>1, <3>2
  <2>5. <<x - 1, x>> \in R
    BY <2>3 DEF OpToRel, R
  <2> QED
    BY <2>2, <2>4, <2>5
<1> QED
  BY <1>1

(* Induction over sequences.                                                *)
LEMMA SequenceInduction ==
    ASSUME NEW X, NEW T \in SUBSET Seq(X), <<>> \in T,
           \A s \in T, x \in X : Append(s, x) \in T
    PROVE  T = Seq(X)
<1> DEFINE S == {n \in Nat : \A s \in Seq(X) : Len(s) = n => s \in T}
<1>1. 0 \in S
  BY EmptySeq
<1>2. ASSUME NEW n \in S PROVE n + 1 \in S
  <2>1. ASSUME NEW s \in Seq(X), Len(s) = n + 1
        PROVE  s \in T
    <3>1. s # <<>>
      BY <2>1
    <3>2. PICK r \in Seq(X), x \in X : s = Append(r, x)
      BY <3>1, SequenceEmptyOrAppend
    <3>3. Len(r) = n
      BY <3>2, <2>1, AppendProperties
    <3> QED
      BY <3>2, <3>3
  <2> QED
    BY <2>1
<1>3. S = Nat
  <2> HIDE DEF S
  <2> QED
    BY <1>1, <1>2, SetInduction DEF S
<1>4. ASSUME NEW s \in Seq(X) PROVE s \in T
  <2>1. Len(s) \in S
    BY <1>3, LenProperties
  <2> QED
    BY <2>1
<1> QED
  BY <1>4

(* FlattenSeq's running concatenations.                                     *)
Running(ss, m, g) ==
    \A i \in 1 .. m : g[i] = IF i = 1 THEN ss[i] ELSE g[i - 1] \o ss[i]

(* They exist up to any number of sequences.                                *)
LEMMA RunningExists ==
    ASSUME NEW Y, NEW ss \in Seq(Seq(Y)), NEW m \in 0 .. Len(ss)
    PROVE  \E g \in [1 .. m -> Seq(Y)] : Running(ss, m, g)
<1> DEFINE S == {n \in Nat : n <= Len(ss) => \E g \in [1 .. n -> Seq(Y)] : Running(ss, n, g)}
<1>1. 0 \in S
  <2> DEFINE g == [i \in 1 .. 0 |-> IF i = 1 THEN ss[i] ELSE <<>>]
  <2>1. g \in [1 .. 0 -> Seq(Y)] /\ Running(ss, 0, g)
    BY DEF Running
  <2> QED
    BY <2>1
<1>2. ASSUME NEW n \in S PROVE n + 1 \in S
  <2>1. SUFFICES ASSUME n + 1 <= Len(ss)
                 PROVE  \E h \in [1 .. n + 1 -> Seq(Y)] : Running(ss, n + 1, h)
    OBVIOUS
  <2>2. PICK g \in [1 .. n -> Seq(Y)] : Running(ss, n, g)
    BY <2>1
  <2> DEFINE last == IF n = 0 THEN ss[1] ELSE g[n] \o ss[n + 1]
             h == [i \in 1 .. n + 1 |-> IF i = n + 1 THEN last ELSE g[i]]
  <2>3. last \in Seq(Y)
    <3>1. ss[n + 1] \in Seq(Y)
      BY <2>1
    <3> QED
      BY <3>1, ConcatProperties
  <2>4. h \in [1 .. n + 1 -> Seq(Y)]
    BY <2>3
  <2>5. ASSUME NEW i \in 1 .. n + 1
        PROVE  h[i] = IF i = 1 THEN ss[i] ELSE h[i - 1] \o ss[i]
    <3>1. CASE i = n + 1
      BY <3>1
    <3>2. CASE i # n + 1
      <4>1. g[i] = IF i = 1 THEN ss[i] ELSE g[i - 1] \o ss[i]
        <5>1. n \in Nat /\ i \in 1 .. n
          BY <3>2
        <5>2. \A k \in 1 .. n : g[k] = IF k = 1 THEN ss[k] ELSE g[k - 1] \o ss[k]
          BY <2>2 DEF Running
        <5> HIDE DEF S, last, h
        <5> QED
          BY <5>1, <5>2
      <4>2. h[i] = g[i] /\ (i # 1 => h[i - 1] = g[i - 1])
        BY <3>2
      <4> QED
        BY <4>1, <4>2
    <3> QED
      BY <3>1, <3>2
  <2>6. Running(ss, n + 1, h)
    <3> HIDE DEF h
    <3> QED
      BY <2>5 DEF Running
  <2> QED
    BY <2>4, <2>6
<1>3. S = Nat
  <2> HIDE DEF S
  <2> QED
    BY <1>1, <1>2, SetInduction DEF S
<1>4. m \in S
  <2> HIDE DEF S
  <2> QED
    BY <1>3, LenProperties
<1> QED
  BY <1>4, LenProperties

(* They agree where both are defined.                                       *)
LEMMA RunningAgree ==
    ASSUME NEW m \in Nat, NEW ss, NEW tt, NEW g, NEW h,
           Running(ss, m, g), Running(tt, m, h), \A i \in 1 .. m : ss[i] = tt[i]
    PROVE  \A i \in 1 .. m : g[i] = h[i]
<1> DEFINE S == {k \in Nat : k + 1 <= m => g[k + 1] = h[k + 1]}
<1>1. 0 \in S
  BY DEF Running
<1>2. ASSUME NEW k \in S PROVE k + 1 \in S
  <2>1. SUFFICES ASSUME k + 2 <= m PROVE g[k + 2] = h[k + 2]
    OBVIOUS
  <2>2. PICK j \in 1 .. m : j = k + 2 /\ j # 1 /\ j - 1 = k + 1
    BY <2>1
  <2> HIDE DEF S
  <2>3. g[j] = g[j - 1] \o ss[j]
    BY <2>2 DEF Running
  <2>4. h[j] = h[j - 1] \o tt[j]
    BY <2>2 DEF Running
  <2>5. g[j - 1] = h[j - 1] /\ ss[j] = tt[j]
    BY <2>2 DEF S
  <2> QED
    BY <2>2, <2>3, <2>4, <2>5
<1>3. S = Nat
  <2> HIDE DEF S
  <2> QED
    BY <1>1, <1>2, SetInduction DEF S
<1>4. ASSUME NEW i \in 1 .. m PROVE g[i] = h[i]
  <2>1. i - 1 \in S
    <3>1. i - 1 \in Nat
      OBVIOUS
    <3> HIDE DEF S
    <3> QED
      BY <1>3, <3>1
  <2> QED
    BY <2>1
<1> QED
  BY <1>4

(* What FlattenSeq returns is the last of them.                             *)
LEMMA FlattenIsRunning ==
    ASSUME NEW Y, NEW ss \in Seq(Seq(Y)), ss # <<>>
    PROVE  \E g \in [1 .. Len(ss) -> Seq(Y)] :
              Running(ss, Len(ss), g) /\ FlattenSeq(ss) = g[Len(ss)]
<1>1. PICK f \in [1 .. Len(ss) -> Seq(Y)] : Running(ss, Len(ss), f)
  <2>1. Len(ss) \in 0 .. Len(ss)
    BY LenProperties
  <2> QED
    BY <2>1, RunningExists
<1> DEFINE g == CHOOSE g : g = [i \in 1 .. Len(ss) |-> IF i = 1 THEN ss[i] ELSE g[i - 1] \o ss[i]]
<1>2. g = [i \in 1 .. Len(ss) |-> IF i = 1 THEN ss[i] ELSE g[i - 1] \o ss[i]]
  <2>1. f = [i \in 1 .. Len(ss) |-> IF i = 1 THEN ss[i] ELSE f[i - 1] \o ss[i]]
    BY <1>1 DEF Running
  <2> QED
    BY <2>1
<1>3. FlattenSeq(ss) = g[Len(ss)]
  BY EmptySeq DEF FlattenSeq
<1> HIDE DEF g
<1>4. Running(ss, Len(ss), g)
  BY <1>2 DEF Running
<1>5. \A i \in 1 .. Len(ss) : g[i] = f[i]
  BY <1>1, <1>4, RunningAgree, LenProperties
<1>6. g \in [1 .. Len(ss) -> Seq(Y)]
  BY <1>2, <1>5
<1> QED
  BY <1>3, <1>4, <1>6

(* Joined sequences have the elements of the sequences.                     *)
LEMMA FlattenType ==
    ASSUME NEW Y, NEW ss \in Seq(Seq(Y))
    PROVE  FlattenSeq(ss) \in Seq(Y)
<1>1. CASE ss = <<>>
  BY <1>1, EmptySeq DEF FlattenSeq
<1>2. CASE ss # <<>>
  <2>1. PICK g \in [1 .. Len(ss) -> Seq(Y)] : FlattenSeq(ss) = g[Len(ss)]
    BY <1>2, FlattenIsRunning
  <2>2. Len(ss) \in 1 .. Len(ss)
    BY <1>2, EmptySeq, LenProperties
  <2> QED
    BY <2>1, <2>2
<1> QED
  BY <1>1, <1>2

(* One sequence more is joined at the end.                                  *)
LEMMA FlattenAppend ==
    ASSUME NEW Y, NEW ss \in Seq(Seq(Y)), NEW s \in Seq(Y)
    PROVE  FlattenSeq(Append(ss, s)) = FlattenSeq(ss) \o s
<1> DEFINE tt == Append(ss, s)
<1>1. /\ tt \in Seq(Seq(Y)) /\ tt # <<>> /\ Len(tt) = Len(ss) + 1
      /\ \A i \in 1 .. Len(ss) : tt[i] = ss[i]
      /\ tt[Len(ss) + 1] = s
  BY AppendProperties
<1> HIDE DEF tt
<1>2. PICK h \in [1 .. Len(tt) -> Seq(Y)] :
         Running(tt, Len(tt), h) /\ FlattenSeq(tt) = h[Len(tt)]
  BY <1>1, FlattenIsRunning
<1>3. Len(ss) \in Nat
  BY LenProperties
<1>4. h[Len(tt)] = IF Len(tt) = 1 THEN tt[Len(tt)] ELSE h[Len(tt) - 1] \o tt[Len(tt)]
  <2>1. Len(tt) \in Nat /\ Len(tt) \in 1 .. Len(tt)
    BY <1>1, <1>3
  <2> QED
    BY <2>1, <1>2 DEF Running
<1>5. CASE ss = <<>>
  <2>1. FlattenSeq(ss) = <<>> /\ Len(ss) = 0
    BY <1>5, EmptySeq DEF FlattenSeq
  <2>2. FlattenSeq(tt) = s
    BY <1>2, <1>4, <1>1, <2>1
  <2> QED
    BY <2>1, <2>2, ConcatEmptySeq DEF tt
<1>6. CASE ss # <<>>
  <2>1. PICK g \in [1 .. Len(ss) -> Seq(Y)] :
           Running(ss, Len(ss), g) /\ FlattenSeq(ss) = g[Len(ss)]
    BY <1>6, FlattenIsRunning
  <2>2. Len(ss) # 0
    BY <1>6, EmptySeq
  <2>3. g[Len(ss)] = h[Len(ss)]
    <3>1. \A i \in 1 .. Len(ss) : g[i] = h[i]
      <4>1. Running(ss, Len(ss), h)
        <5>1. ASSUME NEW i \in 1 .. Len(ss)
              PROVE  h[i] = IF i = 1 THEN ss[i] ELSE h[i - 1] \o ss[i]
          <6>1. i \in 1 .. Len(tt) /\ ss[i] = tt[i]
            BY <1>1, <1>3
          <6> QED
            BY <6>1, <1>2 DEF Running
        <5> QED
          BY <5>1 DEF Running
      <4> QED
        BY <4>1, <2>1, <1>3, RunningAgree
    <3> QED
      BY <3>1, <2>2, <1>3
  <2>4. h[Len(tt)] = h[Len(ss)] \o s
    BY <1>4, <1>1, <1>3, <2>2
  <2> QED
    BY <1>2, <2>1, <2>3, <2>4 DEF tt
<1> QED
  BY <1>5, <1>6

(* What Along gives, from the end of the sequence.                          *)
LEMMA AlongSequences ==
    ASSUME NEW X, NEW Y, NEW s \in Seq(X), NEW f \in [X -> Seq(Y)]
    PROVE  [i \in DOMAIN s |-> f[s[i]]] \in Seq(Seq(Y))
<1>1. DOMAIN s = 1 .. Len(s) /\ Len(s) \in Nat /\ \A i \in 1 .. Len(s) : s[i] \in X
  BY LenProperties, ElementOfSeq
<1> QED
  BY <1>1

(* The joined rows are rows.                                                *)
LEMMA AlongType ==
    ASSUME NEW X, NEW Y, NEW s \in Seq(X), NEW f \in [X -> Seq(Y)]
    PROVE  Along(s, f) \in Seq(Y)
  BY AlongSequences, FlattenType DEF Along

(* Along nothing there is nothing.                                          *)
LEMMA AlongEmpty == \A f : Along(<<>>, f) = <<>>
  BY EmptySeq DEF Along, FlattenSeq

(* One element more adds its rows at the end.                               *)
LEMMA AlongAppend ==
    ASSUME NEW X, NEW Y, NEW s \in Seq(X), NEW x \in X, NEW f \in [X -> Seq(Y)]
    PROVE  Along(Append(s, x), f) = Along(s, f) \o f[x]
<1> DEFINE t == Append(s, x)
           ss == [i \in DOMAIN s |-> f[s[i]]]
           tt == [i \in DOMAIN t |-> f[t[i]]]
<1>1. /\ t \in Seq(X) /\ Len(t) = Len(s) + 1
      /\ \A i \in 1 .. Len(s) : t[i] = s[i]
      /\ t[Len(s) + 1] = x
  BY AppendProperties
<1>2. /\ DOMAIN s = 1 .. Len(s) /\ Len(s) \in Nat /\ \A i \in 1 .. Len(s) : s[i] \in X
      /\ DOMAIN t = 1 .. Len(t)
  BY <1>1, LenProperties, ElementOfSeq
<1>3. ss \in Seq(Seq(Y)) /\ tt \in Seq(Seq(Y)) /\ f[x] \in Seq(Y)
  <2>1. ss \in Seq(Seq(Y))
    BY AlongSequences
  <2>2. tt \in Seq(Seq(Y))
    <3>1. t \in Seq(X)
      BY <1>1
    <3> HIDE DEF t
    <3> QED
      BY <3>1, AlongSequences DEF t
  <2> HIDE DEF ss, tt
  <2> QED
    BY <2>1, <2>2
<1>4. tt = Append(ss, f[x])
  <2>1. Len(ss) = Len(s) /\ Len(tt) = Len(s) + 1
    <3> HIDE DEF t
    <3> QED
      BY <1>1, <1>2
  <2>2. ASSUME NEW i \in 1 .. Len(s) + 1
        PROVE  tt[i] = Append(ss, f[x])[i]
    <3>1. tt[i] = f[t[i]]
      BY <1>1, <1>2
    <3>2. CASE i = Len(s) + 1
      BY <3>1, <3>2, <1>1, <1>3, <2>1, AppendProperties
    <3>3. CASE i # Len(s) + 1
      <4>1. i \in 1 .. Len(s) /\ ss[i] = f[s[i]]
        BY <3>3, <1>2
      <4> HIDE DEF ss, tt
      <4> QED
        BY <3>1, <4>1, <1>1, <1>3, <2>1, AppendProperties
    <3> QED
      BY <3>2, <3>3
  <2> HIDE DEF ss, tt
  <2>3. Append(ss, f[x]) \in Seq(Seq(Y)) /\ Len(Append(ss, f[x])) = Len(s) + 1
    BY <1>3, <2>1, AppendProperties
  <2> QED
    BY <1>3, <2>1, <2>2, <2>3, SeqEqual
<1> HIDE DEF ss, tt
<1>5. FlattenSeq(tt) = FlattenSeq(ss) \o f[x]
  BY <1>3, <1>4, FlattenAppend
<1> QED
  BY <1>5 DEF Along, ss, tt

--------------------------------------------------------------------------------
(* The rows of some of the channels and users, in order, and their number.  *)

(* Appending after joining, or before.                                      *)
LEMMA ConcatAppend ==
    ASSUME NEW X, NEW s \in Seq(X), NEW t \in Seq(X), NEW x \in X
    PROVE  s \o Append(t, x) = Append(s \o t, x)
<1>1. <<x>> \in Seq(X) /\ s \o t \in Seq(X)
  BY ConcatProperties
<1>2. s \o (t \o <<x>>) = (s \o t) \o <<x>>
  BY <1>1, ConcatAssociative
<1>3. Append(t, x) = t \o <<x>> /\ Append(s \o t, x) = (s \o t) \o <<x>>
  BY <1>1, AppendIsConcat
<1> QED
  BY <1>2, <1>3

(* Along two sequences joined: along one, then along the other.             *)
LEMMA AlongConcat ==
    ASSUME NEW X, NEW Y, NEW s \in Seq(X), NEW t \in Seq(X), NEW f \in [X -> Seq(Y)]
    PROVE  Along(s \o t, f) = Along(s, f) \o Along(t, f)
<1> DEFINE T == {r \in Seq(X) : Along(s \o r, f) = Along(s, f) \o Along(r, f)}
<1>1. <<>> \in T
  <2>1. s \o <<>> = s /\ <<>> \in Seq(X)
    BY ConcatEmptySeq, EmptySeq
  <2>2. Along(s, f) \o <<>> = Along(s, f)
    BY AlongType, ConcatEmptySeq
  <2> QED
    BY <2>1, <2>2, AlongEmpty
<1>2. ASSUME NEW r \in T, NEW x \in X PROVE Append(r, x) \in T
  <2>1. /\ r \in Seq(X) /\ s \o r \in Seq(X) /\ Append(r, x) \in Seq(X)
        /\ Along(s, f) \in Seq(Y) /\ Along(r, f) \in Seq(Y) /\ f[x] \in Seq(Y)
    BY ConcatProperties, AppendProperties, AlongType
  <2>2. s \o Append(r, x) = Append(s \o r, x)
    <3> HIDE DEF T
    <3> QED
      BY <2>1, ConcatAppend
  <2>3. Along(Append(s \o r, x), f) = Along(s \o r, f) \o f[x]
    <3> DEFINE q == s \o r
    <3>1. q \in Seq(X)
      BY <2>1
    <3> HIDE DEF q, T
    <3>2. Along(Append(q, x), f) = Along(q, f) \o f[x]
      BY <3>1, AlongAppend
    <3> QED
      BY <3>2 DEF q
  <2>4. Along(s \o r, f) = Along(s, f) \o Along(r, f)
    OBVIOUS
  <2>5. (Along(s, f) \o Along(r, f)) \o f[x] = Along(s, f) \o (Along(r, f) \o f[x])
    BY <2>1, ConcatAssociative
  <2>6. Along(Append(r, x), f) = Along(r, f) \o f[x]
    BY <2>1, AlongAppend
  <2> QED
    BY <2>1, <2>2, <2>3, <2>4, <2>5, <2>6
<1>3. T = Seq(X)
  <2> HIDE DEF T
  <2> QED
    BY <1>1, <1>2, SequenceInduction DEF T
<1> QED
  BY <1>3

(* Along one element: its rows.                                             *)
LEMMA AlongSingle ==
    ASSUME NEW X, NEW Y, NEW x \in X, NEW f \in [X -> Seq(Y)]
    PROVE  Along(<<x>>, f) = f[x]
<1> DEFINE e == <<>>
<1>0. e \in Seq(X)
  BY EmptySeq
<1>1. Append(e, x) = <<x>>
  OBVIOUS
<1>2. Along(e, f) = <<>> /\ <<>> \o f[x] = f[x]
  BY AlongEmpty, ConcatEmptySeq
<1> HIDE DEF e
<1>3. Along(Append(e, x), f) = Along(e, f) \o f[x]
  BY <1>0, AlongAppend
<1> QED
  BY <1>1, <1>2, <1>3

(* What has rows.                                                           *)
Shown == Channels \cup Users

(* Choosing gives rows of what is shown.                                    *)
LEMMA OnlyType == \A S : Only(S) \in [Shown -> Seq(Shown)]
<1> SUFFICES ASSUME NEW S PROVE Only(S) \in [Shown -> Seq(Shown)]
  OBVIOUS
<1>1. ASSUME NEW x \in Shown PROVE <<x>> \in Seq(Shown) /\ <<>> \in Seq(Shown)
  OBVIOUS
<1> QED
  BY <1>1 DEF Only, Shown

(* What is chosen of rows is rows.                                          *)
LEMMA ChosenType ==
    ASSUME NEW s \in Seq(Shown), NEW S
    PROVE  Chosen(s, S) \in Seq(Shown)
  BY OnlyType, AlongType DEF Chosen

(* Of nothing, nothing is chosen.                                           *)
LEMMA ChosenEmpty == \A S : Chosen(<<>>, S) = <<>>
  BY AlongEmpty DEF Chosen

(* The last row is chosen or it is not.                                     *)
LEMMA ChosenAppend ==
    ASSUME NEW s \in Seq(Shown), NEW x \in Shown, NEW S
    PROVE  Chosen(Append(s, x), S) =
              IF x \in S THEN Append(Chosen(s, S), x) ELSE Chosen(s, S)
<1>1. Chosen(Append(s, x), S) = Chosen(s, S) \o Only(S)[x]
  BY OnlyType, AlongAppend DEF Chosen
<1>2. Only(S)[x] = IF x \in S THEN <<x>> ELSE <<>>
  BY DEF Only, Shown
<1>3. Chosen(s, S) \o <<>> = Chosen(s, S)
  BY ChosenType, ConcatEmptySeq
<1>4. Append(Chosen(s, S), x) = Chosen(s, S) \o <<x>>
  BY ChosenType, AppendIsConcat
<1> QED
  BY <1>1, <1>2, <1>3, <1>4

(* Choosing from joined rows is joining what is chosen.                     *)
LEMMA ChosenConcat ==
    ASSUME NEW s \in Seq(Shown), NEW t \in Seq(Shown), NEW S
    PROVE  Chosen(s \o t, S) = Chosen(s, S) \o Chosen(t, S)
  BY OnlyType, AlongConcat DEF Chosen

(* One row is chosen or it is not.                                          *)
LEMMA ChosenSingle ==
    ASSUME NEW x \in Shown, NEW S
    PROVE  Chosen(<<x>>, S) = IF x \in S THEN <<x>> ELSE <<>>
<1>1. Chosen(<<x>>, S) = Only(S)[x]
  BY OnlyType, AlongSingle DEF Chosen
<1> QED
  BY <1>1 DEF Only, Shown

(* Choosing twice is choosing what is in both sets.                         *)
LEMMA ChosenChosen ==
    ASSUME NEW s \in Seq(Shown), NEW A, NEW B
    PROVE  Chosen(Chosen(s, A), B) = Chosen(s, A \cap B)
<1> DEFINE T == {r \in Seq(Shown) : Chosen(Chosen(r, A), B) = Chosen(r, A \cap B)}
<1>1. <<>> \in T
  BY EmptySeq, ChosenEmpty
<1>2. ASSUME NEW r \in T, NEW x \in Shown PROVE Append(r, x) \in T
  <2>1. Append(r, x) \in Seq(Shown) /\ Chosen(r, A) \in Seq(Shown)
    BY AppendProperties, ChosenType
  <2>2. Chosen(Append(r, x), A) = IF x \in A THEN Append(Chosen(r, A), x) ELSE Chosen(r, A)
    BY ChosenAppend
  <2>3. Chosen(Append(Chosen(r, A), x), B) =
           IF x \in B THEN Append(Chosen(Chosen(r, A), B), x) ELSE Chosen(Chosen(r, A), B)
    <3> HIDE DEF T
    <3> QED
      BY <2>1, ChosenAppend
  <2>4. Chosen(Append(r, x), A \cap B) =
           IF x \in A /\ x \in B THEN Append(Chosen(r, A \cap B), x) ELSE Chosen(r, A \cap B)
    BY ChosenAppend
  <2>5. Chosen(Chosen(r, A), B) = Chosen(r, A \cap B)
    OBVIOUS
  <2>6. CASE x \in A /\ x \in B
    BY <2>1, <2>2, <2>3, <2>4, <2>5, <2>6
  <2>7. CASE x \in A /\ x \notin B
    BY <2>1, <2>2, <2>3, <2>4, <2>5, <2>7
  <2>8. CASE x \notin A
    BY <2>1, <2>2, <2>4, <2>5, <2>8
  <2> QED
    BY <2>6, <2>7, <2>8
<1>3. T = Seq(Shown)
  <2> HIDE DEF T
  <2> QED
    BY <1>1, <1>2, SequenceInduction DEF T
<1> QED
  BY <1>3

(* Only what is shown matters to a choice.                                  *)
LEMMA ChosenAgree ==
    ASSUME NEW A, NEW B, A \cap Shown = B \cap Shown
    PROVE  \A s : Chosen(s, A) = Chosen(s, B)
<1>1. \A x \in Shown : x \in A <=> x \in B
  OBVIOUS
<1>2. Only(A) = Only(B)
  BY <1>1 DEF Only, Shown
<1> QED
  BY <1>2 DEF Chosen

(* What is chosen and what is not make up the whole.                        *)
LEMMA ChosenCounts ==
    ASSUME NEW s \in Seq(Shown), NEW S
    PROVE  Len(s) = Len(Chosen(s, S)) + Len(Chosen(s, Shown \ S))
<1> DEFINE T == {r \in Seq(Shown) : Len(r) = Len(Chosen(r, S)) + Len(Chosen(r, Shown \ S))}
<1>1. <<>> \in T
  BY EmptySeq, ChosenEmpty
<1>2. ASSUME NEW r \in T, NEW x \in Shown PROVE Append(r, x) \in T
  <2>1. /\ r \in Seq(Shown) /\ Append(r, x) \in Seq(Shown) /\ Len(Append(r, x)) = Len(r) + 1
        /\ Len(r) \in Nat
    BY AppendProperties, LenProperties
  <2>2. ASSUME NEW A
        PROVE  /\ Len(Chosen(r, A)) \in Nat
               /\ Len(Chosen(Append(r, x), A)) =
                     IF x \in A THEN Len(Chosen(r, A)) + 1 ELSE Len(Chosen(r, A))
    <3>1. Chosen(r, A) \in Seq(Shown)
      BY ChosenType
    <3>2. Len(Chosen(r, A)) \in Nat /\ Len(Append(Chosen(r, A), x)) = Len(Chosen(r, A)) + 1
      <4> HIDE DEF T
      <4> QED
        BY <3>1, AppendProperties, LenProperties
    <3> QED
      BY <3>2, ChosenAppend
  <2>3. Len(r) = Len(Chosen(r, S)) + Len(Chosen(r, Shown \ S))
    OBVIOUS
  <2>4. /\ Len(Chosen(r, S)) \in Nat
        /\ Len(Chosen(Append(r, x), S)) =
              IF x \in S THEN Len(Chosen(r, S)) + 1 ELSE Len(Chosen(r, S))
        /\ Len(Chosen(r, Shown \ S)) \in Nat
        /\ Len(Chosen(Append(r, x), Shown \ S)) =
              IF x \in Shown \ S THEN Len(Chosen(r, Shown \ S)) + 1 ELSE Len(Chosen(r, Shown \ S))
    BY <2>2
  <2>5. Len(Append(r, x)) = Len(Chosen(Append(r, x), S)) + Len(Chosen(Append(r, x), Shown \ S))
    BY <2>1, <2>3, <2>4
  <2> QED
    BY <2>1, <2>5
<1>3. T = Seq(Shown)
  <2> HIDE DEF T
  <2> QED
    BY <1>1, <1>2, SequenceInduction DEF T
<1> QED
  BY <1>3

(* An element that is nowhere is not chosen, and not missed.                *)
LEMMA ChosenNowhere ==
    ASSUME NEW s \in Seq(Shown), NEW x \in Shown
    PROVE  /\ Len(Chosen(s, {x})) = 0 <=> \A i \in DOMAIN s : s[i] # x
           /\ Len(Chosen(s, {x})) = 0 => Chosen(s, Shown \ {x}) = s
<1> DEFINE T == {r \in Seq(Shown) :
                    /\ Len(Chosen(r, {x})) = 0 <=> \A i \in DOMAIN r : r[i] # x
                    /\ Len(Chosen(r, {x})) = 0 => Chosen(r, Shown \ {x}) = r}
<1>1. <<>> \in T
  BY EmptySeq, ChosenEmpty
<1>2. ASSUME NEW r \in T, NEW y \in Shown PROVE Append(r, y) \in T
  <2> DEFINE t == Append(r, y)
  <2>1. /\ r \in Seq(Shown) /\ t \in Seq(Shown) /\ Len(t) = Len(r) + 1 /\ Len(r) \in Nat
        /\ DOMAIN r = 1 .. Len(r) /\ DOMAIN t = 1 .. Len(t)
        /\ t[Len(r) + 1] = y /\ \A i \in 1 .. Len(r) : t[i] = r[i]
    BY AppendProperties, LenProperties
  <2>2. /\ Len(Chosen(r, {x})) = 0 <=> \A i \in DOMAIN r : r[i] # x
        /\ Len(Chosen(r, {x})) = 0 => Chosen(r, Shown \ {x}) = r
    OBVIOUS
  <2>3. CASE y = x
    <3>1. Chosen(t, {x}) = Append(Chosen(r, {x}), x)
      BY <2>3, ChosenAppend
    <3>2. Len(Chosen(t, {x})) # 0
      <4>1. Chosen(r, {x}) \in Seq(Shown)
        BY ChosenType
      <4>2. Len(Append(Chosen(r, {x}), x)) = Len(Chosen(r, {x})) + 1
        <5> HIDE DEF T, t
        <5> QED
          BY <4>1, AppendProperties
      <4> QED
        BY <3>1, <4>1, <4>2, LenProperties
    <3>3. Len(t) \in DOMAIN t /\ t[Len(t)] = x
      BY <2>1, <2>3
    <3> QED
      BY <2>1, <3>2, <3>3
  <2>4. CASE y # x
    <3>1. Chosen(t, {x}) = Chosen(r, {x})
      BY <2>4, ChosenAppend
    <3>2. Chosen(t, Shown \ {x}) = Append(Chosen(r, Shown \ {x}), y)
      BY <2>4, ChosenAppend
    <3>3. (\A i \in DOMAIN t : t[i] # x) <=> \A i \in DOMAIN r : r[i] # x
      <4> HIDE DEF T, t
      <4> QED
        BY <2>1, <2>4
    <3> QED
      BY <2>1, <2>2, <3>1, <3>2, <3>3
  <2> QED
    BY <2>3, <2>4
<1>3. T = Seq(Shown)
  <2> HIDE DEF T
  <2> QED
    BY <1>1, <1>2, SequenceInduction DEF T
<1> QED
  BY <1>3

(* Where there is nothing but at one place, which is passed once, there is  *)
(* that in all.                                                             *)
LEMMA AlongNowhere ==
    ASSUME NEW X, NEW Y, NEW s \in Seq(X), NEW f \in [X -> Seq(Y)],
           \A x \in X : f[x] = <<>>
    PROVE  Along(s, f) = <<>>
<1> DEFINE T == {r \in Seq(X) : Along(r, f) = <<>>}
<1>1. <<>> \in T
  BY EmptySeq, AlongEmpty
<1>2. ASSUME NEW r \in T, NEW x \in X PROVE Append(r, x) \in T
  <2>1. r \in Seq(X) /\ Append(r, x) \in Seq(X) /\ Along(r, f) = <<>>
    BY AppendProperties
  <2>2. Along(Append(r, x), f) = Along(r, f) \o f[x]
    BY <2>1, AlongAppend
  <2>3. Along(r, f) \o f[x] = <<>> \o f[x]
    BY <2>1
  <2>4. <<>> \o f[x] = f[x]
    BY ConcatEmptySeq
  <2>5. f[x] = <<>>
    OBVIOUS
  <2>6. Along(Append(r, x), f) = <<>>
    BY <2>2, <2>3, <2>4, <2>5
  <2> QED
    BY <2>1, <2>6
<1>3. T = Seq(X)
  <2> HIDE DEF T
  <2> QED
    BY <1>1, <1>2, SequenceInduction DEF T
<1> QED
  BY <1>3

(* One row at one place, which the sequence passes as often as it names it. *)
LEMMA AlongOnce ==
    ASSUME NEW s \in Seq(Channels), NEW Y, NEW f \in [Channels -> Seq(Y)],
           NEW d \in Channels, Len(f[d]) = 1,
           \A x \in Channels \ {d} : f[x] = <<>>
    PROVE  Len(Along(s, f)) = Len(Chosen(s, {d}))
<1> DEFINE T == {r \in Seq(Channels) : Len(Along(r, f)) = Len(Chosen(r, {d}))}
<1>1. <<>> \in T
  BY EmptySeq, AlongEmpty, ChosenEmpty
<1>2. ASSUME NEW r \in T, NEW x \in Channels PROVE Append(r, x) \in T
  <2>1. /\ r \in Seq(Channels) /\ Append(r, x) \in Seq(Channels)
        /\ Len(Along(r, f)) = Len(Chosen(r, {d}))
    BY AppendProperties
  <2> HIDE DEF T
  <2>2. /\ x \in Shown /\ r \in Seq(Shown)
        /\ Along(r, f) \in Seq(Y) /\ f[x] \in Seq(Y) /\ Chosen(r, {d}) \in Seq(Shown)
    <3>1. x \in Shown /\ r \in Seq(Shown)
      BY <2>1 DEF Shown
    <3> QED
      BY <3>1, <2>1, AlongType, ChosenType
  <2>3. Along(Append(r, x), f) = Along(r, f) \o f[x]
    BY <2>1, AlongAppend
  <2>4. Len(Along(Append(r, x), f)) = Len(Along(r, f)) + Len(f[x])
    BY <2>2, <2>3, ConcatProperties
  <2>5. Chosen(Append(r, x), {d}) = IF x = d THEN Append(Chosen(r, {d}), x) ELSE Chosen(r, {d})
    BY <2>2, ChosenAppend
  <2>6. /\ Len(Append(Chosen(r, {d}), x)) = Len(Chosen(r, {d})) + 1
        /\ Len(Along(r, f)) \in Nat
    BY <2>2, AppendProperties, LenProperties
  <2>7. Len(f[x]) = IF x = d THEN 1 ELSE 0
    BY EmptySeq
  <2>8. Len(Along(Append(r, x), f)) = Len(Chosen(Append(r, x), {d}))
    BY <2>1, <2>4, <2>5, <2>6, <2>7
  <2> QED
    BY <2>1, <2>8 DEF T
<1>3. T = Seq(Channels)
  <2> HIDE DEF T
  <2> QED
    BY <1>1, <1>2, SequenceInduction DEF T
<1> QED
  BY <1>3

(* How often an element is in an order, after it or another was put last.   *)
Times(s, x) == Len(Chosen(s, {x}))

(* What is put last is there once; the others are there as before.          *)
LEMMA PutLastTimes ==
    ASSUME NEW s \in Seq(Shown), NEW x \in Shown, NEW y \in Shown
    PROVE  /\ PutLast(s, x) \in Seq(Shown)
           /\ Times(PutLast(s, x), y) = IF y = x THEN 1 ELSE Times(s, y)
<1> DEFINE r == Chosen(s, Shown \ {x})
<1>1. r \in Seq(Shown)
  BY ChosenType
<1>2. Chosen(r, {y}) = Chosen(s, (Shown \ {x}) \cap {y})
  BY ChosenChosen
<1> HIDE DEF r
<1>3. PutLast(s, x) = Append(r, x)
  BY DEF PutLast, Without, Shown, r
<1>4. Append(r, x) \in Seq(Shown)
  BY <1>1, AppendProperties
<1>5. Chosen(Append(r, x), {y}) = IF x = y THEN Append(Chosen(r, {y}), x) ELSE Chosen(r, {y})
  BY <1>1, ChosenAppend
<1>6. CASE y = x
  <2>1. Chosen(r, {y}) = Chosen(s, {})
    <3>1. (Shown \ {x}) \cap {y} = {}
      BY <1>6
    <3> QED
      BY <1>2, <3>1
  <2>2. Chosen(s, {}) = <<>>
    <3>1. \A z \in Shown : Only({})[z] = <<>>
      BY DEF Only, Shown
    <3>2. Only({}) \in [Shown -> Seq(Shown)]
      BY OnlyType
    <3> QED
      BY <3>1, <3>2, AlongNowhere DEF Chosen
  <2>3. Len(Append(<<>>, x)) = 1
    BY AppendProperties, EmptySeq
  <2> QED
    BY <1>3, <1>4, <1>5, <1>6, <2>1, <2>2, <2>3 DEF Times
<1>7. CASE y # x
  <2>1. (Shown \ {x}) \cap {y} = {y}
    BY <1>7
  <2> QED
    BY <1>2, <1>3, <1>4, <1>5, <1>7, <2>1 DEF Times
<1> QED
  BY <1>6, <1>7

--------------------------------------------------------------------------------
(* The table as levels: the rows of the tree cut off n levels down.         *)

(* Joined rows, one row, lists of rows by channel, and lists chosen from lists. *)
Cat(s, t) == s \o t
One(c) == <<c>>
RowLists == [Channels -> Seq(Shown)]
Kept(f, h, S) == \A d \in Channels : h[d] = Chosen(f[d], S)

(* Joined rows are rows, as many as both have.                              *)
LEMMA CatType ==
    ASSUME NEW s \in Seq(Shown), NEW t \in Seq(Shown)
    PROVE  Cat(s, t) \in Seq(Shown) /\ Len(Cat(s, t)) = Len(s) + Len(t)
  BY ConcatProperties DEF Cat

(* ChosenConcat, by its name here.                                          *)
LEMMA ChosenCat ==
    ASSUME NEW s \in Seq(Shown), NEW t \in Seq(Shown), NEW S
    PROVE  Chosen(Cat(s, t), S) = Cat(Chosen(s, S), Chosen(t, S))
  BY ChosenConcat DEF Cat

(* The row of a channel is one row.                                         *)
LEMMA OneType ==
    ASSUME NEW c \in Channels
    PROVE  One(c) \in Seq(Shown) /\ Len(One(c)) = 1 /\ c \in Shown
  BY DEF One, Shown

(* ChosenSingle, by its name here.                                          *)
LEMMA ChosenOne ==
    ASSUME NEW c \in Channels, NEW S
    PROVE  Chosen(One(c), S) = IF c \in S THEN One(c) ELSE <<>>
<1>1. c \in Shown
  BY DEF Shown
<1> QED
  BY <1>1, ChosenSingle DEF One

(* Joining lists of rows gives rows.                                        *)
LEMMA ListAlong ==
    ASSUME NEW cs \in Seq(Channels), NEW f \in RowLists
    PROVE  Along(cs, f) \in Seq(Shown)
  BY AlongType DEF RowLists

(* Choosing from joined lists is joining what is chosen of each.            *)
LEMMA ListChosen ==
    ASSUME NEW cs \in Seq(Channels), NEW f \in RowLists, NEW h \in RowLists, NEW S, Kept(f, h, S)
    PROVE  Chosen(Along(cs, f), S) = Along(cs, h)
<1>1. f \in [Channels -> Seq(Shown)] /\ h \in [Channels -> Seq(Shown)]
  BY DEF RowLists
<1>2. \A d \in Channels : h[d] = Chosen(f[d], S)
  BY DEF Kept
<1> DEFINE T == {r \in Seq(Channels) : Chosen(Along(r, f), S) = Along(r, h)}
<1>3. <<>> \in T
  BY EmptySeq, AlongEmpty, ChosenEmpty
<1>4. ASSUME NEW r \in T, NEW x \in Channels PROVE Append(r, x) \in T
  <2>1. /\ r \in Seq(Channels) /\ Append(r, x) \in Seq(Channels)
        /\ Along(r, f) \in Seq(Shown) /\ f[x] \in Seq(Shown)
    BY <1>1, AppendProperties, AlongType
  <2>2. Along(Append(r, x), f) = Along(r, f) \o f[x]
    BY <1>1, <2>1, AlongAppend
  <2>3. Chosen(Along(r, f) \o f[x], S) = Chosen(Along(r, f), S) \o Chosen(f[x], S)
    <3> HIDE DEF T
    <3> QED
      BY <2>1, ChosenConcat
  <2>4. Chosen(Along(r, f), S) = Along(r, h) /\ h[x] = Chosen(f[x], S)
    BY <1>2
  <2>5. Along(Append(r, x), h) = Along(r, h) \o h[x]
    BY <1>1, <2>1, AlongAppend
  <2> QED
    BY <2>1, <2>2, <2>3, <2>4, <2>5
<1>5. T = Seq(Channels)
  <2> HIDE DEF T
  <2> QED
    BY <1>3, <1>4, SequenceInduction DEF T
<1> QED
  BY <1>5

(* The subtrees of the children of a channel, by channel.                   *)
Subtrees(kids, c, below) == [d \in Channels |-> IF d \in kids[c] THEN below[d] ELSE <<>>]

(* They are lists of rows.                                                  *)
LEMMA SubtreesType ==
    ASSUME NEW kids, NEW c, NEW below \in RowLists
    PROVE  Subtrees(kids, c, below) \in RowLists
  BY EmptySeq DEF Subtrees, RowLists

(* A channel is written out as itself, its users, and the channels below    *)
(* it.                                                                      *)
LEMMA TreesAt ==
    ASSUME NEW kids, NEW in, NEW cs, NEW us, NEW below, NEW c \in Channels
    PROVE  Trees(kids, in, cs, us, below)[c] =
              Cat(Cat(One(c), Chosen(us, in[c])), Along(cs, Subtrees(kids, c, below)))
  BY DEF Trees, Subtrees, Cat, One

(* Writing out one more level gives lists of rows.                          *)
LEMMA TreesType ==
    ASSUME NEW kids, NEW in, NEW cs \in Seq(Channels), NEW us \in Seq(Shown), NEW below \in RowLists
    PROVE  Trees(kids, in, cs, us, below) \in RowLists
<1> DEFINE t == Trees(kids, in, cs, us, below)
<1>1. ASSUME NEW c \in Channels PROVE t[c] \in Seq(Shown)
  <2>1. Along(cs, Subtrees(kids, c, below)) \in Seq(Shown)
    BY SubtreesType, ListAlong
  <2>2. Cat(One(c), Chosen(us, in[c])) \in Seq(Shown)
    BY OneType, ChosenType, CatType
  <2>3. t[c] = Cat(Cat(One(c), Chosen(us, in[c])), Along(cs, Subtrees(kids, c, below)))
    BY TreesAt
  <2> HIDE DEF t
  <2> QED
    BY <2>1, <2>2, <2>3, CatType
<1>2. t = [c \in Channels |-> t[c]]
  BY DEF Trees
<1> HIDE DEF t
<1> QED
  BY <1>1, <1>2 DEF t, RowLists

(* A choice from the lists is a choice from the subtrees.                   *)
LEMMA SubtreesWithout ==
    ASSUME NEW kids, NEW c, NEW below \in RowLists, NEW below2 \in RowLists, NEW S,
           Kept(below, below2, S)
    PROVE  Kept(Subtrees(kids, c, below), Subtrees(kids, c, below2), S)
  BY ChosenEmpty DEF Subtrees, Kept, RowLists

(* A choice that leaves out no channel passes through a level.              *)
LEMMA TreesWithout ==
    ASSUME NEW kids, NEW in, NEW in2, NEW cs \in Seq(Channels), NEW us \in Seq(Shown),
           NEW us2 \in Seq(Shown), NEW below \in RowLists, NEW below2 \in RowLists, NEW S,
           NEW c \in Channels,
           c \in S, Chosen(Chosen(us, in[c]), S) = Chosen(us2, in2[c]),
           Kept(below, below2, S)
    PROVE  Trees(kids, in2, cs, us2, below2)[c] = Chosen(Trees(kids, in, cs, us, below)[c], S)
<1> DEFINE f == Subtrees(kids, c, below)
           h == Subtrees(kids, c, below2)
           a == One(c)
           b == Chosen(us, in[c])
           b2 == Chosen(us2, in2[c])
           e == Along(cs, f)
<1>1. f \in RowLists /\ h \in RowLists /\ Kept(f, h, S)
  BY SubtreesType, SubtreesWithout
<1>3. a \in Seq(Shown) /\ b \in Seq(Shown) /\ c \in Shown
  BY OneType, ChosenType
<1>4. Chosen(b, S) = b2
  OBVIOUS
<1>5. Trees(kids, in, cs, us, below)[c] = Cat(Cat(a, b), e)
  BY TreesAt
<1>6. Trees(kids, in2, cs, us2, below2)[c] = Cat(Cat(a, b2), Along(cs, h))
  BY TreesAt
<1> HIDE DEF f, h, b, b2
<1>7. Chosen(e, S) = Along(cs, h)
  BY <1>1, ListChosen
<1>8. e \in Seq(Shown)
  BY <1>1, ListAlong
<1>9. Chosen(a, S) = a
  BY <1>3, ChosenOne
<1> HIDE DEF a, e
<1>10. Cat(a, b) \in Seq(Shown)
  BY <1>3, CatType
<1>11. Chosen(Cat(Cat(a, b), e), S) = Cat(Chosen(Cat(a, b), S), Chosen(e, S))
  BY <1>8, <1>10, ChosenCat
<1>12. Chosen(Cat(a, b), S) = Cat(Chosen(a, S), Chosen(b, S))
  BY <1>3, ChosenCat
<1> QED
  BY <1>4, <1>5, <1>6, <1>7, <1>9, <1>11, <1>12

(* The levels of Flattened.                                                 *)
Levels(kids, in, cs, us, m, rows) ==
    /\ rows[0] = [c \in Channels |-> <<>>]
    /\ \A n \in 1 .. m : rows[n] = Trees(kids, in, cs, us, rows[n - 1])

(* The lowest level.                                                        *)
Leaves == [c \in Channels |-> <<>>]

(* They are lists of rows.                                                  *)
LEMMA LeavesType == Leaves \in RowLists
  BY EmptySeq DEF Leaves, RowLists

(* There are levels up to any depth.                                        *)
LEMMA LevelsExist ==
    ASSUME NEW kids, NEW in, NEW cs \in Seq(Channels), NEW us \in Seq(Shown), NEW m \in Nat
    PROVE  \E rows \in [0 .. m -> RowLists] :
              Levels(kids, in, cs, us, m, rows)
<1> DEFINE T == {n \in Nat : \E rows \in [0 .. n -> RowLists] : Levels(kids, in, cs, us, n, rows)}
<1>1. 0 \in T
  <2> DEFINE r == [n \in 0 .. 0 |-> Leaves]
  <2>1. r \in [0 .. 0 -> RowLists] /\ Levels(kids, in, cs, us, 0, r)
    BY LeavesType DEF Levels, Leaves
  <2> HIDE DEF r
  <2> QED
    BY <2>1
<1>2. ASSUME NEW k \in T PROVE k + 1 \in T
  <2>1. PICK r \in [0 .. k -> RowLists] : Levels(kids, in, cs, us, k, r)
    OBVIOUS
  <2>2. k \in Nat /\ r[k] \in RowLists
    OBVIOUS
  <2> DEFINE new == Trees(kids, in, cs, us, r[k])
             q == [n \in 0 .. k + 1 |-> IF n = k + 1 THEN new ELSE r[n]]
  <2>3. new \in RowLists
    BY <2>2, TreesType
  <2> HIDE DEF new, T
  <2>4. q \in [0 .. k + 1 -> RowLists]
    BY <2>2, <2>3
  <2>5. Levels(kids, in, cs, us, k + 1, q)
    <3>1. q[0] = r[0]
      BY <2>2
    <3>2. ASSUME NEW n \in 1 .. k + 1
          PROVE  q[n] = Trees(kids, in, cs, us, q[n - 1])
      <4>1. CASE n = k + 1
        <5>1. q[n - 1] = r[k] /\ q[n] = new
          BY <2>2, <4>1
        <5> QED
          BY <5>1 DEF new
      <4>2. CASE n # k + 1
        <5>1. n \in 1 .. k /\ q[n - 1] = r[n - 1] /\ q[n] = r[n]
          BY <2>2, <4>2
        <5> HIDE DEF q
        <5> QED
          BY <5>1, <2>1 DEF Levels
      <4> QED
        BY <4>1, <4>2
    <3> HIDE DEF q
    <3> QED
      BY <3>1, <3>2, <2>1 DEF Levels
  <2> HIDE DEF q
  <2> QED
    BY <2>2, <2>4, <2>5 DEF T
<1>3. T = Nat
  <2> HIDE DEF T
  <2> QED
    BY <1>1, <1>2, SetInduction DEF T
<1> QED
  BY <1>3

(* Every level is lists of rows.                                            *)
LEMMA LevelsType ==
    ASSUME NEW kids, NEW in, NEW cs \in Seq(Channels), NEW us \in Seq(Shown), NEW m \in Nat,
           NEW rows, Levels(kids, in, cs, us, m, rows)
    PROVE  \A n \in 0 .. m : rows[n] \in RowLists
<1> DEFINE T == {n \in Nat : n <= m => rows[n] \in RowLists}
<1>1. 0 \in T
  BY LeavesType DEF Levels, Leaves
<1>2. ASSUME NEW k \in T PROVE k + 1 \in T
  <2>1. SUFFICES ASSUME k + 1 <= m PROVE rows[k + 1] \in RowLists
    OBVIOUS
  <2>2. rows[k] \in RowLists
    BY <2>1
  <2>3. Trees(kids, in, cs, us, rows[k]) \in RowLists
    BY <2>2, TreesType
  <2>4. PICK n \in 1 .. m : n = k + 1 /\ n - 1 = k
    BY <2>1
  <2>5. rows[n] = Trees(kids, in, cs, us, rows[n - 1])
    <3> HIDE DEF T
    <3> QED
      BY DEF Levels
  <2> QED
    BY <2>3, <2>4, <2>5
<1>3. T = Nat
  <2> HIDE DEF T
  <2> QED
    BY <1>1, <1>2, SetInduction DEF T
<1> QED
  BY <1>3

(* The table is the list of the root at the deepest level.                  *)
LEMMA FlattenedLevels ==
    ASSUME NEW kids, NEW in, NEW cs \in Seq(Channels), NEW us \in Seq(Shown)
    PROVE  \E rows : /\ Levels(kids, in, cs, us, Cardinality(Channels), rows)
                     /\ Flattened(kids, in, cs, us) = rows[Cardinality(Channels)][Root]
<1> DEFINE N == Cardinality(Channels)
           r == CHOOSE r : r = [n \in 0 .. N |->
                   IF n = 0 THEN [c \in Channels |-> <<>>]
                   ELSE Trees(kids, in, cs, us, r[n - 1])]
<1>1. N \in Nat
  BY ConstAssumption, FS_CardinalityType
<1>2. PICK q \in [0 .. N -> RowLists] : Levels(kids, in, cs, us, N, q)
  <2> HIDE DEF N
  <2> QED
    BY <1>1, LevelsExist
<1>3. q = [n \in 0 .. N |->
              IF n = 0 THEN [c \in Channels |-> <<>>]
              ELSE Trees(kids, in, cs, us, q[n - 1])]
  <2> HIDE DEF N
  <2> QED
    BY <1>1, <1>2 DEF Levels
<1>4. r = [n \in 0 .. N |->
              IF n = 0 THEN [c \in Channels |-> <<>>]
              ELSE Trees(kids, in, cs, us, r[n - 1])]
  <2> HIDE DEF N
  <2> QED
    BY <1>3
<1>5. Flattened(kids, in, cs, us) = r[N][Root]
  BY DEF Flattened
<1> HIDE DEF r, N
<1>6. r[0] = [c \in Channels |-> <<>>]
  BY <1>1, <1>4
<1>7. ASSUME NEW n \in 1 .. N PROVE r[n] = Trees(kids, in, cs, us, r[n - 1])
  <2>1. n \in 0 .. N /\ n # 0
    BY <1>1
  <2>2. r[n] = IF n = 0 THEN [c \in Channels |-> <<>>]
               ELSE Trees(kids, in, cs, us, r[n - 1])
    BY <1>4, <2>1
  <2> QED
    BY <2>1, <2>2
<1>8. Levels(kids, in, cs, us, N, r)
  BY <1>6, <1>7 DEF Levels
<1> QED
  BY <1>5, <1>8 DEF N

(* Choosing S of the users of every channel leaves the users of another     *)
(* model.                                                                   *)
Spread(us, in, us2, in2, S) ==
    \A c \in Channels : Chosen(Chosen(us, in[c]), S) = Chosen(us2, in2[c])

(* The channels are finitely many.                                          *)
LEMMA ChannelCount == Cardinality(Channels) \in Nat
  BY ConstAssumption, FS_CardinalityType

(* A level from the one below it.                                           *)
LEMMA LevelStep ==
    ASSUME NEW kids, NEW in, NEW cs, NEW us, NEW m \in Nat, NEW rows,
           Levels(kids, in, cs, us, m, rows), NEW n \in Nat, n + 1 <= m
    PROVE  rows[n + 1] = Trees(kids, in, cs, us, rows[n])
<1>1. PICK k \in 1 .. m : k = n + 1 /\ k - 1 = n
  OBVIOUS
<1>2. rows[k] = Trees(kids, in, cs, us, rows[k - 1])
  BY DEF Levels
<1> QED
  BY <1>1, <1>2

(* At the lowest level nothing is written out.                              *)
LEMMA LevelZero ==
    ASSUME NEW kids, NEW in, NEW cs, NEW us, NEW m, NEW rows,
           Levels(kids, in, cs, us, m, rows), NEW c \in Channels
    PROVE  rows[0][c] = <<>>
  BY DEF Levels

(* What is left of the rows when some users are left out.                   *)
LEMMA FlattenedWithout ==
    ASSUME NEW kids, NEW in, NEW in2, NEW cs \in Seq(Channels), NEW us \in Seq(Shown),
           NEW us2 \in Seq(Shown), NEW S, Channels \subseteq S, Spread(us, in, us2, in2, S)
    PROVE  Flattened(kids, in2, cs, us2) = Chosen(Flattened(kids, in, cs, us), S)
<1> DEFINE N == Cardinality(Channels)
<1>1. PICK rows : Levels(kids, in, cs, us, N, rows) /\ Flattened(kids, in, cs, us) = rows[N][Root]
  BY FlattenedLevels
<1>2. PICK rows2 : Levels(kids, in2, cs, us2, N, rows2) /\ Flattened(kids, in2, cs, us2) = rows2[N][Root]
  BY FlattenedLevels
<1>3. N \in Nat
  BY ChannelCount
<1> HIDE DEF N
<1>4. \A n \in 0 .. N : rows[n] \in RowLists /\ rows2[n] \in RowLists
  BY <1>1, <1>2, <1>3, LevelsType
<1> DEFINE T == {n \in Nat : n <= N => Kept(rows[n], rows2[n], S)}
<1>5. 0 \in T
  BY <1>1, <1>2, LevelZero, ChosenEmpty DEF Kept
<1>6. ASSUME NEW n \in T PROVE n + 1 \in T
  <2>1. SUFFICES ASSUME n + 1 <= N PROVE Kept(rows[n + 1], rows2[n + 1], S)
    OBVIOUS
  <2>2. n \in Nat /\ n \in 0 .. N /\ Kept(rows[n], rows2[n], S)
    BY <1>3, <2>1
  <2> HIDE DEF T
  <2>3. rows[n + 1] = Trees(kids, in, cs, us, rows[n])
    BY <1>1, <1>3, <2>1, <2>2, LevelStep
  <2>4. rows2[n + 1] = Trees(kids, in2, cs, us2, rows2[n])
    BY <1>2, <1>3, <2>1, <2>2, LevelStep
  <2> DEFINE below == rows[n]
             below2 == rows2[n]
  <2>5. below \in RowLists /\ below2 \in RowLists /\ Kept(below, below2, S)
    BY <1>4, <2>2
  <2> HIDE DEF below, below2
  <2>6. ASSUME NEW c \in Channels
        PROVE  Trees(kids, in2, cs, us2, below2)[c] = Chosen(Trees(kids, in, cs, us, below)[c], S)
    <3>1. c \in S /\ Chosen(Chosen(us, in[c]), S) = Chosen(us2, in2[c])
      BY DEF Spread
    <3> QED
      BY <2>5, <3>1, TreesWithout
  <2> QED
    BY <2>3, <2>4, <2>6 DEF Kept, below, below2
<1>7. T = Nat
  <2> HIDE DEF T
  <2> QED
    BY <1>5, <1>6, SetInduction DEF T
<1>8. Kept(rows[N], rows2[N], S)
  BY <1>3, <1>7
<1>9. rows2[N][Root] = Chosen(rows[N][Root], S)
  BY <1>8, ConstAssumption DEF Kept
<1> QED
  BY <1>1, <1>2, <1>9

(* The table is rows of what is shown.                                      *)
LEMMA FlattenedType ==
    ASSUME NEW kids, NEW in, NEW cs \in Seq(Channels), NEW us \in Seq(Shown)
    PROVE  Flattened(kids, in, cs, us) \in Seq(Shown)
<1> DEFINE N == Cardinality(Channels)
<1>1. PICK rows : Levels(kids, in, cs, us, N, rows) /\ Flattened(kids, in, cs, us) = rows[N][Root]
  BY FlattenedLevels
<1>2. N \in Nat /\ N \in 0 .. N
  BY ChannelCount
<1> HIDE DEF N
<1>3. rows[N] \in RowLists
  BY <1>1, <1>2, LevelsType
<1>4. rows[N][Root] \in Seq(Shown)
  BY <1>3, ConstAssumption DEF RowLists
<1> QED
  BY <1>1, <1>4

(* How often a user has a row.                                              *)
LEMMA TimesCat ==
    ASSUME NEW s \in Seq(Shown), NEW t \in Seq(Shown), NEW x
    PROVE  Times(Cat(s, t), x) = Times(s, x) + Times(t, x)
<1>1. Chosen(Cat(s, t), {x}) = Cat(Chosen(s, {x}), Chosen(t, {x}))
  BY ChosenCat
<1> QED
  BY <1>1, ChosenType, CatType DEF Times

(* The number of rows is a number.                                          *)
LEMMA TimesType ==
    ASSUME NEW s \in Seq(Shown), NEW x
    PROVE  Times(s, x) \in Nat
  BY ChosenType, LenProperties DEF Times

--------------------------------------------------------------------------------
(* The one way from a channel up to the root, and the row it accounts for.  *)

(* What the root reaches, a tree that agrees with its parents, and a way up *)
(* from a channel.                                                          *)
Reached(kids) ==
    {x \in Channels : \A S \in SUBSET Channels :
        Root \in S /\ (\A y \in S : kids[y] \subseteq S) => x \in S}

Rooted(kids, par) ==
    /\ \A c, p \in Channels : c \in kids[p] <=> par[c] = p
    /\ \A p \in Channels : kids[p] \subseteq Channels
    /\ par[Root] = None

Climbs(par, c, k, q) ==
    /\ q \in [0 .. k -> Channels]
    /\ q[0] = c /\ q[k] = Root
    /\ \A i \in 0 .. k - 1 : par[q[i]] = q[i + 1]

(* From every channel that is reached there is a way up: the channels with  *)
(* one are closed under children.                                           *)
LEMMA ClimbExists ==
    ASSUME NEW kids, NEW par, Rooted(kids, par), NEW c \in Reached(kids)
    PROVE  \E k \in Nat : \E q : Climbs(par, c, k, q)
<1> DEFINE W == {x \in Channels : \E k \in Nat : \E q : Climbs(par, x, k, q)}
<1>1. Root \in W
  <2> DEFINE q == [i \in 0 .. 0 |-> Root]
  <2>1. Climbs(par, Root, 0, q)
    BY ConstAssumption DEF Climbs
  <2> QED
    BY <2>1, ConstAssumption
<1>2. ASSUME NEW y \in W, NEW x \in kids[y] PROVE x \in W
  <2>0. PICK k \in Nat : \E q : Climbs(par, y, k, q)
    OBVIOUS
  <2>1. PICK q : Climbs(par, y, k, q)
    BY <2>0
  <2> DEFINE r == [i \in 0 .. k + 1 |-> IF i = 0 THEN x ELSE q[i - 1]]
  <2>2. x \in Channels /\ y \in Channels /\ par[x] = y
    BY DEF Rooted
  <2> HIDE DEF W
  <2>3. q \in [0 .. k -> Channels] /\ q[0] = y /\ q[k] = Root
    BY <2>1 DEF Climbs
  <2>4. r \in [0 .. k + 1 -> Channels]
    <3>1. ASSUME NEW i \in 0 .. k + 1, i # 0 PROVE q[i - 1] \in Channels
      <4>1. i - 1 \in 0 .. k
        BY <3>1
      <4> QED
        BY <4>1, <2>3
    <3> QED
      BY <2>2, <3>1
  <2>5. r[0] = x /\ r[k + 1] = Root
    BY <2>3
  <2>6. ASSUME NEW i \in 0 .. (k + 1) - 1 PROVE par[r[i]] = r[i + 1]
    <3>1. CASE i = 0
      BY <3>1, <2>2, <2>3
    <3>2. CASE i # 0
      <4>1. PICK j \in 0 .. k - 1 : j = i - 1 /\ j + 1 = i
        BY <3>2
      <4>2. par[q[j]] = q[j + 1]
        BY <2>1 DEF Climbs
      <4>3. r[i] = q[j] /\ r[i + 1] = q[j + 1]
        BY <4>1, <3>2
      <4> QED
        BY <4>2, <4>3
    <3> QED
      BY <3>1, <3>2
  <2> HIDE DEF r
  <2>7. Climbs(par, x, k + 1, r)
    BY <2>4, <2>5, <2>6 DEF Climbs
  <2> QED
    BY <2>2, <2>7 DEF W
<1>3. W \in SUBSET Channels /\ \A y \in W : kids[y] \subseteq W
  BY <1>2
<1>4. c \in W
  <2> HIDE DEF W
  <2> QED
    BY <1>1, <1>3 DEF Reached
<1> QED
  BY <1>4

(* It passes no channel twice, as it would never arrive: after the same     *)
(* channel the same channels follow, and nothing follows the root.          *)
LEMMA ClimbsOnce ==
    ASSUME NEW par, par[Root] = None, NEW c, NEW k \in Nat, NEW q, Climbs(par, c, k, q),
           NEW i \in 0 .. k, NEW j \in 0 .. k, q[i] = q[j]
    PROVE  i = j
<1>1. ASSUME NEW a \in 0 .. k, NEW b \in 0 .. k, q[a] = q[b], a < b PROVE FALSE
  <2> DEFINE T == {n \in Nat : b + n <= k => q[a + n] = q[b + n]}
  <2>1. 0 \in T
    BY <1>1
  <2>2. ASSUME NEW n \in T PROVE n + 1 \in T
    <3>1. SUFFICES ASSUME b + (n + 1) <= k PROVE q[a + (n + 1)] = q[b + (n + 1)]
      OBVIOUS
    <3>2. q[a + n] = q[b + n]
      BY <3>1
    <3>3. PICK x \in 0 .. k - 1 : x = a + n /\ x + 1 = a + (n + 1)
      BY <3>1, <1>1
    <3>4. PICK y \in 0 .. k - 1 : y = b + n /\ y + 1 = b + (n + 1)
      BY <3>1
    <3>5. par[q[x]] = q[x + 1] /\ par[q[y]] = q[y + 1]
      BY DEF Climbs
    <3> QED
      BY <3>2, <3>3, <3>4, <3>5
  <2>3. T = Nat
    <3> HIDE DEF T
    <3> QED
      BY <2>1, <2>2, SetInduction DEF T
  <2>4. k - b \in T
    <3>1. k - b \in Nat
      OBVIOUS
    <3> HIDE DEF T
    <3> QED
      BY <2>3, <3>1
  <2>5. PICK x \in 0 .. k - 1 : x = a + (k - b)
    BY <1>1
  <2>6. b + (k - b) = k
    OBVIOUS
  <2>7. q[x] = q[k]
    BY <2>4, <2>5, <2>6
  <2>8. par[q[x]] = q[x + 1] /\ x + 1 \in 0 .. k
    BY DEF Climbs
  <2>9. q[x + 1] \in Channels /\ q[k] = Root
    BY <2>8 DEF Climbs
  <2> QED
    BY <2>7, <2>8, <2>9, ConstAssumption
<1> QED
  BY <1>1

(* So it is shorter than there are channels, and the deepest level has all  *)
(* of it.                                                                   *)
LEMMA ClimbIsShort ==
    ASSUME NEW par, par[Root] = None, NEW c, NEW k \in Nat, NEW q, Climbs(par, c, k, q)
    PROVE  k < Cardinality(Channels)
<1>1. ASSUME Cardinality(Channels) < k + 1 PROVE FALSE
  <2> DEFINE D == 0 .. k
  <2>1. IsFiniteSet(D) /\ Cardinality(D) = k + 1
    <3>1. IsFiniteSet(0 .. k) /\ Cardinality(0 .. k) = IF 0 > k THEN 0 ELSE k - 0 + 1
      BY FS_Interval
    <3> QED
      BY <3>1
  <2>2. q \in [D -> Channels]
    BY DEF Climbs
  <2> HIDE DEF D
  <2>3. \E x, y \in D : x # y /\ q[x] = q[y]
    BY <1>1, <2>1, <2>2, ConstAssumption, FS_PigeonHole
  <2> QED
    BY <2>3, ClimbsOnce DEF D
<1> QED
  BY <1>1, ChannelCount

(* Sums over subtrees: nothing in any, or something in one only.            *)
LEMMA SubtreeTimes ==
    ASSUME NEW cs \in Seq(Channels), NEW f \in RowLists, NEW u
    PROVE  /\ (\A d \in Channels : Times(f[d], u) = 0) => Times(Along(cs, f), u) = 0
           /\ \A d \in Channels :
                 Times(f[d], u) = 1 /\ (\A x \in Channels \ {d} : Times(f[x], u) = 0)
                    => Times(Along(cs, f), u) = Times(cs, d)
<1> DEFINE h == [d \in Channels |-> Chosen(f[d], {u})]
<1>1. \A d \in Channels : f[d] \in Seq(Shown)
  BY DEF RowLists
<1>2. h \in RowLists /\ Kept(f, h, {u})
  BY <1>1, ChosenType DEF RowLists, Kept
<1>3. \A d \in Channels : Times(f[d], u) = Len(h[d]) /\ h[d] \in Seq(Shown)
  BY <1>2 DEF Times, RowLists
<1> HIDE DEF h
<1>4. Chosen(Along(cs, f), {u}) = Along(cs, h)
  BY <1>2, ListChosen
<1>5. Times(Along(cs, f), u) = Len(Along(cs, h))
  BY <1>4 DEF Times
<1>6. h \in [Channels -> Seq(Shown)]
  BY <1>2 DEF RowLists
<1>7. ASSUME NEW d \in Channels, Times(f[d], u) = 0 PROVE h[d] = <<>>
  BY <1>3, <1>7, EmptySeq
<1>8. ASSUME \A d \in Channels : Times(f[d], u) = 0
      PROVE  Times(Along(cs, f), u) = 0
  <2>1. \A d \in Channels : h[d] = <<>>
    BY <1>7, <1>8
  <2>2. Along(cs, h) = <<>>
    BY <1>6, <2>1, AlongNowhere
  <2> QED
    BY <1>5, <2>2, EmptySeq
<1>9. ASSUME NEW d \in Channels, Times(f[d], u) = 1,
             \A x \in Channels \ {d} : Times(f[x], u) = 0
      PROVE  Times(Along(cs, f), u) = Times(cs, d)
  <2>1. Len(h[d]) = 1 /\ \A x \in Channels \ {d} : h[x] = <<>>
    BY <1>3, <1>7, <1>9
  <2>2. Len(Along(cs, h)) = Len(Chosen(cs, {d}))
    BY <1>6, <2>1, AlongOnce
  <2> QED
    BY <1>5, <2>2 DEF Times
<1> QED
  BY <1>8, <1>9

(* What makes a user have a row: he is in one channel, the array of users   *)
(* has him once, and the arrays of channels have every channel once.        *)
Placed(us, in, u, c) ==
    /\ u \in Users
    /\ Times(us, u) = 1
    /\ \A x \in Channels : u \in in[x] <=> x = c

(* How often something is among the rows a channel has by itself.           *)
OwnTimes(us, in, u, x) == Times(Cat(One(x), Chosen(us, in[x])), u)

(* The rows that have u among those a channel has by itself: only those of  *)
(* channel c, one.                                                          *)
Owned(us, in, u, c) ==
    \A x \in Channels : OwnTimes(us, in, u, x) = IF x = c THEN 1 ELSE 0

(* A channel by itself is rows.                                             *)
LEMMA OwnType ==
    ASSUME NEW us \in Seq(Shown), NEW in, NEW x \in Channels
    PROVE  Cat(One(x), Chosen(us, in[x])) \in Seq(Shown)
  BY OneType, ChosenType, CatType

(* A user is among the rows of the channel he is in, once.                  *)
LEMMA UserOwned ==
    ASSUME NEW us \in Seq(Shown), NEW in, NEW u, NEW c, Placed(us, in, u, c)
    PROVE  Owned(us, in, u, c)
<1> SUFFICES ASSUME NEW x \in Channels
             PROVE  OwnTimes(us, in, u, x) = IF x = c THEN 1 ELSE 0
  BY DEF Owned
<1> DEFINE b == Chosen(us, in[x])
<1>1. /\ One(x) \in Seq(Shown) /\ b \in Seq(Shown)
      /\ u # x /\ u \in Shown
  BY OneType, ChosenType, RowAssumption DEF Placed, Shown
<1>2. Times(One(x), u) = 0
  <2>1. Chosen(One(x), {u}) = <<>>
    BY <1>1, ChosenOne
  <2> QED
    BY <2>1, EmptySeq DEF Times
<1>3. Chosen(b, {u}) = Chosen(us, in[x] \cap {u})
  BY ChosenChosen
<1>4. CASE x = c
  <2>1. in[x] \cap {u} = {u}
    BY <1>4 DEF Placed
  <2>2. Times(b, u) = 1
    BY <1>3, <2>1 DEF Times, Placed
  <2> HIDE DEF b
  <2> QED
    BY <1>1, <1>2, <1>4, <2>2, CatType, TimesCat DEF OwnTimes, b
<1>5. CASE x # c
  <2>1. in[x] \cap {u} = {}
    BY <1>5 DEF Placed
  <2>2. Chosen(us, {}) = <<>>
    <3>1. \A z \in Shown : Only({})[z] = <<>>
      BY DEF Only, Shown
    <3>2. Only({}) \in [Shown -> Seq(Shown)]
      BY OnlyType
    <3> QED
      BY <3>1, <3>2, AlongNowhere DEF Chosen
  <2>3. Times(b, u) = 0
    BY <1>3, <2>1, <2>2, EmptySeq DEF Times
  <2> HIDE DEF b
  <2> QED
    BY <1>1, <1>2, <1>5, <2>3, CatType, TimesCat DEF OwnTimes, b
<1> QED
  BY <1>4, <1>5

(* A channel is among its own rows, once.                                   *)
LEMMA ChannelOwned ==
    ASSUME NEW us \in Seq(Users), NEW in, NEW d \in Channels
    PROVE  Owned(us, in, d, d)
<1> SUFFICES ASSUME NEW x \in Channels
             PROVE  OwnTimes(us, in, d, x) = IF x = d THEN 1 ELSE 0
  BY DEF Owned
<1>0. us \in Seq(Shown) /\ d \in Shown
  BY DEF Shown
<1> DEFINE b == Chosen(us, in[x])
<1>1. One(x) \in Seq(Shown) /\ b \in Seq(Shown)
  BY <1>0, OneType, ChosenType
<1>2. Times(One(x), d) = IF x = d THEN 1 ELSE 0
  <2>1. Chosen(One(x), {d}) = IF x \in {d} THEN One(x) ELSE <<>>
    BY ChosenOne
  <2>2. Len(One(x)) = 1 /\ Len(<<>>) = 0
    BY OneType, EmptySeq
  <2> QED
    BY <2>1, <2>2 DEF Times
<1>3. Times(b, d) = 0
  <2>1. \A i \in DOMAIN us : us[i] # d
    BY RowAssumption
  <2>2. Len(Chosen(us, {d})) = 0
    BY <1>0, <2>1, ChosenNowhere
  <2>3. Chosen(us, Shown \ {d}) = us
    BY <1>0, <2>2, ChosenNowhere
  <2>4. Chosen(Chosen(us, Shown \ {d}), in[x]) = Chosen(us, (Shown \ {d}) \cap in[x])
    BY <1>0, ChosenChosen
  <2>5. Chosen(b, {d}) = Chosen(us, ((Shown \ {d}) \cap in[x]) \cap {d})
    <3> DEFINE A == (Shown \ {d}) \cap in[x]
    <3>1. b = Chosen(us, A)
      BY <2>3, <2>4
    <3> HIDE DEF A, b
    <3>2. Chosen(Chosen(us, A), {d}) = Chosen(us, A \cap {d})
      BY <1>0, ChosenChosen
    <3> QED
      BY <3>1, <3>2 DEF A
  <2>6. ((Shown \ {d}) \cap in[x]) \cap {d} = {}
    OBVIOUS
  <2>7. Chosen(us, {}) = <<>>
    <3>1. \A z \in Shown : Only({})[z] = <<>>
      BY DEF Only, Shown
    <3>2. Only({}) \in [Shown -> Seq(Shown)]
      BY OnlyType
    <3> QED
      BY <1>0, <3>1, <3>2, AlongNowhere DEF Chosen
  <2> QED
    BY <2>5, <2>6, <2>7, EmptySeq DEF Times
<1>4. OwnTimes(us, in, d, x) = Times(Cat(One(x), b), d)
  BY DEF OwnTimes
<1> HIDE DEF b
<1>5. Times(Cat(One(x), b), d) = Times(One(x), d) + Times(b, d)
  BY <1>1, TimesCat
<1> QED
  BY <1>2, <1>3, <1>4, <1>5

(* The rows of a level: those of the channels on the way to the root have   *)
(* the user once the level is high enough.                                  *)
OnTheWay(k, q, n, f, u) ==
    /\ \A x \in Channels : (\A i \in 0 .. k : q[i] # x) => Times(f[x], u) = 0
    /\ \A i \in 0 .. k : Times(f[q[i]], u) = IF n > i THEN 1 ELSE 0

(* One level more, and the next channel on the way has the row.             *)
LEMMA LevelsOnTheWay ==
    ASSUME NEW kids, NEW par, Rooted(kids, par), NEW in, NEW cs \in Seq(Channels),
           NEW us \in Seq(Shown), NEW u, NEW c, Owned(us, in, u, c),
           \A d \in Channels : par[d] # None => Times(cs, d) = 1,
           NEW k \in Nat, NEW q, Climbs(par, c, k, q), NEW n \in Nat,
           NEW below \in RowLists, OnTheWay(k, q, n, below, u)
    PROVE  OnTheWay(k, q, n + 1, Trees(kids, in, cs, us, below), u)
<1> DEFINE t == Trees(kids, in, cs, us, below)
           f(x) == Subtrees(kids, x, below)
           e(x) == Along(cs, f(x))
<1>1. ASSUME NEW x \in Channels
      PROVE  /\ f(x) \in RowLists /\ e(x) \in Seq(Shown)
             /\ Times(t[x], u) = (IF x = c THEN 1 ELSE 0) + Times(e(x), u)
  <2> DEFINE p == Cat(One(x), Chosen(us, in[x]))
             r == e(x)
  <2>1. f(x) \in RowLists /\ r \in Seq(Shown)
    BY SubtreesType, ListAlong
  <2>2. t[x] = Cat(p, r)
    BY TreesAt
  <2>3. p \in Seq(Shown) /\ Times(p, u) = IF x = c THEN 1 ELSE 0
    BY OwnType DEF Owned, OwnTimes
  <2> HIDE DEF t, p, r
  <2>4. Times(Cat(p, r), u) = Times(p, u) + Times(r, u)
    BY <2>1, <2>3, TimesCat
  <2> QED
    BY <2>1, <2>2, <2>3, <2>4 DEF r
<1>2. /\ q \in [0 .. k -> Channels] /\ q[0] = c /\ q[k] = Root
      /\ \A i \in 0 .. k - 1 : par[q[i]] = q[i + 1]
  BY DEF Climbs
<1>3. /\ \A x \in Channels : (\A i \in 0 .. k : q[i] # x) => Times(below[x], u) = 0
      /\ \A i \in 0 .. k : Times(below[q[i]], u) = IF n > i THEN 1 ELSE 0
  BY DEF OnTheWay
<1>4. /\ \A x, p \in Channels : x \in kids[p] <=> par[x] = p
      /\ par[Root] = None
  BY DEF Rooted
<1>10. ASSUME NEW a \in 0 .. k, NEW b \in 0 .. k, q[a] = q[b] PROVE a = b
  BY <1>4, <1>10, ClimbsOnce
<1>5. Times(<<>>, u) = 0
  BY ChosenEmpty, EmptySeq DEF Times
<1>6. ASSUME NEW x \in Channels, NEW d \in Channels, Times(f(x)[d], u) # 0
      PROVE  \E i \in 0 .. k - 1 :
                q[i] = d /\ q[i + 1] = x /\ n > i /\ f(x)[d] = below[d]
  <2>1. f(x)[d] = IF d \in kids[x] THEN below[d] ELSE <<>>
    BY DEF Subtrees
  <2> HIDE DEF f
  <2>2. d \in kids[x] /\ f(x)[d] = below[d] /\ par[d] = x
    BY <1>4, <1>5, <1>6, <2>1
  <2>3. PICK i \in 0 .. k : q[i] = d
    BY <1>3, <1>6, <2>2
  <2>4. n > i
    BY <1>3, <1>6, <2>2, <2>3
  <2>5. i # k
    BY <1>2, <1>4, <2>2, <2>3, ConstAssumption
  <2>6. i \in 0 .. k - 1
    BY <2>5
  <2> QED
    BY <1>2, <2>2, <2>3, <2>4, <2>6
<1> HIDE DEF t, e, f
<1>7. ASSUME NEW x \in Channels, \A i \in 0 .. k : q[i] # x
      PROVE  Times(t[x], u) = 0
  <2>1. \A d \in Channels : Times(f(x)[d], u) = 0
    <3>1. ASSUME NEW d \in Channels, Times(f(x)[d], u) # 0 PROVE FALSE
      <4>1. PICK i \in 0 .. k - 1 : q[i + 1] = x
        BY <1>6, <3>1
      <4>2. i + 1 \in 0 .. k
        OBVIOUS
      <4> QED
        BY <1>7, <4>1, <4>2
    <3> QED
      BY <3>1
  <2>2. Times(e(x), u) = 0
    <3> DEFINE g == f(x)
    <3>1. g \in RowLists /\ \A d \in Channels : Times(g[d], u) = 0
      BY <1>1, <2>1
    <3> HIDE DEF g
    <3>2. Times(Along(cs, g), u) = 0
      BY <3>1, SubtreeTimes
    <3> QED
      BY <3>2 DEF g, e
  <2>3. x # c
    BY <1>2, <1>7
  <2> QED
    BY <1>1, <2>2, <2>3
<1>8. ASSUME NEW j \in 0 .. k
      PROVE  Times(t[q[j]], u) = IF n + 1 > j THEN 1 ELSE 0
  <2> DEFINE x == q[j]
             g == f(x)
  <2>1. x \in Channels
    BY <1>2
  <2>2. g \in RowLists /\ Times(t[x], u) = (IF x = c THEN 1 ELSE 0) + Times(Along(cs, g), u)
    BY <1>1, <2>1 DEF e
  <2>3. ASSUME NEW d \in Channels, Times(g[d], u) # 0
        PROVE  \E i \in 0 .. k - 1 : q[i] = d /\ j = i + 1 /\ n > i /\ g[d] = below[d]
    <3>1. PICK i \in 0 .. k - 1 : q[i] = d /\ q[i + 1] = x /\ n > i /\ g[d] = below[d]
      BY <1>6, <2>1, <2>3
    <3>2. i + 1 \in 0 .. k /\ q[i + 1] = q[j]
      BY <3>1
    <3>3. i + 1 = j
      BY <1>10, <3>2
    <3> QED
      BY <3>1, <3>3
  <2>4. x = c <=> j = 0
    <3>1. 0 \in 0 .. k
      OBVIOUS
    <3>2. q[j] = q[0] => j = 0
      BY <1>10, <3>1
    <3> QED
      BY <1>2, <3>2
  <2>5. CASE j = 0 \/ n <= j - 1
    <3>1. \A d \in Channels : Times(g[d], u) = 0
      BY <2>3, <2>5
    <3> HIDE DEF g, x
    <3>2. Times(Along(cs, g), u) = 0
      BY <2>2, <3>1, SubtreeTimes
    <3>3. Times(t[x], u) = IF n + 1 > j THEN 1 ELSE 0
      BY <2>2, <2>4, <2>5, <3>2
    <3> QED
      BY <3>3 DEF x
  <2>6. CASE j # 0 /\ n > j - 1
    <3>1. PICK i \in 0 .. k - 1 : i = j - 1 /\ i + 1 = j
      BY <2>6
    <3> DEFINE d == q[i]
    <3>2. d \in Channels /\ par[d] = x /\ d \in kids[x] /\ i \in 0 .. k
      BY <1>2, <1>4, <2>1, <3>1
    <3>3. g[d] = below[d]
      BY <3>2 DEF f, Subtrees
    <3>4. Times(below[d], u) = 1
      BY <1>3, <2>6, <3>1, <3>2
    <3>5. \A y \in Channels \ {d} : Times(g[y], u) = 0
      <4>1. ASSUME NEW y \in Channels, Times(g[y], u) # 0 PROVE y = d
        <5>1. PICK l \in 0 .. k - 1 : q[l] = y /\ j = l + 1
          BY <2>3, <4>1
        <5> QED
          BY <3>1, <5>1
      <4> QED
        BY <4>1
    <3>6. Times(cs, d) = 1
      BY <2>1, <3>2, ConstAssumption
    <3> HIDE DEF g, d, x
    <3>7. Times(Along(cs, g), u) = 1
      BY <2>2, <3>2, <3>3, <3>4, <3>5, <3>6, SubtreeTimes
    <3>8. Times(t[x], u) = IF n + 1 > j THEN 1 ELSE 0
      BY <2>2, <2>4, <2>6, <3>7
    <3> QED
      BY <3>8 DEF x
  <2> QED
    BY <2>5, <2>6
<1>9. OnTheWay(k, q, n + 1, t, u)
  BY <1>7, <1>8 DEF OnTheWay
<1> QED
  BY <1>9 DEF t

(* A user of a channel that is reached has one row, and who is in no        *)
(* channel has none.                                                        *)
LEMMA OneRow ==
    ASSUME NEW kids, NEW par, Rooted(kids, par), NEW in, NEW cs \in Seq(Channels),
           NEW us \in Seq(Shown), NEW u, NEW c \in Reached(kids), Owned(us, in, u, c),
           \A d \in Channels : par[d] # None => Times(cs, d) = 1
    PROVE  Times(Flattened(kids, in, cs, us), u) = 1
<1> DEFINE N == Cardinality(Channels)
<1>1. PICK rows : Levels(kids, in, cs, us, N, rows) /\ Flattened(kids, in, cs, us) = rows[N][Root]
  BY FlattenedLevels
<1>2. N \in Nat
  BY ChannelCount
<1>13. PICK k \in Nat : \E q : Climbs(par, c, k, q)
  BY ClimbExists
<1>3. PICK q : Climbs(par, c, k, q)
  BY <1>13
<1>4. k < N
  BY <1>3, ClimbIsShort DEF Rooted
<1> HIDE DEF N
<1>5. \A n \in 0 .. N : rows[n] \in RowLists
  BY <1>1, <1>2, LevelsType
<1>6. q \in [0 .. k -> Channels] /\ q[k] = Root
  BY <1>3 DEF Climbs
<1> DEFINE T == {n \in Nat : n <= N => OnTheWay(k, q, n, rows[n], u)}
<1>7. 0 \in T
  <2>1. Times(<<>>, u) = 0
    BY ChosenEmpty, EmptySeq DEF Times
  <2>2. \A x \in Channels : Times(rows[0][x], u) = 0
    BY <1>1, <2>1, LevelZero
  <2> QED
    BY <1>6, <2>2 DEF OnTheWay
<1>8. ASSUME NEW n \in T PROVE n + 1 \in T
  <2>1. SUFFICES ASSUME n + 1 <= N PROVE OnTheWay(k, q, n + 1, rows[n + 1], u)
    OBVIOUS
  <2> DEFINE below == rows[n]
  <2>2. n \in Nat /\ below \in RowLists /\ OnTheWay(k, q, n, below, u)
    <3>1. n \in 0 .. N
      BY <1>2, <2>1
    <3> QED
      BY <1>5, <2>1, <3>1
  <2> HIDE DEF T
  <2>3. rows[n + 1] = Trees(kids, in, cs, us, below)
    BY <1>1, <1>2, <2>1, <2>2, LevelStep
  <2> HIDE DEF below
  <2>4. OnTheWay(k, q, n + 1, Trees(kids, in, cs, us, below), u)
    BY <1>3, <2>2, LevelsOnTheWay
  <2> QED
    BY <2>3, <2>4
<1>9. T = Nat
  <2> HIDE DEF T
  <2> QED
    BY <1>7, <1>8, SetInduction DEF T
<1>10. OnTheWay(k, q, N, rows[N], u)
  BY <1>2, <1>9
<1>11. k \in 0 .. k
  OBVIOUS
<1>12. Times(rows[N][q[k]], u) = 1
  BY <1>2, <1>4, <1>10, <1>11 DEF OnTheWay
<1> QED
  BY <1>1, <1>6, <1>12

--------------------------------------------------------------------------------
(* The rows without a user, and the row that is his.                        *)

(* The arrays of users without a user, before and after he comes, moves or  *)
(* leaves, are the same; so are the rows.                                   *)
LEMMA WithoutType ==
    ASSUME NEW s \in Seq(Shown), NEW x \in Shown
    PROVE  Without(s, x) = Chosen(s, Shown \ {x}) /\ Without(s, x) \in Seq(Shown)
<1>1. Without(s, x) = Chosen(s, Shown \ {x})
  BY DEF Without, Shown
<1> QED
  BY <1>1, ChosenType

(* Of no elements, nothing is chosen.                                       *)
LEMMA ChosenNone == \A s \in Seq(Shown) : Chosen(s, {}) = <<>>
<1>1. \A z \in Shown : Only({})[z] = <<>>
  BY DEF Only, Shown
<1>2. Only({}) \in [Shown -> Seq(Shown)]
  BY OnlyType
<1> QED
  BY <1>1, <1>2, AlongNowhere DEF Chosen

(* A user who is left out is out, and the others stay; putting him last     *)
(* makes no difference to them.                                             *)
LEMMA WithoutIsWithout ==
    ASSUME NEW s \in Seq(Shown), NEW x \in Shown
    PROVE  /\ Without(Without(s, x), x) = Without(s, x)
           /\ Without(PutLast(s, x), x) = Without(s, x)
           /\ Times(Without(s, x), x) = 0
           /\ \A y \in Shown \ {x} : Times(Without(s, x), y) = Times(s, y)
<1> DEFINE S == Shown \ {x}
           r == Without(s, x)
<1>1. r = Chosen(s, S) /\ r \in Seq(Shown)
  BY WithoutType
<1>2. S \cap S = S /\ S \cap {x} = {} /\ \A y \in Shown \ {x} : S \cap {y} = {y}
  OBVIOUS
<1>3. x \notin S
  OBVIOUS
<1> HIDE DEF r, S
<1>4. \A A : Chosen(r, A) = Chosen(s, S \cap A)
  BY <1>1, ChosenChosen
<1>5. Without(r, x) = Chosen(r, S)
  BY <1>1, WithoutType DEF S
<1>6. Without(r, x) = r
  BY <1>1, <1>2, <1>4, <1>5
<1>7. PutLast(s, x) = Append(r, x) /\ Append(r, x) \in Seq(Shown)
  BY <1>1, AppendProperties DEF PutLast, r
<1>8. Without(Append(r, x), x) = Chosen(Append(r, x), S)
  BY <1>7, WithoutType DEF S
<1>9. Chosen(Append(r, x), S) = Chosen(r, S)
  BY <1>1, <1>3, ChosenAppend
<1>10. Times(r, x) = 0
  BY <1>2, <1>4, ChosenNone, EmptySeq DEF Times
<1>11. \A y \in Shown \ {x} : Times(r, y) = Times(s, y)
  BY <1>2, <1>4 DEF Times
<1> QED
  BY <1>5, <1>6, <1>7, <1>8, <1>9, <1>10, <1>11 DEF r

(* The users of every channel but one user are the same.                    *)
SameOthers(in, in2, u) == \A c \in Channels : in[c] \ {u} = in2[c] \ {u}

(* The rows of the others do not change when one user comes, moves or       *)
(* leaves.                                                                  *)
LEMMA RowsOfOthers ==
    ASSUME NEW kids, NEW in, NEW cs \in Seq(Channels), NEW us \in Seq(Shown),
           NEW in2, NEW us2 \in Seq(Shown), NEW u \in Users,
           SameOthers(in, in2, u), Without(us2, u) = Without(us, u)
    PROVE  Without(Flattened(kids, in2, cs, us2), u) = Without(Flattened(kids, in, cs, us), u)
<1> DEFINE S == Shown \ {u}
           us0 == Without(us, u)
           in0 == [c \in Channels |-> in[c] \ {u}]
<1>1. u \in Shown /\ Channels \subseteq S
  BY RowAssumption DEF Shown
<1>2. us0 \in Seq(Shown) /\ us0 = Chosen(us, S) /\ us0 = Chosen(us2, S)
  BY <1>1, WithoutType
<1>3. \A c \in Channels : /\ in[c] \cap S = S \cap in0[c]
                          /\ in2[c] \cap S = S \cap in0[c]
  BY DEF SameOthers
<1> HIDE DEF us0, in0, S
<1>4. Spread(us, in, us0, in0, S)
  <2> SUFFICES ASSUME NEW c \in Channels
               PROVE  Chosen(Chosen(us, in[c]), S) = Chosen(us0, in0[c])
    BY DEF Spread
  <2>1. Chosen(Chosen(us, in[c]), S) = Chosen(us, in[c] \cap S)
    BY ChosenChosen
  <2>2. Chosen(Chosen(us, S), in0[c]) = Chosen(us, S \cap in0[c])
    BY ChosenChosen
  <2> QED
    BY <1>2, <1>3, <2>1, <2>2
<1>5. Spread(us2, in2, us0, in0, S)
  <2> SUFFICES ASSUME NEW c \in Channels
               PROVE  Chosen(Chosen(us2, in2[c]), S) = Chosen(us0, in0[c])
    BY DEF Spread
  <2>1. Chosen(Chosen(us2, in2[c]), S) = Chosen(us2, in2[c] \cap S)
    BY ChosenChosen
  <2>2. Chosen(Chosen(us2, S), in0[c]) = Chosen(us2, S \cap in0[c])
    BY ChosenChosen
  <2> QED
    BY <1>2, <1>3, <2>1, <2>2
<1>6. Flattened(kids, in0, cs, us0) = Chosen(Flattened(kids, in, cs, us), S)
  BY <1>1, <1>2, <1>4, FlattenedWithout
<1>7. Flattened(kids, in0, cs, us0) = Chosen(Flattened(kids, in2, cs, us2), S)
  BY <1>1, <1>2, <1>5, FlattenedWithout
<1>8. /\ Without(Flattened(kids, in, cs, us), u) = Chosen(Flattened(kids, in, cs, us), S)
      /\ Without(Flattened(kids, in2, cs, us2), u) = Chosen(Flattened(kids, in2, cs, us2), S)
  BY <1>1, FlattenedType, WithoutType DEF S
<1> QED
  BY <1>6, <1>7, <1>8

(* Who is in no channel has no row.                                         *)
LEMMA NoRow ==
    ASSUME NEW kids, NEW in, NEW cs \in Seq(Channels), NEW us \in Seq(Shown),
           NEW u \in Users, \A c \in Channels : u \notin in[c]
    PROVE  Times(Flattened(kids, in, cs, us), u) = 0
<1> DEFINE S == Shown \ {u}
           rows == Flattened(kids, in, cs, us)
<1>1. u \in Shown /\ Channels \subseteq S
  BY RowAssumption DEF Shown
<1>2. \A c \in Channels : in[c] \cap S \cap Shown = in[c] \cap Shown
  OBVIOUS
<1>3. S \cap {u} = {}
  OBVIOUS
<1> HIDE DEF S
<1>4. Spread(us, in, us, in, S)
  <2> SUFFICES ASSUME NEW c \in Channels
               PROVE  Chosen(Chosen(us, in[c]), S) = Chosen(us, in[c])
    BY DEF Spread
  <2>1. Chosen(Chosen(us, in[c]), S) = Chosen(us, in[c] \cap S)
    BY ChosenChosen
  <2>2. Chosen(us, in[c] \cap S) = Chosen(us, in[c])
    BY <1>2, ChosenAgree
  <2> QED
    BY <2>1, <2>2
<1>5. rows = Chosen(rows, S)
  BY <1>1, <1>4, FlattenedWithout
<1>6. rows \in Seq(Shown)
  BY FlattenedType
<1> HIDE DEF rows
<1>7. Chosen(Chosen(rows, S), {u}) = Chosen(rows, S \cap {u})
  BY <1>6, ChosenChosen
<1>8. Times(rows, u) = 0
  BY <1>3, <1>5, <1>6, <1>7, ChosenNone, EmptySeq DEF Times
<1> QED
  BY <1>8 DEF rows

(* His rows and those of the others are all.                                *)
LEMMA RowsAdd ==
    ASSUME NEW s \in Seq(Shown), NEW x \in Shown
    PROVE  /\ Len(s) = Len(Without(s, x)) + Times(s, x)
           /\ Len(Without(s, x)) \in Nat /\ Times(s, x) \in Nat /\ Len(s) \in Nat
<1>1. Len(s) = Len(Chosen(s, {x})) + Len(Chosen(s, Shown \ {x}))
  BY ChosenCounts
<1>2. Without(s, x) = Chosen(s, Shown \ {x}) /\ Without(s, x) \in Seq(Shown)
  BY WithoutType
<1>3. Len(Without(s, x)) \in Nat /\ Times(s, x) \in Nat /\ Len(s) \in Nat
  BY <1>2, TimesType, LenProperties
<1> QED
  BY <1>1, <1>2, <1>3 DEF Times

(* The index of a row is that of a row.                                     *)
LEMMA MaxExists ==
    ASSUME NEW n \in Nat, NEW S \in SUBSET (1 .. n), S # {}
    PROVE  Max(S) \in S
<1> DEFINE T == {k \in Nat : \A A \in SUBSET (1 .. k) : A # {} =>
                    \E a \in A : \A b \in A : a >= b}
<1>1. 0 \in T
  <2>1. \A a \in 1 .. 0 : FALSE
    OBVIOUS
  <2>2. ASSUME NEW A \in SUBSET (1 .. 0), A # {} PROVE FALSE
    <3>1. PICK a \in A : TRUE
      BY <2>2
    <3>2. a \in 1 .. 0
      BY <3>1
    <3> QED
      BY <2>1, <3>2
  <2> QED
    BY <2>2
<1>2. ASSUME NEW k \in T PROVE k + 1 \in T
  <2> SUFFICES ASSUME NEW A \in SUBSET (1 .. k + 1), A # {}
               PROVE  \E a \in A : \A b \in A : a >= b
    OBVIOUS
  <2>1. CASE k + 1 \in A
    BY <2>1
  <2>2. CASE k + 1 \notin A
    <3>1. A \in SUBSET (1 .. k)
      BY <2>2
    <3> QED
      BY <3>1
  <2> QED
    BY <2>1, <2>2
<1>3. T = Nat
  <2> HIDE DEF T
  <2> QED
    BY <1>1, <1>2, SetInduction DEF T
<1>4. \E a \in S : \A b \in S : a >= b
  <2>1. n \in T
    BY <1>3
  <2> QED
    BY <2>1
<1> QED
  BY <1>4 DEF Max

(* IndexOf finds a row of whoever has one, and 0 for whoever has none.      *)
LEMMA IndexIsRow ==
    ASSUME NEW rows \in Seq(Shown), NEW x \in Shown
    PROVE  /\ Times(rows, x) # 0 => IndexOf(rows, x) \in 1 .. Len(rows)
           /\ Times(rows, x) = 0 => IndexOf(rows, x) = 0 /\ Without(rows, x) = rows
<1> DEFINE at == {i \in DOMAIN rows : rows[i] = x}
<1>1. DOMAIN rows = 1 .. Len(rows) /\ Len(rows) \in Nat
  BY LenProperties
<1>2. /\ Times(rows, x) = 0 <=> at = {}
      /\ Times(rows, x) = 0 => Without(rows, x) = rows
  <2>1. /\ Len(Chosen(rows, {x})) = 0 <=> \A i \in DOMAIN rows : rows[i] # x
        /\ Len(Chosen(rows, {x})) = 0 => Chosen(rows, Shown \ {x}) = rows
    BY ChosenNowhere
  <2>2. Without(rows, x) = Chosen(rows, Shown \ {x})
    BY WithoutType
  <2> QED
    BY <2>1, <2>2 DEF Times
<1>3. IndexOf(rows, x) = IF at = {} THEN 0 ELSE Max(at)
  BY DEF IndexOf
<1>4. at \in SUBSET (1 .. Len(rows))
  BY <1>1
<1> HIDE DEF at
<1>5. at # {} => Max(at) \in at
  BY <1>1, <1>4, MaxExists
<1> QED
  BY <1>2, <1>3, <1>4, <1>5

--------------------------------------------------------------------------------
(* What the model promises, with the table beside it.                       *)

ModelInv == IInv /\ Membership /\ Symmetric(linked)

(* It holds at first.                                                       *)
LEMMA ViewInitModel == ViewInit => ModelInv
<1> SUFFICES ASSUME Init PROVE ModelInv
  BY DEF ViewInit
<1>1. Symmetric(linked)
  BY DEF Init, Symmetric
<1> QED
  BY <1>1, InitIInv, MembershipInit DEF ModelInv

(* A step of the model keeps it.                                            *)
LEMMA NextKeepsModel ==
    ASSUME ModelInv, [Next]_vars
    PROVE  ModelInv'
  BY NextKeepsIInv, NextKeepsMembership, NextKeepsLinks DEF ModelInv

(* Every handler is one of the model, with what the table does added.       *)
LEMMA ViewStepIsModelStep ==
    ASSUME [ViewNext]_allVars
    PROVE  [Next]_vars \/ ServerGrants
<1>1. CASE ViewHandleMessage
  BY <1>1 DEF ViewHandleMessage, ViewChannelState, ViewChannelRemove, ViewUserState,
     ViewUserRemove, ViewServerSync, Next, HandleMessage
<1>2. CASE ViewWillAppear
  BY <1>2 DEF ViewWillAppear
<1>3. CASE UNCHANGED allVars
  BY <1>3 DEF allVars
<1> QED
  BY <1>1, <1>2, <1>3 DEF ViewNext, Next

(* What the table asked for changes the server as any move of a user does.  *)
LEMMA GrantKeepsModel ==
    ASSUME ModelInv, ServerGrants
    PROVE  ModelInv'
<1>1. /\ phase = "live"
      /\ UNCHANGED <<sParent, sUsed, sLinks, sFlags, loggedIn, ops, phase, tree,
                     people, connectedUser, told, unchain>>
  BY DEF ServerGrants
<1>2. Membership' /\ Symmetric(linked)'
  BY <1>1, MembershipUnchanged DEF ModelInv, people, tree, Symmetric
<1>3. IInv'
  <2>1. CASE AutoChannel \in sChans /\ sIn[Me] \notin {None, AutoChannel}
    <3>1. /\ sIn' = [sIn EXCEPT ![Me] = AutoChannel]
          /\ Send(<<UserState(Me, AutoChannel, {}, {}, FALSE)>>)
      BY <2>1 DEF ServerGrants
    <3>2. ServerLegal' /\ \E m : Announced(m)
      BY <1>1, <2>1, <3>1, UserMoveIsAnnounced, ConstAssumption, AutoAssumption
      DEF ModelInv, IInv
    <3> QED
      BY <1>1, <3>2, AnnouncedKeepsIInv DEF ModelInv
  <2>2. CASE ~(AutoChannel \in sChans /\ sIn[Me] \notin {None, AutoChannel})
    <3>1. UNCHANGED <<sIn, inbox>>
      BY <2>2 DEF ServerGrants
    <3>2. UNCHANGED vars
      BY <1>1, <3>1 DEF vars, server
    <3> QED
      BY <3>2, StutterKeepsIInv DEF ModelInv
  <2> QED
    BY <2>1, <2>2
<1> QED
  BY <1>2, <1>3 DEF ModelInv

(* The inductive invariant of the model holds with the table beside it.     *)
THEOREM ModelInvariance == ViewSpec => []ModelInv
<1>1. ModelInv /\ [ViewNext]_allVars => ModelInv'
  BY ViewStepIsModelStep, NextKeepsModel, GrantKeepsModel
<1> QED
  BY ViewInitModel, <1>1, PTL DEF ViewSpec

(* With the table on the screen, its delegate methods between the model's   *)
(* steps and its requests among the server's changes, the model is still    *)
(* what the server said: its shape, members, links and tree are right, no   *)
(* message names a channel that is not there, and with no message left it   *)
(* is the state of the server.                                              *)
THEOREM ModelRightBesideTable ==
    ViewSpec => [](/\ TypeOK /\ MembershipAgrees /\ LinksSymmetric /\ UsersReside
                   /\ TreeAgrees /\ ServerMirrored /\ OthersKnowModel)
<1>1. ModelInv => /\ TypeOK /\ MembershipAgrees /\ LinksSymmetric /\ UsersReside
                  /\ TreeAgrees /\ ServerMirrored /\ OthersKnowModel
  BY IInvGivesType, IInvGivesResidence, IInvGivesTree, IInvGivesMirror, IInvGivesOthers
  DEF ModelInv, Membership, LinksSymmetric, Symmetric
<1> QED
  BY ModelInvariance, <1>1, PTL

--------------------------------------------------------------------------------
(* The table.                                                               *)

(* The types of the arrays and of the table.                                *)
ViewTyped ==
    /\ chanOrder \in Seq(Channels) /\ userOrder \in Seq(Users)
    /\ modelItems \in Seq(Shown) /\ raised \in BOOLEAN

(* The arrays have every channel and every user who is somewhere once.      *)
ChannelsOrdered == \A c \in chans : Times(chanOrder, c) = 1
UsersOrdered == \A u \in Users : chanOf[u] # None => Times(userOrder, u) = 1

(* Who has left is nowhere.                                                 *)
OthersNowhere == phase = "live" => \A u \in Users \ users : chanOf[u] = None

(* The table view counts the rows there are, and has not raised.            *)
RowsCounted == rowCount = Len(modelItems) /\ (moved = {} => ~raised)

(* The inductive invariant.                                                 *)
OrdersInv == ViewTyped /\ ChannelsOrdered /\ UsersOrdered /\ OthersNowhere
TableInv == TableShowsModel /\ RowsCounted
ViewInv == ModelInv /\ OrdersInv /\ TableInv

(* The arrays are sequences of what is shown.                               *)
LEMMA SeqsShown ==
    /\ Seq(Channels) \subseteq Seq(Shown) /\ Seq(Users) \subseteq Seq(Shown)
    /\ Channels \subseteq Shown /\ Users \subseteq Shown
  BY DEF Shown

(* What is chosen of an array stays of its kind.                            *)
LEMMA ChosenStays ==
    ASSUME NEW X \in SUBSET Shown, NEW s \in Seq(X), NEW S
    PROVE  Chosen(s, S) \in Seq(X)
<1> DEFINE T == {r \in Seq(X) : Chosen(r, S) \in Seq(X)}
<1>1. <<>> \in T
  BY EmptySeq, ChosenEmpty
<1>2. ASSUME NEW r \in T, NEW x \in X PROVE Append(r, x) \in T
  <2>1. Append(r, x) \in Seq(X) /\ Append(Chosen(r, S), x) \in Seq(X)
    BY AppendProperties
  <2>2. r \in Seq(Shown) /\ x \in Shown
    OBVIOUS
  <2>3. Chosen(Append(r, x), S) = IF x \in S THEN Append(Chosen(r, S), x) ELSE Chosen(r, S)
    BY <2>2, ChosenAppend
  <2> QED
    BY <2>1, <2>3
<1>3. T = Seq(X)
  <2> HIDE DEF T
  <2> QED
    BY <1>1, <1>2, SequenceInduction DEF T
<1> QED
  BY <1>3

(* So does an array with one of its elements put last.                      *)
LEMMA PutLastStays ==
    ASSUME NEW X \in SUBSET Shown, NEW s \in Seq(X), NEW x \in X
    PROVE  PutLast(s, x) \in Seq(X) /\ Without(s, x) \in Seq(X)
<1>1. Without(s, x) \in Seq(X)
  BY ChosenStays DEF Without
<1> QED
  BY <1>1, AppendProperties DEF PutLast

(* A tree whose parents, children and members agree.                        *)
Upright == TreeInv /\ UsersReside /\ Membership /\ Typed

(* Who is in a channel has one row.                                         *)
EachHasRow ==
    phase = "live" /\ moved = {} =>
        \A u \in Users : chanOf[u] # None =>
            Times(Flattened(children, members, chanOrder, userOrder), u) = 1

(* The invariant of the model gives what is asked of the tree.              *)
LEMMA ModelIsUpright == ModelInv => Upright
  BY IInvGivesResidence DEF ModelInv, IInv, Upright

(* OneRow for a tree with its parents, children and members in agreement.   *)
LEMMA RowsOfTree ==
    ASSUME NEW kids \in [Channels -> SUBSET Channels],
           NEW par \in [Channels -> Channels \cup {None}],
           NEW known \in SUBSET Channels, NEW in, NEW cs \in Seq(Channels),
           NEW us \in Seq(Users), NEW u \in Users, NEW c \in known,
           par[Root] = None, \A d \in Channels \ known : par[d] = None,
           \A d, p \in Channels : d \in kids[p] <=> par[d] = p,
           known \subseteq Reached(kids),
           \A d \in known : Times(cs, d) = 1, Times(us, u) = 1,
           \A x \in Channels : u \in in[x] <=> x = c
    PROVE  Times(Flattened(kids, in, cs, us), u) = 1
<1>1. Rooted(kids, par)
  BY DEF Rooted
<1>5. us \in Seq(Shown)
  BY SeqsShown
<1>2. Owned(us, in, u, c)
  <2>1. Placed(us, in, u, c)
    BY DEF Placed
  <2> QED
    BY <1>5, <2>1, UserOwned
<1>3. us \in Seq(Shown) /\ c \in Reached(kids)
  BY SeqsShown
<1>4. \A d \in Channels : par[d] # None => Times(cs, d) = 1
  OBVIOUS
<1> QED
  BY <1>1, <1>2, <1>3, <1>4, OneRow

(* Before a step,                                                           *)
LEMMA EachHasRowNow == Upright /\ OrdersInv => EachHasRow
<1> SUFFICES ASSUME Upright, OrdersInv, phase = "live", moved = {}, NEW u \in Users,
                    chanOf[u] # None
             PROVE  Times(Flattened(children, members, chanOrder, userOrder), u) = 1
  BY DEF EachHasRow
<1>1. chanOf[u] \in chans /\ \A x \in Channels : u \in members[x] <=> x = chanOf[u]
  BY DEF Upright, OrdersInv, OthersNowhere, UsersReside, Membership, MembershipAgrees
<1>2. chans \subseteq Reached(children)
  BY DEF Upright, TreeInv, RootReachesAll, Downward, Reached
<1>3. /\ parent[Root] = None /\ \A d \in Channels \ chans : parent[d] = None
      /\ \A d, p \in Channels : d \in children[p] <=> parent[d] = p
  BY DEF Upright, TreeInv, RootHasNoParent, NoParents, TreeAgrees
<1>4. /\ children \in [Channels -> SUBSET Channels] /\ chans \in SUBSET Channels
      /\ parent \in [Channels -> Channels \cup {None}]
  BY DEF Upright, Typed
<1>5. /\ chanOrder \in Seq(Channels) /\ userOrder \in Seq(Users)
      /\ \A d \in chans : Times(chanOrder, d) = 1
      /\ Times(userOrder, u) = 1
  BY DEF OrdersInv, ViewTyped, ChannelsOrdered, UsersOrdered
<1> QED
  BY <1>1, <1>2, <1>3, <1>4, <1>5, RowsOfTree

(* and after it.                                                            *)
LEMMA EachHasRowNext == Upright' /\ OrdersInv' => EachHasRow'
<1> SUFFICES ASSUME Upright', OrdersInv', phase' = "live", moved' = {}, NEW u \in Users,
                    chanOf'[u] # None
             PROVE  Times(Flattened(children', members', chanOrder', userOrder'), u) = 1
  BY DEF EachHasRow
<1>1. chanOf'[u] \in chans' /\ \A x \in Channels : u \in members'[x] <=> x = chanOf'[u]
  BY DEF Upright, OrdersInv, OthersNowhere, UsersReside, Membership, MembershipAgrees
<1>2. chans' \subseteq Reached(children')
  BY DEF Upright, TreeInv, RootReachesAll, Downward, Reached
<1>3. /\ parent'[Root] = None /\ \A d \in Channels \ chans' : parent'[d] = None
      /\ \A d, p \in Channels : d \in children'[p] <=> parent'[d] = p
  BY DEF Upright, TreeInv, RootHasNoParent, NoParents, TreeAgrees
<1>4. /\ children' \in [Channels -> SUBSET Channels] /\ chans' \in SUBSET Channels
      /\ parent' \in [Channels -> Channels \cup {None}]
  BY DEF Upright, Typed
<1>5. /\ chanOrder' \in Seq(Channels) /\ userOrder' \in Seq(Users)
      /\ \A d \in chans' : Times(chanOrder', d) = 1
      /\ Times(userOrder', u) = 1
  BY DEF OrdersInv, ViewTyped, ChannelsOrdered, UsersOrdered
<1> DEFINE kids == children'
           par == parent'
           known == chans'
           in == members'
           cs == chanOrder'
           us == userOrder'
           c == chanOf'[u]
<1>6. /\ kids \in [Channels -> SUBSET Channels] /\ known \in SUBSET Channels
      /\ par \in [Channels -> Channels \cup {None}]
      /\ cs \in Seq(Channels) /\ us \in Seq(Users) /\ c \in known
  BY <1>1, <1>4, <1>5
<1>7. /\ par[Root] = None /\ \A d \in Channels \ known : par[d] = None
      /\ \A d, p \in Channels : d \in kids[p] <=> par[d] = p
      /\ known \subseteq Reached(kids)
      /\ \A d \in known : Times(cs, d) = 1
      /\ Times(us, u) = 1
      /\ \A x \in Channels : u \in in[x] <=> x = c
  BY <1>1, <1>2, <1>3, <1>5
<1> HIDE DEF kids, par, known, in, cs, us, c
<1>8. Times(Flattened(kids, in, cs, us), u) = 1
  BY <1>6, <1>7, RowsOfTree
<1> QED
  BY <1>8 DEF kids, in, cs, us

(* A new channel is told of: its parent is there, and not below it.         *)
LEMMA NewChannelIsTold ==
    ASSUME ModelInv, HandleChannelState, Synced, ~Ignores(Head(inbox)),
           Head(inbox).chan \notin chans
    PROVE  ChannelMovedTold(Head(inbox))
<1> DEFINE m == Head(inbox)
<1>1. /\ phase = "live" /\ inbox # <<>> /\ m.type = "ChannelState"
      /\ inbox' = Tail(inbox) /\ UNCHANGED server
  BY DEF HandleChannelState, Handle
<1>2. loggedIn
  BY <1>1 DEF ModelInv, IInv, Follows, Fresh
<1>3. PICK h : Story(h) /\ Mirrors(h[1])
  BY <1>1, <1>2 DEF ModelInv, IInv, Follows
<1> DEFINE s == h[1]
           t == h[2]
<1>4. Legal(s) /\ Tells(m, s, t) /\ Mirrors(s)
  BY <1>1, <1>3, StoryGoesOn DEF ModelInv, IInv
<1> HIDE DEF s, t
<1>5. chans = Known(s) /\ Root \in chans
  BY <1>4, ConstAssumption DEF Mirrors, MirrorsTree, Legal, TreeLegal, Known
<1>6. PICK c \in Channels, p \in Channels : TellsAdded(m, s, t, c, p)
  <2>1. ~TellsOfUser(m, s, t)
    BY <1>1 DEF TellsOfUser, TellsSync, TellsLeft, TellsFlags, TellsJoined,
                TellsUserMoved, AUserState
  <2>2. TellsOfChannel(m, s, t)
    BY <1>4, <2>1 DEF Tells
  <2>3. ~TellsOfRoot(m, s, t)
    BY <1>5 DEF TellsOfRoot, AChannelState
  <2>4. \A c \in Channels : ~TellsRemoved(m, s, t, c) /\ ~TellsLinks(m, s, t, c)
    BY <1>1, <1>5 DEF TellsRemoved, TellsLinks, AChannelState
  <2>5. \A c, d \in Channels : /\ ~TellsMoved(m, s, t, c, d) /\ ~TellsLinked(m, s, t, c, d)
                               /\ ~TellsUnlinked(m, s, t, c, d)
    BY <1>5 DEF TellsMoved, TellsLinked, TellsUnlinked, AChannelState
  <2> QED
    BY <2>2, <2>3, <2>4, <2>5 DEF TellsOfChannel
<1>7. m.chan = c /\ m.parent = p /\ p \in chans /\ c \notin chans
  BY <1>5, <1>6 DEF TellsAdded, AChannelState
<1>8. Lookup(m.parent) = p /\ p # None
  BY <1>7, ConstAssumption DEF Lookup
<1>9. c \notin Upward(parent, p)
  <2>1. \A y \in chans : parent[y] \in chans \cup {None}
    <3>1. parent[Root] = None
      BY <1>1 DEF ModelInv, IInv, TreeInv, RootHasNoParent
    <3>2. ASSUME NEW y \in chans \ {Root} PROVE parent[y] \in chans
      BY <1>4, <1>5, <3>2 DEF Mirrors, MirrorsTree, Legal, TreeLegal
    <3> QED
      BY <3>1, <3>2
  <2>2. chans \in SUBSET Channels
    BY <1>5 DEF Known
  <2>3. Upward(parent, p) \subseteq chans
    BY <1>7, <2>1, <2>2 DEF Upward
  <2> QED
    BY <1>7, <2>3
<1> QED
  BY <1>7, <1>8, <1>9 DEF ChannelMovedTold

(* A rebuilt table shows the model.                                         *)
LEMMA RebuiltTable ==
    ASSUME Rebuild, chanOrder' \in Seq(Channels), userOrder' \in Seq(Users)
    PROVE  modelItems' \in Seq(Shown) /\ TableShowsModel'
<1> DEFINE cs == chanOrder'
           us == userOrder'
           kids == children'
           in == members'
<1>1. cs \in Seq(Channels) /\ us \in Seq(Shown)
  BY SeqsShown
<1>2. modelItems' = Flattened(kids, in, cs, us)
  BY DEF Rebuild
<1> HIDE DEF cs, us, kids, in
<1>3. modelItems' \in Seq(Shown)
  BY <1>1, <1>2, FlattenedType
<1> QED
  BY <1>2, <1>3 DEF TableShowsModel, cs, us, kids, in

(* A reload, and no update at all.                                          *)
LEMMA TableReloaded ==
    ASSUME TableInv, OrdersInv, Rebuild, ReloadData, chanOrder' \in Seq(Channels),
           userOrder' \in Seq(Users), moved \subseteq moved'
    PROVE  TableInv' /\ modelItems' \in Seq(Shown) /\ raised' \in BOOLEAN
  BY RebuiltTable DEF TableInv, RowsCounted, ReloadData, OrdersInv, ViewTyped

(* Where the table stays, so must what it shows.                            *)
LEMMA TableKept ==
    ASSUME TableInv, OrdersInv, UNCHANGED table, moved \subseteq moved',
           phase' = "live" /\ Synced' =>
              phase = "live" /\ Synced /\ UNCHANGED <<children, members, orders>>
    PROVE  TableInv' /\ modelItems' \in Seq(Shown) /\ raised' \in BOOLEAN
<1>1. modelItems' = modelItems /\ rowCount' = rowCount /\ raised' = raised
  BY DEF table
<1>2. RowsCounted'
  BY <1>1 DEF TableInv, RowsCounted
<1>3. TableShowsModel'
  BY <1>1 DEF TableInv, TableShowsModel, orders
<1> QED
  BY <1>1, <1>2, <1>3 DEF TableInv, OrdersInv, ViewTyped

(* A message about a channel: the table is reloaded when it changes the     *)
(* tree.                                                                    *)
LEMMA ChannelStateKeepsView ==
    ASSUME ViewInv, ViewChannelState
    PROVE  OrdersInv' /\ TableInv'
<1> DEFINE m == Head(inbox)
           c == m.chan
<1>1. /\ phase = "live" /\ phase' = "live" /\ UNCHANGED <<people, connectedUser, userOrder>>
      /\ HandleChannelState
      /\ chanOrder' = IF c \in chans' \ chans THEN PutLast(chanOrder, c) ELSE chanOrder
      /\ IF ChannelMovedTold(m) THEN Rebuild /\ ReloadData ELSE TableUnchanged
  BY DEF ViewChannelState, HandleChannelState, Handle
<1>2. /\ chanOrder \in Seq(Channels) /\ userOrder \in Seq(Users)
      /\ \A d \in chans : Times(chanOrder, d) = 1 /\ d \in Channels
  BY DEF ViewInv, OrdersInv, ViewTyped, ChannelsOrdered, ModelInv, IInv, Typed
<1>3. moved \subseteq moved' /\ chans' = IF Ignores(m) THEN chans ELSE chans \cup {c}
  BY <1>1 DEF HandleChannelState, tree
<1>4. c \in Channels
  BY <1>1, HeadAndTail, MessageTypes DEF ViewInv, ModelInv, IInv, Typed, HandleChannelState,
     Handle, ChannelMessage
<1>5. /\ chanOrder' \in Seq(Channels)
      /\ \A d \in chans' : Times(chanOrder', d) = 1
  <2>1. CASE c \in chans' \ chans
    <3>1. PutLast(chanOrder, c) \in Seq(Channels)
      BY <1>2, <1>4, SeqsShown, PutLastStays
    <3>2. ASSUME NEW d \in chans' PROVE Times(PutLast(chanOrder, c), d) = 1
      <4>1. d \in Shown /\ c \in Shown /\ chanOrder \in Seq(Shown)
        BY <1>2, <1>3, <1>4, SeqsShown
      <4>2. Times(PutLast(chanOrder, c), d) = IF d = c THEN 1 ELSE Times(chanOrder, d)
        BY <4>1, PutLastTimes
      <4>3. d # c => d \in chans
        BY <1>3
      <4> QED
        BY <1>2, <4>2, <4>3
    <3> QED
      BY <1>1, <2>1, <3>1, <3>2
  <2>2. CASE c \notin chans' \ chans
    <3>1. chanOrder' = chanOrder /\ chans' = chans
      BY <1>1, <1>3, <2>2
    <3> QED
      BY <1>2, <3>1
  <2> QED
    BY <2>1, <2>2
<1>6. UsersOrdered' /\ OthersNowhere' /\ ChannelsOrdered'
  BY <1>1, <1>5 DEF ViewInv, OrdersInv, UsersOrdered, OthersNowhere, ChannelsOrdered, people
<1>7. userOrder' \in Seq(Users)
  BY <1>1, <1>2
<1>8. TableInv' /\ modelItems' \in Seq(Shown) /\ raised' \in BOOLEAN
  <2>1. CASE ChannelMovedTold(m)
    BY <1>1, <1>3, <1>5, <1>7, <2>1, TableReloaded DEF ViewInv
  <2>2. CASE ~ChannelMovedTold(m)
    <3>1. Synced' => Synced
      BY <1>1 DEF Synced
    <3>2. Synced => c \in chans \/ Ignores(m)
      BY <1>1, <2>2, NewChannelIsTold DEF ViewInv
    <3>3. Synced => chanOrder' = chanOrder /\ UNCHANGED children
      <4>1. CASE Ignores(m)
        BY <1>1, <1>3, <4>1 DEF HandleChannelState, tree
      <4>2. CASE c \in chans /\ ~Ignores(m)
        BY <1>1, <1>3, <4>2 DEF HandleChannelState
      <4> QED
        BY <3>2, <4>1, <4>2
    <3>4. UNCHANGED table
      BY <1>1, <2>2 DEF TableUnchanged
    <3>5. UNCHANGED members
      BY <1>1 DEF people
    <3> QED
      BY <1>1, <1>3, <3>1, <3>3, <3>4, <3>5, TableKept DEF ViewInv, orders
  <2> QED
    BY <2>1, <2>2
<1> QED
  BY <1>5, <1>6, <1>7, <1>8 DEF OrdersInv, ViewTyped

(* A removed channel: the table is reloaded.                                *)
LEMMA ChannelRemoveKeepsView ==
    ASSUME ViewInv, ViewChannelRemove
    PROVE  OrdersInv' /\ TableInv'
<1> DEFINE c == Head(inbox).chan
<1>1. /\ phase = "live" /\ phase' = "live" /\ UNCHANGED <<people, connectedUser, orders>>
      /\ HandleChannelRemove
      /\ IF Synced /\ c \in chans \ {Root} THEN Rebuild /\ ReloadData ELSE TableUnchanged
  BY DEF ViewChannelRemove, HandleChannelRemove, Handle
<1>2. chans' \subseteq chans /\ moved' = moved
  BY <1>1 DEF HandleChannelRemove, tree
<1>3. chanOrder' = chanOrder /\ userOrder' = userOrder
  BY <1>1 DEF orders
<1>4. chanOrder' \in Seq(Channels) /\ userOrder' \in Seq(Users)
  BY <1>3 DEF ViewInv, OrdersInv, ViewTyped
<1>5. UsersOrdered' /\ OthersNowhere' /\ ChannelsOrdered'
  BY <1>1, <1>2, <1>3 DEF ViewInv, OrdersInv, UsersOrdered, OthersNowhere, ChannelsOrdered, people
<1>6. TableInv' /\ modelItems' \in Seq(Shown) /\ raised' \in BOOLEAN
  <2>1. CASE Synced /\ c \in chans \ {Root}
    BY <1>1, <1>2, <1>4, <2>1, TableReloaded DEF ViewInv
  <2>2. CASE ~(Synced /\ c \in chans \ {Root})
    <3>1. Synced' => Synced
      BY <1>1 DEF Synced
    <3>2. Synced => UNCHANGED children
      BY <1>1, <2>2 DEF HandleChannelRemove, tree
    <3>3. UNCHANGED table
      BY <1>1, <2>2 DEF TableUnchanged
    <3>4. UNCHANGED members
      BY <1>1 DEF people
    <3> QED
      BY <1>1, <1>2, <3>1, <3>2, <3>3, <3>4, TableKept DEF ViewInv, orders
  <2> QED
    BY <2>1, <2>2
<1> QED
  BY <1>4, <1>5, <1>6 DEF OrdersInv, ViewTyped

(* The rows before and after a change to one user.                          *)
LEMMA UserRows ==
    ASSUME NEW kids, NEW in, NEW in2, NEW cs \in Seq(Channels), NEW us \in Seq(Users),
           NEW us2 \in Seq(Users), NEW u \in Users,
           SameOthers(in, in2, u), Without(us2, u) = Without(us, u),
           NEW rows, NEW rows2, rows = Flattened(kids, in, cs, us),
           rows2 = Flattened(kids, in2, cs, us2)
    PROVE  /\ rows \in Seq(Shown) /\ rows2 \in Seq(Shown)
           /\ Without(rows2, u) = Without(rows, u)
           /\ Len(rows) \in Nat /\ Times(rows, u) \in Nat
           /\ Times(rows2, u) \in Nat
           /\ Len(rows2) + Times(rows, u) = Len(rows) + Times(rows2, u)
<1>1. us \in Seq(Shown) /\ us2 \in Seq(Shown) /\ u \in Shown
  BY SeqsShown
<1>2. rows \in Seq(Shown) /\ rows2 \in Seq(Shown)
  BY <1>1, FlattenedType
<1>3. Without(rows2, u) = Without(rows, u)
  BY <1>1, RowsOfOthers
<1>4. /\ Len(rows) = Len(Without(rows, u)) + Times(rows, u)
      /\ Len(Without(rows, u)) \in Nat /\ Times(rows, u) \in Nat /\ Len(rows) \in Nat
  BY <1>1, <1>2, RowsAdd
<1>5. /\ Len(rows2) = Len(Without(rows2, u)) + Times(rows2, u)
      /\ Times(rows2, u) \in Nat /\ Len(rows2) \in Nat
  BY <1>1, <1>2, RowsAdd
<1> QED
  BY <1>2, <1>3, <1>4, <1>5

(* When an update raises no exception.                                      *)
LEMMA UpdateAddsUp ==
    ASSUME RowsCounted, raised \in BOOLEAN, moved' = moved, NEW deleted, NEW inserted,
           Update(deleted, inserted),
           moved = {} =>
              /\ rowCount - Len(deleted) + Len(inserted) = Len(modelItems')
              /\ \A i \in DOMAIN deleted : deleted[i] \in 1 .. rowCount
              /\ \A i \in DOMAIN inserted : inserted[i] \in 1 .. Len(modelItems')
    PROVE  RowsCounted' /\ raised' \in BOOLEAN
<1>1. raised' \in BOOLEAN /\ rowCount' = Len(modelItems')
  BY DEF Update
<1>2. moved = {} => ~raised'
  BY DEF Update, RowsCounted
<1> QED
  BY <1>1, <1>2 DEF RowsCounted

(* What a message about a user changes: nobody else.                        *)
LEMMA UserStateChanges ==
    ASSUME ModelInv, HandleUserState
    PROVE  LET u == Head(inbox).user
           IN  /\ u \in Users /\ phase = "live" /\ phase' = "live"
               /\ UNCHANGED <<tree, connectedUser>>
               /\ chanOf'[u] = chanOf[u] => UNCHANGED <<members, chanOf>>
               /\ chanOf'[u] # chanOf[u] => u \in users' /\ chanOf'[u] # None
               /\ \A x \in Users \ {u} : chanOf'[x] = chanOf[x]
               /\ users \subseteq users' /\ users' \subseteq users \cup {u}
               /\ u \in users' \/ UNCHANGED <<users, chanOf>>
               /\ SameOthers(members, members', u)
<1> DEFINE m == Head(inbox)
           u == m.user
           to == Destination(m, u \notin users)
<1>1. /\ phase = "live" /\ phase' = "live" /\ UNCHANGED <<tree, connectedUser>>
      /\ inbox # <<>> /\ m.type = "UserState"
  BY DEF HandleUserState, Handle
<1>2. u \in Users
  BY <1>1, HeadAndTail, MessageTypes DEF ModelInv, IInv, Typed, UserMessage
<1>3. /\ chanOf \in [Users -> Channels \cup {None}] /\ members \in [Channels -> SUBSET Users]
  BY DEF ModelInv, IInv, Typed
<1>4. CASE u \notin users /\ ~m.named
  <2>1. UNCHANGED people
    BY <1>4 DEF HandleUserState
  <2> QED
    BY <1>1, <1>2, <2>1 DEF people, SameOthers
<1>5. CASE ~(u \notin users /\ ~m.named)
  <2>1. /\ users' = users \cup {u}
        /\ IF to \in {None, chanOf[u]} THEN UNCHANGED <<members, chanOf>> ELSE MoveUser(u, to)
    BY <1>5 DEF HandleUserState
  <2>2. CASE to \in {None, chanOf[u]}
    BY <1>1, <1>2, <2>1, <2>2 DEF SameOthers
  <2>3. CASE to \notin {None, chanOf[u]}
    <3>1. /\ members' = [x \in Channels |->
                 IF x = to THEN members[x] \cup {u} ELSE
                 IF x = chanOf[u] THEN members[x] \ {u} ELSE members[x]]
          /\ chanOf' = [chanOf EXCEPT ![u] = to]
      BY <2>1, <2>3 DEF MoveUser
    <3>2. SameOthers(members, members', u)
      BY <3>1 DEF SameOthers
    <3>3. chanOf'[u] = to /\ \A x \in Users \ {u} : chanOf'[x] = chanOf[x]
      BY <1>2, <1>3, <3>1
    <3> HIDE DEF to
    <3> QED
      BY <1>1, <1>2, <2>1, <2>3, <3>2, <3>3
  <2> QED
    BY <2>2, <2>3
<1> QED
  BY <1>4, <1>5

(* A user who comes or moves: his row, if he had one, is deleted, and one   *)
(* inserted.                                                                *)
LEMMA UserStateKeepsView ==
    ASSUME ViewInv, Upright, Upright', ViewUserState
    PROVE  OrdersInv' /\ TableInv'
<1> DEFINE u == Head(inbox).user
<1>1. /\ u \in Users /\ phase = "live" /\ phase' = "live"
      /\ UNCHANGED <<tree, connectedUser>>
      /\ chanOf'[u] = chanOf[u] => UNCHANGED <<members, chanOf>>
      /\ chanOf'[u] # chanOf[u] => u \in users' /\ chanOf'[u] # None
      /\ \A x \in Users \ {u} : chanOf'[x] = chanOf[x]
      /\ users \subseteq users' /\ users' \subseteq users \cup {u}
      /\ u \in users' \/ UNCHANGED <<users, chanOf>>
      /\ SameOthers(members, members', u)
  BY UserStateChanges DEF ViewInv, ViewUserState
<1>2. IF chanOf'[u] = chanOf[u] THEN UNCHANGED viewVars
      ELSE /\ userOrder' = PutLast(userOrder, u) /\ UNCHANGED chanOrder
           /\ IF Synced THEN /\ Rebuild
                             /\ Update(DeletedRows(u), <<IndexOf(modelItems', u)>>)
              ELSE TableUnchanged
  BY DEF ViewUserState
<1> HIDE DEF u
<1>3. /\ chanOrder \in Seq(Channels) /\ userOrder \in Seq(Users)
      /\ \A x \in Users : chanOf[x] # None => Times(userOrder, x) = 1
      /\ raised \in BOOLEAN /\ modelItems \in Seq(Shown)
  BY DEF ViewInv, OrdersInv, ViewTyped, UsersOrdered
<1>4. OthersNowhere'
  BY <1>1 DEF ViewInv, OrdersInv, OthersNowhere
<1>5. /\ chans' = chans /\ children' = children /\ moved' = moved
      /\ Synced' = Synced
  BY <1>1 DEF tree, Synced
<1>6. CASE chanOf'[u] = chanOf[u]
  <2>1. UNCHANGED <<orders, table>> /\ UNCHANGED <<members, chanOf>>
    BY <1>1, <1>2, <1>6 DEF viewVars
  <2>2. chanOrder' = chanOrder /\ userOrder' = userOrder
    BY <2>1 DEF orders
  <2>3. TableInv' /\ modelItems' \in Seq(Shown) /\ raised' \in BOOLEAN
    BY <1>1, <1>5, <2>1, TableKept DEF ViewInv
  <2>4. ChannelsOrdered' /\ UsersOrdered'
    BY <1>5, <2>1, <2>2 DEF ViewInv, OrdersInv, ChannelsOrdered, UsersOrdered
  <2> QED
    BY <1>3, <1>4, <2>2, <2>3, <2>4 DEF OrdersInv, ViewTyped
<1>7. CASE chanOf'[u] # chanOf[u]
  <2>1. userOrder' = PutLast(userOrder, u) /\ chanOrder' = chanOrder
    BY <1>2, <1>7
  <2>2. userOrder' \in Seq(Users) /\ chanOrder' \in Seq(Channels)
    BY <1>1, <1>3, <2>1, SeqsShown, PutLastStays
  <2>3. userOrder \in Seq(Shown) /\ u \in Shown
    BY <1>1, <1>3, SeqsShown
  <2>4. ASSUME NEW x \in Users, chanOf'[x] # None PROVE Times(userOrder', x) = 1
    <3>1. Times(PutLast(userOrder, u), x) = IF x = u THEN 1 ELSE Times(userOrder, x)
      BY <2>3, SeqsShown, PutLastTimes
    <3> QED
      BY <1>1, <1>3, <2>1, <2>4, <3>1
  <2>5. ChannelsOrdered' /\ UsersOrdered'
    BY <1>5, <2>1, <2>4 DEF ViewInv, OrdersInv, ChannelsOrdered, UsersOrdered
  <2>6. CASE ~Synced
    <3>1. UNCHANGED table
      BY <1>2, <1>7, <2>6 DEF TableUnchanged
    <3>2. TableInv' /\ modelItems' \in Seq(Shown) /\ raised' \in BOOLEAN
      BY <1>1, <1>5, <2>6, <3>1, TableKept DEF ViewInv
    <3> QED
      BY <1>4, <2>2, <2>5, <3>2 DEF OrdersInv, ViewTyped
  <2>7. CASE Synced
    <3>1. Rebuild /\ Update(DeletedRows(u), <<IndexOf(modelItems', u)>>)
      BY <1>2, <1>7, <2>7
    <3>2. modelItems' \in Seq(Shown) /\ TableShowsModel'
      BY <2>2, <3>1, RebuiltTable
    <3> DEFINE old == modelItems
               new == modelItems'
    <3>3. /\ old = Flattened(children, members, chanOrder, userOrder)
          /\ new = Flattened(children, members', chanOrder, userOrder')
      BY <1>1, <1>5, <2>1, <2>7, <3>1 DEF ViewInv, TableInv, TableShowsModel, Rebuild
    <3>4. Without(userOrder', u) = Without(userOrder, u)
      BY <2>1, <2>3, WithoutIsWithout
    <3> HIDE DEF old, new
    <3>5. /\ Len(old) \in Nat /\ Times(old, u) \in Nat /\ Times(new, u) \in Nat
          /\ Len(new) + Times(old, u) = Len(old) + Times(new, u)
          /\ old \in Seq(Shown) /\ new \in Seq(Shown)
      <4> DEFINE us2 == userOrder'
                 in2 == members'
      <4>1. us2 \in Seq(Users) /\ SameOthers(members, in2, u) /\ Without(us2, u) = Without(userOrder, u)
        BY <1>1, <2>2, <3>4
      <4>2. new = Flattened(children, in2, chanOrder, us2)
        BY <3>3
      <4>3. u \in Users /\ chanOrder \in Seq(Channels) /\ userOrder \in Seq(Users)
        BY <1>1, <1>3
      <4>4. old = Flattened(children, members, chanOrder, userOrder)
        BY <3>3
      <4> HIDE DEF us2, in2
      <4> QED
        BY <4>1, <4>2, <4>3, <4>4, UserRows
    <3>6. OrdersInv'
      <4>1. raised' \in BOOLEAN
        BY <3>1 DEF Update
      <4> QED
        BY <1>4, <2>2, <2>5, <3>2, <4>1 DEF OrdersInv, ViewTyped
    <3>7. ASSUME moved = {}
          PROVE  /\ Times(new, u) = 1
                 /\ Times(old, u) = IF chanOf[u] = None THEN 0 ELSE 1
      <4>1. EachHasRow /\ EachHasRow'
        BY <3>6, EachHasRowNow, EachHasRowNext DEF ViewInv
      <4>2. Times(new, u) = 1
        BY <1>1, <1>5, <1>7, <2>1, <3>3, <3>7, <4>1 DEF EachHasRow
      <4>3. chanOf[u] # None => Times(old, u) = 1
        BY <1>1, <3>3, <3>7, <4>1 DEF EachHasRow
      <4>4. ASSUME chanOf[u] = None PROVE Times(old, u) = 0
        <5>1. \A x \in Channels : u \notin members[x]
          BY <1>1, <4>4, ConstAssumption DEF ViewInv, ModelInv, Membership, MembershipAgrees
        <5>2. userOrder \in Seq(Shown)
          BY <2>3
        <5> QED
          BY <1>1, <1>3, <3>3, <5>1, <5>2, NoRow
      <4> QED
        BY <4>2, <4>3, <4>4
    <3>8. ASSUME moved = {}
          PROVE  /\ rowCount - Len(DeletedRows(u)) + Len(<<IndexOf(new, u)>>) = Len(new)
                 /\ \A i \in DOMAIN DeletedRows(u) : DeletedRows(u)[i] \in 1 .. rowCount
                 /\ \A i \in DOMAIN <<IndexOf(new, u)>> : <<IndexOf(new, u)>>[i] \in 1 .. Len(new)
      <4>1. rowCount = Len(old)
        BY DEF ViewInv, TableInv, RowsCounted, old
      <4>2. IndexOf(new, u) \in 1 .. Len(new)
        BY <2>3, <3>5, <3>7, <3>8, IndexIsRow
      <4>3. \A i \in DOMAIN <<IndexOf(new, u)>> : <<IndexOf(new, u)>>[i] \in 1 .. Len(new)
        BY <4>2
      <4>4. CASE chanOf[u] = None
        <5>1. DeletedRows(u) = <<>>
          BY <4>4 DEF DeletedRows
        <5> QED
          BY <3>5, <3>7, <3>8, <4>1, <4>3, <4>4, <5>1
      <4>5. CASE chanOf[u] # None
        <5>1. DeletedRows(u) = <<IndexOf(old, u)>>
          BY <4>5 DEF DeletedRows, old
        <5>2. IndexOf(old, u) \in 1 .. Len(old)
          BY <2>3, <3>5, <3>7, <3>8, <4>5, IndexIsRow
        <5> QED
          BY <3>5, <3>7, <3>8, <4>1, <4>3, <4>5, <5>1, <5>2
      <4> QED
        BY <4>4, <4>5
    <3>9. RowsCounted'
      BY <1>3, <1>5, <3>1, <3>8, UpdateAddsUp DEF new, ViewInv, TableInv
    <3> QED
      BY <3>2, <3>6, <3>9 DEF TableInv
  <2> QED
    BY <2>6, <2>7
<1> QED
  BY <1>6, <1>7

(* What a removed user changes: nobody else.                                *)
LEMMA UserRemoveChanges ==
    ASSUME ModelInv, OthersNowhere, HandleUserRemove
    PROVE  LET u == Head(inbox).user
           IN  /\ u \in Users /\ phase = "live" /\ phase' = "live"
               /\ UNCHANGED <<tree, connectedUser>>
               /\ chanOf'[u] = None
               /\ \A x \in Users \ {u} : chanOf'[x] = chanOf[x]
               /\ users' = users \ {u}
               /\ SameOthers(members, members', u)
               /\ \A c \in Channels : u \notin members'[c]
<1> DEFINE m == Head(inbox)
           u == m.user
<1>1. /\ phase = "live" /\ phase' = "live" /\ UNCHANGED <<tree, connectedUser>>
      /\ inbox # <<>> /\ m.type = "UserRemove"
  BY DEF HandleUserRemove, Handle
<1>2. u \in Users
  BY <1>1, HeadAndTail, MessageTypes DEF ModelInv, IInv, Typed, LeftMessage
<1>3. /\ chanOf \in [Users -> Channels \cup {None}] /\ members \in [Channels -> SUBSET Users]
      /\ \A c \in Channels : u \in members[c] <=> chanOf[u] = c
  BY <1>2 DEF ModelInv, IInv, Typed, Membership, MembershipAgrees
<1>4. CASE u \notin users
  <2>1. UNCHANGED people /\ chanOf[u] = None
    BY <1>1, <1>2, <1>4 DEF HandleUserRemove, OthersNowhere
  <2>2. \A c \in Channels : u \notin members[c]
    BY <1>3, <2>1, ConstAssumption
  <2> QED
    BY <1>1, <1>2, <1>4, <2>1, <2>2 DEF people, SameOthers
<1>5. CASE u \in users
  <2>1. /\ members' = [x \in Channels |-> IF x = chanOf[u] THEN members[x] \ {u} ELSE members[x]]
        /\ chanOf' = [chanOf EXCEPT ![u] = None]
        /\ users' = users \ {u}
    BY <1>5 DEF HandleUserRemove
  <2>2. SameOthers(members, members', u) /\ \A c \in Channels : u \notin members'[c]
    BY <1>3, <2>1 DEF SameOthers
  <2>3. chanOf'[u] = None /\ \A x \in Users \ {u} : chanOf'[x] = chanOf[x]
    BY <1>2, <1>3, <2>1
  <2> QED
    BY <1>1, <1>2, <2>1, <2>2, <2>3
<1> QED
  BY <1>4, <1>5

(* A user who leaves: his row is deleted, if he has one.                    *)
LEMMA UserRemoveKeepsView ==
    ASSUME ViewInv, Upright, ViewUserRemove
    PROVE  OrdersInv' /\ TableInv'
<1> DEFINE u == Head(inbox).user
<1>1. /\ u \in Users /\ phase = "live" /\ phase' = "live"
      /\ UNCHANGED <<tree, connectedUser>>
      /\ chanOf'[u] = None
      /\ \A x \in Users \ {u} : chanOf'[x] = chanOf[x]
      /\ users' = users \ {u}
      /\ SameOthers(members, members', u)
      /\ \A c \in Channels : u \notin members'[c]
  BY UserRemoveChanges DEF ViewInv, OrdersInv, ViewUserRemove
<1>2. /\ userOrder' = Without(userOrder, u) /\ chanOrder' = chanOrder
      /\ IF Synced /\ IndexOf(modelItems, u) # 0
         THEN Rebuild /\ Update(<<IndexOf(modelItems, u)>>, <<>>)
         ELSE TableUnchanged
  BY DEF ViewUserRemove
<1> HIDE DEF u
<1>3. /\ chanOrder \in Seq(Channels) /\ userOrder \in Seq(Users)
      /\ \A x \in Users : chanOf[x] # None => Times(userOrder, x) = 1
      /\ raised \in BOOLEAN /\ modelItems \in Seq(Shown)
  BY DEF ViewInv, OrdersInv, ViewTyped, UsersOrdered
<1>4. OthersNowhere'
  BY <1>1 DEF ViewInv, OrdersInv, OthersNowhere
<1>5. /\ chans' = chans /\ children' = children /\ moved' = moved
      /\ Synced' = Synced
  BY <1>1 DEF tree, Synced
<1>6. userOrder' \in Seq(Users) /\ chanOrder' \in Seq(Channels)
  BY <1>1, <1>2, <1>3, SeqsShown, PutLastStays
<1>7. userOrder \in Seq(Shown) /\ u \in Shown
  BY <1>1, <1>3, SeqsShown
<1>8. ASSUME NEW x \in Users, chanOf'[x] # None PROVE Times(userOrder', x) = 1
  <2>1. x # u /\ x \in Shown \ {u}
    BY <1>1, <1>8, SeqsShown
  <2>2. Times(Without(userOrder, u), x) = Times(userOrder, x)
    BY <1>7, <2>1, WithoutIsWithout
  <2> QED
    BY <1>1, <1>2, <1>3, <1>8, <2>1, <2>2
<1>9. ChannelsOrdered' /\ UsersOrdered'
  BY <1>2, <1>5, <1>8 DEF ViewInv, OrdersInv, ChannelsOrdered, UsersOrdered
<1> DEFINE old == modelItems
           new == Flattened(children, members', chanOrder, userOrder')
<1>10. CASE ~Synced
  <2>1. UNCHANGED table
    BY <1>2, <1>10 DEF TableUnchanged
  <2>2. TableInv' /\ modelItems' \in Seq(Shown) /\ raised' \in BOOLEAN
    BY <1>1, <1>5, <1>10, <2>1, TableKept DEF ViewInv
  <2> QED
    BY <1>4, <1>6, <1>9, <2>2 DEF OrdersInv, ViewTyped
<1>11. CASE Synced
  <2>1. old = Flattened(children, members, chanOrder, userOrder)
    BY <1>1, <1>11 DEF ViewInv, TableInv, TableShowsModel
  <2>2. Without(userOrder', u) = Without(userOrder, u)
    BY <1>2, <1>7, WithoutIsWithout
  <2> HIDE DEF old, new
  <2>3. /\ Len(old) \in Nat /\ Times(old, u) \in Nat
        /\ Len(new) + Times(old, u) = Len(old) + Times(new, u)
        /\ Without(new, u) = Without(old, u)
        /\ old \in Seq(Shown) /\ new \in Seq(Shown)
        /\ Times(new, u) = 0
    <3> DEFINE us2 == userOrder'
               in2 == members'
    <3>1. us2 \in Seq(Users) /\ SameOthers(members, in2, u) /\ Without(us2, u) = Without(userOrder, u)
      BY <1>1, <1>6, <2>2
    <3>2. us2 \in Seq(Shown) /\ \A c \in Channels : u \notin in2[c]
      BY <1>1, <1>6, SeqsShown
    <3>3. new = Flattened(children, in2, chanOrder, us2)
      BY DEF new
    <3> HIDE DEF us2, in2
    <3>4. Times(new, u) = 0
      BY <1>1, <1>3, <3>2, <3>3, NoRow
    <3>5. u \in Users /\ chanOrder \in Seq(Channels) /\ userOrder \in Seq(Users)
      BY <1>1, <1>3
    <3>6. /\ Len(old) \in Nat /\ Times(old, u) \in Nat
          /\ Len(new) + Times(old, u) = Len(old) + Times(new, u)
          /\ Without(new, u) = Without(old, u)
          /\ old \in Seq(Shown) /\ new \in Seq(Shown)
      BY <2>1, <3>1, <3>3, <3>5, UserRows
    <3> QED
      BY <3>4, <3>6
  <2>4. CASE IndexOf(modelItems, u) = 0
    <3>1. Times(old, u) = 0 /\ Without(old, u) = old
      <4>1. IndexOf(old, u) \notin 1 .. Len(old)
        BY <2>3, <2>4 DEF old
      <4> QED
        BY <1>7, <2>3, <4>1, IndexIsRow
    <3>2. Without(new, u) = new
      BY <1>7, <2>3, IndexIsRow
    <3>3. new = old
      BY <2>3, <3>1, <3>2
    <3>4. modelItems' = modelItems /\ rowCount' = rowCount /\ raised' = raised
      BY <1>2, <2>4 DEF TableUnchanged, table
    <3>5. TableShowsModel'
      BY <1>2, <1>5, <3>3, <3>4 DEF TableShowsModel, new, old
    <3>6. RowsCounted'
      BY <1>5, <3>4 DEF ViewInv, TableInv, RowsCounted
    <3> QED
      BY <1>3, <1>4, <1>6, <1>9, <3>4, <3>5, <3>6 DEF OrdersInv, ViewTyped, TableInv
  <2>5. CASE IndexOf(modelItems, u) # 0
    <3>1. Rebuild /\ Update(<<IndexOf(modelItems, u)>>, <<>>)
      BY <1>2, <1>11, <2>5
    <3>2. modelItems' \in Seq(Shown) /\ TableShowsModel'
      BY <1>6, <3>1, RebuiltTable
    <3>3. modelItems' = new
      BY <1>2, <1>5, <3>1 DEF Rebuild, new
    <3>4. IndexOf(old, u) \in 1 .. Len(old) /\ Times(old, u) # 0
      BY <1>7, <2>3, <2>5, IndexIsRow DEF old
    <3>5. ASSUME moved = {} PROVE Times(old, u) = 1
      <4>1. EachHasRow
        BY EachHasRowNow DEF ViewInv
      <4>2. chanOf[u] # None
        <5>1. ASSUME chanOf[u] = None PROVE FALSE
          <6>1. \A x \in Channels : u \notin members[x]
            BY <1>1, <5>1, ConstAssumption DEF ViewInv, ModelInv, Membership, MembershipAgrees
          <6>2. Times(old, u) = 0
            BY <1>1, <1>3, <1>7, <2>1, <6>1, NoRow
          <6> QED
            BY <3>4, <6>2
        <5> QED
          BY <5>1
      <4> QED
        BY <1>1, <2>1, <3>5, <4>1, <4>2 DEF EachHasRow
    <3>6. ASSUME moved = {}
          PROVE  /\ rowCount - Len(<<IndexOf(old, u)>>) + Len(<<>>) = Len(new)
                 /\ \A i \in DOMAIN <<IndexOf(old, u)>> : <<IndexOf(old, u)>>[i] \in 1 .. rowCount
                 /\ \A i \in DOMAIN <<>> : <<>>[i] \in 1 .. Len(new)
      <4>1. rowCount = Len(old)
        BY DEF ViewInv, TableInv, RowsCounted, old
      <4> QED
        BY <2>3, <3>4, <3>5, <3>6, <4>1
    <3>7. RowsCounted' /\ raised' \in BOOLEAN
      BY <1>3, <1>5, <3>1, <3>3, <3>6, UpdateAddsUp DEF old, ViewInv, TableInv
    <3> QED
      BY <1>4, <1>6, <1>9, <3>2, <3>7 DEF OrdersInv, ViewTyped, TableInv
  <2> QED
    BY <2>4, <2>5
<1> QED
  BY <1>10, <1>11

(* The server is joined: the table is reloaded.                             *)
LEMMA ServerSyncKeepsView ==
    ASSUME ViewInv, ViewServerSync
    PROVE  OrdersInv' /\ TableInv'
<1>1. /\ UNCHANGED <<tree, people, orders>> /\ phase = "live" /\ phase' = "live"
      /\ Rebuild /\ ReloadData
  BY DEF ViewServerSync, HandleServerSync, Handle
<1>2. chanOrder' = chanOrder /\ userOrder' = userOrder /\ chans' = chans /\ moved' = moved
  BY <1>1 DEF orders, tree
<1>3. chanOrder' \in Seq(Channels) /\ userOrder' \in Seq(Users)
  BY <1>2 DEF ViewInv, OrdersInv, ViewTyped
<1>4. ChannelsOrdered' /\ UsersOrdered' /\ OthersNowhere'
  BY <1>1, <1>2 DEF ViewInv, OrdersInv, UsersOrdered, OthersNowhere, ChannelsOrdered, people
<1>5. TableInv' /\ modelItems' \in Seq(Shown) /\ raised' \in BOOLEAN
  BY <1>1, <1>2, <1>3, TableReloaded DEF ViewInv
<1> QED
  BY <1>3, <1>4, <1>5 DEF OrdersInv, ViewTyped

(* The view appears: the table is reloaded.                                 *)
LEMMA AppearKeepsView ==
    ASSUME ViewInv, ViewWillAppear
    PROVE  OrdersInv' /\ TableInv'
<1>1. UNCHANGED <<vars, orders>> /\ Rebuild /\ ReloadData
  BY DEF ViewWillAppear
<1>2. /\ chanOrder' = chanOrder /\ userOrder' = userOrder
      /\ UNCHANGED <<phase, chans, moved, users, chanOf>>
  BY <1>1 DEF vars, orders, tree, people
<1>3. chanOrder' \in Seq(Channels) /\ userOrder' \in Seq(Users)
  BY <1>2 DEF ViewInv, OrdersInv, ViewTyped
<1>4. ChannelsOrdered' /\ UsersOrdered' /\ OthersNowhere'
  BY <1>2 DEF ViewInv, OrdersInv, UsersOrdered, OthersNowhere, ChannelsOrdered
<1>5. TableInv' /\ modelItems' \in Seq(Shown) /\ raised' \in BOOLEAN
  BY <1>1, <1>2, <1>3, TableReloaded DEF ViewInv
<1> QED
  BY <1>3, <1>4, <1>5 DEF OrdersInv, ViewTyped

(* Steps that neither the arrays nor the table take part in.                *)
LEMMA OtherStepsKeepView ==
    ASSUME ViewInv, UNCHANGED <<orders, table>>,
           \/ UNCHANGED <<phase, tree, people, connectedUser>>
           \/ Dealloc
           \/ RemoveAllChannels
    PROVE  OrdersInv' /\ TableInv'
<1>1. chanOrder' = chanOrder /\ userOrder' = userOrder
  BY DEF orders
<1>2. /\ chanOrder' \in Seq(Channels) /\ userOrder' \in Seq(Users)
      /\ \A c \in chans : Times(chanOrder, c) = 1
      /\ \A u \in Users : chanOf[u] # None => Times(userOrder, u) = 1
  BY <1>1 DEF ViewInv, OrdersInv, ViewTyped, ChannelsOrdered, UsersOrdered
<1>3. /\ moved' = moved /\ chans' \subseteq chans
      /\ \A u \in Users : chanOf'[u] # None => chanOf[u] # None
      /\ phase' = "live" => UNCHANGED <<phase, tree, people, connectedUser>>
  <2>1. CASE UNCHANGED <<phase, tree, people, connectedUser>>
    BY <2>1 DEF tree, people
  <2>2. CASE Dealloc
    BY <2>2 DEF Dealloc, tree
  <2>3. CASE RemoveAllChannels
    <3>1. CASE EndPass
      BY <3>1 DEF EndPass, people, ViewInv, ModelInv, IInv, NothingPending
    <3>2. ASSUME NEW c \in Channels, VisitChannel(c)
          PROVE  /\ moved' = moved /\ chans' \subseteq chans
                 /\ chanOf' = chanOf /\ phase' # "live"
      BY <3>2 DEF VisitChannel, people
    <3> QED
      BY <2>3, <3>1, <3>2 DEF RemoveAllChannels
  <2> QED
    BY <2>1, <2>2, <2>3
<1>4. ChannelsOrdered' /\ UsersOrdered'
  BY <1>1, <1>2, <1>3 DEF ChannelsOrdered, UsersOrdered
<1>5. OthersNowhere'
  BY <1>3 DEF ViewInv, OrdersInv, OthersNowhere, people
<1>6. TableInv' /\ modelItems' \in Seq(Shown) /\ raised' \in BOOLEAN
  <2>1. phase' = "live" /\ Synced' =>
           phase = "live" /\ Synced /\ UNCHANGED <<children, members, orders>>
    BY <1>1, <1>3 DEF tree, people, Synced, orders
  <2> QED
    BY <1>3, <2>1, TableKept DEF ViewInv
<1> QED
  BY <1>2, <1>4, <1>5, <1>6 DEF OrdersInv, ViewTyped

(* At first there is the root, and no table.                                *)
LEMMA ViewInitTable == ViewInit => OrdersInv /\ TableInv
<1> SUFFICES ASSUME ViewInit PROVE OrdersInv /\ TableInv
  OBVIOUS
<1>1. /\ chanOrder = <<Root>> /\ userOrder = <<>> /\ modelItems = <<>> /\ rowCount = 0
      /\ raised = FALSE /\ chans = {Root} /\ connectedUser = None
      /\ chanOf = [u \in Users |-> None]
  BY DEF ViewInit, Init
<1>2. ViewTyped
  <2>1. <<Root>> \in Seq(Channels) /\ <<>> \in Seq(Users) /\ <<>> \in Seq(Shown)
    BY ConstAssumption, EmptySeq
  <2> QED
    BY <1>1, <2>1 DEF ViewTyped
<1>3. Times(<<Root>>, Root) = 1
  <2>1. Root \in Shown
    BY ConstAssumption DEF Shown
  <2>2. Chosen(<<Root>>, {Root}) = <<Root>>
    BY <2>1, ChosenSingle
  <2> QED
    BY <2>2 DEF Times
<1>4. ChannelsOrdered /\ UsersOrdered /\ OthersNowhere
  BY <1>1, <1>3 DEF ChannelsOrdered, UsersOrdered, OthersNowhere
<1>5. TableShowsModel /\ RowsCounted
  BY <1>1, EmptySeq DEF TableShowsModel, RowsCounted, Synced
<1> QED
  BY <1>2, <1>4, <1>5 DEF OrdersInv, TableInv

(* Every step keeps the invariant.                                          *)
LEMMA StepKeepsView ==
    ASSUME ViewInv, Upright, Upright', [ViewNext]_allVars
    PROVE  ViewInv'
<1>1. ModelInv'
  BY ViewStepIsModelStep, NextKeepsModel, GrantKeepsModel DEF ViewInv
<1>2. CASE ViewHandleMessage
  BY <1>1, <1>2, ChannelStateKeepsView, ChannelRemoveKeepsView, UserStateKeepsView,
     UserRemoveKeepsView, ServerSyncKeepsView DEF ViewHandleMessage, ViewInv
<1>3. CASE ViewWillAppear
  BY <1>1, <1>3, AppearKeepsView DEF ViewInv
<1>4. CASE ServerGrants
  <2>1. UNCHANGED <<orders, table>> /\ UNCHANGED <<phase, tree, people, connectedUser>>
    BY <1>4 DEF ServerGrants
  <2> QED
    BY <1>1, <2>1, OtherStepsKeepView DEF ViewInv
<1>5. CASE ServerStep /\ UNCHANGED viewVars
  <2>1. UNCHANGED <<orders, table>> /\ UNCHANGED <<phase, tree, people, connectedUser>>
    BY <1>5 DEF ServerStep, viewVars
  <2> QED
    BY <1>1, <2>1, OtherStepsKeepView DEF ViewInv
<1>6. CASE (Dealloc \/ RemoveAllChannels) /\ UNCHANGED viewVars
  <2>1. UNCHANGED <<orders, table>>
    BY <1>6 DEF viewVars
  <2> QED
    BY <1>1, <1>6, <2>1, OtherStepsKeepView DEF ViewInv
<1>7. CASE UNCHANGED allVars
  <2>1. UNCHANGED <<orders, table>> /\ UNCHANGED <<phase, tree, people, connectedUser>>
    BY <1>7 DEF allVars, viewVars, vars
  <2> QED
    BY <1>1, <2>1, OtherStepsKeepView DEF ViewInv
<1> QED
  BY <1>2, <1>3, <1>4, <1>5, <1>6, <1>7 DEF ViewNext

(* The inductive invariant: the model is as it should be, the arrays have   *)
(* every channel and every user who is somewhere once, and the table, which *)
(* shows the model, counts its rows right.                                  *)
THEOREM ViewInvariance == ViewSpec => []ViewInv
<1>1. ViewInit => ViewInv
  BY ViewInitModel, ViewInitTable DEF ViewInv
<1>2. ViewSpec => []Upright
  BY ModelInvariance, ModelIsUpright, PTL
<1>3. ViewInv /\ Upright /\ Upright' /\ [ViewNext]_allVars => ViewInv'
  BY StepKeepsView
<1> QED
  BY <1>1, <1>2, <1>3, PTL DEF ViewSpec

(* While the model lives and the server is joined the table shows the       *)
(* model: there is no change of the tree, of the order of its arrays or of  *)
(* who is where that the delegate methods do not hear of or do not heed.    *)
THEOREM TableAlwaysShowsModel == ViewSpec => []TableShowsModel
<1>1. ViewInv => TableShowsModel
  BY DEF ViewInv, TableInv
<1> QED
  BY ViewInvariance, <1>1, PTL

(* UITableView never raises before a channel is moved: the rows that        *)
(* serverModel:userMoved: and serverModel:userLeft: delete and insert are   *)
(* there, and are as many as the table grows or shrinks by.                 *)
THEOREM UpdatesAlwaysAddUp == ViewSpec => []UpdatesAddUp
<1>1. ViewInv => UpdatesAddUp
  BY DEF ViewInv, TableInv, RowsCounted, UpdatesAddUp
<1> QED
  BY ViewInvariance, <1>1, PTL

(* Before a channel is moved, the table shows every channel and every user  *)
(* of the model on one row, and nobody who left.                            *)
EachShownOnce ==
    phase = "live" /\ Synced /\ moved = {} =>
        /\ \A c \in chans : Times(modelItems, c) = 1
        /\ \A u \in Users : Times(modelItems, u) = IF u \in users THEN 1 ELSE 0

THEOREM EachAlwaysShownOnce == ViewSpec => []EachShownOnce
<1>3. ASSUME ViewInv, Upright, phase = "live", Synced, moved = {}, NEW c \in chans
      PROVE  Times(modelItems, c) = 1
  <2>1. modelItems = Flattened(children, members, chanOrder, userOrder)
    BY <1>3 DEF ViewInv, TableInv, TableShowsModel
  <2>2. chans \subseteq Reached(children)
    BY <1>3 DEF Upright, TreeInv, RootReachesAll, Downward, Reached
  <2>3. /\ parent[Root] = None /\ \A d \in Channels \ chans : parent[d] = None
        /\ \A d, p \in Channels : d \in children[p] <=> parent[d] = p
        /\ \A p \in Channels : children[p] \subseteq Channels
    BY <1>3 DEF Upright, TreeInv, RootHasNoParent, NoParents, TreeAgrees, Typed
  <2>4. /\ chanOrder \in Seq(Channels) /\ userOrder \in Seq(Users)
        /\ \A d \in chans : Times(chanOrder, d) = 1
    BY <1>3 DEF ViewInv, OrdersInv, ViewTyped, ChannelsOrdered
  <2>5. Rooted(children, parent)
    BY <2>3 DEF Rooted
  <2>6. c \in Channels /\ c \in Reached(children)
    BY <1>3, <2>2 DEF Reached
  <2>7. Owned(userOrder, members, c, c)
    BY <2>4, <2>6, ChannelOwned
  <2>8. userOrder \in Seq(Shown)
    BY <2>4, SeqsShown
  <2>9. \A d \in Channels : parent[d] # None => Times(chanOrder, d) = 1
    BY <2>3, <2>4
  <2> QED
    BY <2>1, <2>4, <2>5, <2>6, <2>7, <2>8, <2>9, OneRow
<1>4. ASSUME ViewInv, Upright, phase = "live", Synced, moved = {}, NEW u \in Users
      PROVE  Times(modelItems, u) = IF u \in users THEN 1 ELSE 0
  <2> USE <1>4
  <2>1. modelItems = Flattened(children, members, chanOrder, userOrder)
    BY DEF ViewInv, TableInv, TableShowsModel
  <2>2. CASE u \in users
    <3>1. chanOf[u] # None
      BY <2>2, ConstAssumption DEF Upright, UsersReside, Typed
    <3>2. EachHasRow
      BY EachHasRowNow DEF ViewInv
    <3> QED
      BY <2>1, <2>2, <3>1, <3>2 DEF EachHasRow
  <2>3. CASE u \notin users
    <3>1. chanOf[u] = None
      BY <2>3 DEF ViewInv, OrdersInv, OthersNowhere
    <3>2. \A x \in Channels : u \notin members[x]
      BY <3>1, ConstAssumption DEF Upright, Membership, MembershipAgrees
    <3>3. chanOrder \in Seq(Channels) /\ userOrder \in Seq(Shown)
      BY SeqsShown DEF ViewInv, OrdersInv, ViewTyped
    <3>4. Times(Flattened(children, members, chanOrder, userOrder), u) = 0
      BY <3>2, <3>3, NoRow
    <3> QED
      BY <2>1, <2>3, <3>4
  <2> QED
    BY <2>2, <2>3
<1>1. ViewInv /\ Upright => EachShownOnce
  BY <1>3, <1>4 DEF EachShownOnce
<1>2. ViewSpec => []Upright
  BY ModelInvariance, ModelIsUpright, PTL
<1> QED
  BY ViewInvariance, <1>1, <1>2, PTL
================================================================================
