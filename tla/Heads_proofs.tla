---------------------------- MODULE Heads_proofs ----------------------------
(***************************************************************************)
(* Proofs about the reading of answers, for every set of answers and every *)
(* size of the buffers.                                                    *)
(*                                                                         *)
(* HeadInv says of an answer half read what the bytes so far and the lines *)
(* of the head make of it, wherever the reads have cut it; HoweverCut is   *)
(* what is left of that at the end.  Under it stand the two sums that are  *)
(* done step by step in the code: the length, digit by digit, and the end  *)
(* of the head, looked for in the whole buffer after each read.            *)
(***************************************************************************)
EXTENDS Heads, SequenceTheorems, NaturalLemmas

(* The number a text writes, digit by digit, and what the code makes of it *)
LEMMA ValueByDigits ==
  ASSUME NEW text \in Seq(0..NonDigit)
  PROVE  \E v \in [0..Len(text) -> Nat] :
           /\ Value(text) = v[Len(text)] /\ v[0] = 0
           /\ \A i \in 1..Len(text) : v[i] = v[i - 1] * 10 + text[i]
<1> DEFINE n == Len(text)
           F == [i \in Nat |-> [x \in Nat |-> IF i \in 1..n THEN x * 10 + text[i] ELSE 0]]
           v == CHOOSE g : g = [i \in 0..n |-> IF i = 0 THEN 0 ELSE g[i - 1] * 10 + text[i]]
<1>1. n \in Nat /\ \A i \in 1..n : text[i] \in 0..10
  BY LenProperties, ElementOfSeq DEF NonDigit
<1>2. PICK f : Computes(f, Nat, 0, F, n)
  <2>1. IsStep(F, Nat) /\ 0 \in Nat
    BY <1>1, SMT DEF IsStep
  <2> DEFINE S == Nat
  <2>2. IsStep(F, S) /\ 0 \in S /\ n \in Nat
    BY <1>1, <2>1
  <2> HIDE DEF F, n, S
  <2>3. \E f : Computes(f, S, 0, F, n)
    BY <2>2, Recursion
  <2>4. QED
    BY <2>3 DEF S
<1>3. f \in [0..n -> Nat] /\ f[0] = 0 /\ \A i \in 1..n : f[i] = f[i - 1] * 10 + text[i]
  <2>1. f \in [0..n -> Nat] /\ f[0] = 0 /\ \A i \in 1..n : f[i] = F[i][f[i - 1]]
    BY <1>2 DEF Computes
  <2>2. ASSUME NEW i \in 1..n
        PROVE  F[i][f[i - 1]] = f[i - 1] * 10 + text[i]
    <3>1. i \in Nat /\ i - 1 \in 0..n
      BY <1>1, SMT
    <3>2. f[i - 1] \in Nat
      BY <2>1, <3>1
    <3>3. QED
      BY <3>1, <3>2
  <2>3. QED
    BY <2>1, <2>2
<1>4. f = [i \in 0..n |-> IF i = 0 THEN 0 ELSE f[i - 1] * 10 + text[i]]
  <2>1. ASSUME NEW i \in 0..n
        PROVE  f[i] = IF i = 0 THEN 0 ELSE f[i - 1] * 10 + text[i]
    BY <1>1, <1>3, SMT
  <2>2. QED
    BY <1>3, <2>1
<1>5. v = [i \in 0..n |-> IF i = 0 THEN 0 ELSE v[i - 1] * 10 + text[i]]
  BY <1>4
<1>6. Value(text) = v[n]
  BY DEF Value
<1>7. v[0] = 0 /\ \A i \in 1..n : v[i] = v[i - 1] * 10 + text[i]
  <2> HIDE DEF v
  <2>1. v[0] = 0
    BY <1>1, <1>5, SMT
  <2>2. ASSUME NEW i \in 1..n
        PROVE  v[i] = v[i - 1] * 10 + text[i]
    <3>1. i \in 0..n /\ i # 0
      BY <1>1, SMT
    <3>2. QED
      BY <1>5, <3>1
  <2>3. QED
    BY <2>1, <2>2
<1> HIDE DEF v
<1>8. \A i \in 0..n : v[i] \in Nat
  <2> DEFINE T == {i \in Nat : i <= n => v[i] \in Nat}
  <2>1. 0 \in T
    BY <1>7
  <2>2. ASSUME NEW i \in T
        PROVE  i + 1 \in T
    <3>1. CASE i + 1 <= n
      <4>1. i + 1 \in 1..n /\ (i + 1) - 1 = i /\ v[i] \in Nat
        BY <1>1, <3>1, SMT
      <4>2. v[i + 1] = v[i] * 10 + text[i + 1] /\ text[i + 1] \in Nat
        BY <1>1, <1>7, <4>1, SMT
      <4>3. QED
        BY <4>1, <4>2, SMT
    <3>2. CASE ~(i + 1 <= n)
      BY <3>2, SMT
    <3>3. QED
      BY <3>1, <3>2
  <2>3. T = Nat
    <3> HIDE DEF T
    <3>1. T \in SUBSET Nat
      BY DEF T
    <3>2. QED
      BY <2>1, <2>2, <3>1, Induction
  <2>4. QED
    BY <1>1, <2>3, SMT
<1>9. v \in [0..n -> Nat]
  BY <1>5, <1>8
<1>10. QED
  BY <1>6, <1>7, <1>9

(* The test for a multiplication that would wrap, and the one it stands for *)
LEMMA NoWrap ==
  ASSUME NEW n \in Nat, NEW d \in 0..9, NEW max \in Nat, max >= 9
  PROVE  n > (max - d) \div 10 <=> n * 10 + d > max
BY SMT

(* The loop over the digits of a Content-Length works their number out, or
   refuses it when it is none or does not fit: the test that keeps the
   multiplication from wrapping fails no number that fits. *)
LEMMA DigitsExact ==
  ASSUME NEW text \in Seq(0..NonDigit), HeadAssumption
  PROVE  /\ Value(text) \in Nat
         /\ Digits(text) =
              IF (\A i \in DOMAIN text : text[i] # NonDigit) /\ Value(text) <= SIZE_MAX
              THEN Value(text) ELSE Refusal
<1> DEFINE n == Len(text)
<1>1. n \in Nat /\ DOMAIN text = 1..n /\ \A i \in 1..n : text[i] \in 0..10
  BY LenProperties, ElementOfSeq DEF NonDigit
<1>2. PICK v \in [0..n -> Nat] : /\ Value(text) = v[n] /\ v[0] = 0
                                 /\ \A i \in 1..n : v[i] = v[i - 1] * 10 + text[i]
  BY ValueByDigits
<1> HIDE DEF n
<1> DEFINE Fits(i) == (\A j \in 1..i : text[j] # 10) /\ v[i] <= SIZE_MAX
           f == [i \in 0..n |-> IF Fits(i) THEN v[i] ELSE -2]
<1>3. f[0] = 0
  BY <1>1, <1>2, HeadAssumption, SMT DEF HeadAssumption
<1>4. ASSUME NEW i \in 1..n
      PROVE  f[i] = Digit(f[i - 1], text[i])
  <2>1. /\ i \in Nat /\ i - 1 \in 0..n /\ i \in 0..n
        /\ v[i] \in Nat /\ v[i - 1] \in Nat /\ text[i] \in 0..10
        /\ v[i] = v[i - 1] * 10 + text[i] /\ SIZE_MAX \in Nat /\ SIZE_MAX >= 9
    BY <1>1, <1>2, HeadAssumption, SMT DEF HeadAssumption
  <2>2. (\A j \in 1..i : text[j] # 10) <=> (\A j \in 1..(i - 1) : text[j] # 10) /\ text[i] # 10
    BY <1>1, <2>1, SMT
  <2>3. f[i] = (IF Fits(i) THEN v[i] ELSE -2) /\ f[i - 1] = (IF Fits(i - 1) THEN v[i - 1] ELSE -2)
    BY <2>1
  <2>4. CASE ~(\A j \in 1..(i - 1) : text[j] # 10)
    BY <2>1, <2>2, <2>3, <2>4, SMT DEF Digit, Refusal, NonDigit
  <2>5. CASE (\A j \in 1..(i - 1) : text[j] # 10) /\ text[i] = 10
    BY <2>1, <2>2, <2>3, <2>5, SMT DEF Digit, Refusal, NonDigit
  <2>6. CASE (\A j \in 1..(i - 1) : text[j] # 10) /\ text[i] # 10
    <3>1. Fits(i) <=> v[i] <= SIZE_MAX
      BY <2>2, <2>6
    <3>2. Fits(i - 1) <=> v[i - 1] <= SIZE_MAX
      BY <2>6
    <3>3. v[i - 1] > (SIZE_MAX - text[i]) \div 10 <=> v[i] > SIZE_MAX
      <4>1. text[i] \in 0..9
        BY <2>1, <2>6, SMT
      <4> HIDE DEF f, Fits
      <4>2. QED
        BY <2>1, <4>1, NoWrap
    <3>4. v[i - 1] <= v[i]
      <4> DEFINE x == v[i - 1]
                 y == v[i]
                 z == text[i]
      <4>1. x \in Nat /\ y \in Nat /\ z \in Nat /\ y = x * 10 + z
        BY <2>1, SMT
      <4> HIDE DEF x, y, z, f, Fits
      <4>2. x <= y
        BY <4>1, SMT
      <4>3. QED
        BY <4>2 DEF x, y
    <3> HIDE DEF f, Fits
    <3>5. QED
      BY <2>1, <2>3, <2>6, <3>1, <3>2, <3>3, <3>4, SMT DEF Digit, Refusal, NonDigit
  <2>7. QED
    BY <2>4, <2>5, <2>6
<1> DEFINE d == CHOOSE g : g = [i \in 0..n |-> IF i = 0 THEN 0 ELSE Digit(g[i - 1], text[i])]
<1>5. d = [i \in 0..n |-> IF i = 0 THEN 0 ELSE Digit(d[i - 1], text[i])]
  <2>1. ASSUME NEW i \in 0..n
        PROVE  f[i] = IF i = 0 THEN 0 ELSE Digit(f[i - 1], text[i])
    <3> HIDE DEF f
    <3>1. QED
      BY <1>1, <1>3, <1>4, SMT
  <2>2. f = [i \in 0..n |-> IF i = 0 THEN 0 ELSE Digit(f[i - 1], text[i])]
    BY <2>1
  <2>3. QED
    BY <2>2
<1>6. Digits(text) = d[n]
  BY DEF Digits, n
<1>7. \A i \in 0..n : d[i] = f[i]
  <2> HIDE DEF d, f
  <2> DEFINE T == {i \in Nat : i <= n => d[i] = f[i]}
  <2>1. 0 \in T
    BY <1>1, <1>3, <1>5, SMT
  <2>2. ASSUME NEW i \in T
        PROVE  i + 1 \in T
    <3>1. CASE i + 1 <= n
      <4>1. i + 1 \in 1..n /\ i + 1 \in 0..n /\ (i + 1) - 1 = i /\ i + 1 # 0 /\ d[i] = f[i]
        BY <1>1, <3>1, SMT
      <4>2. d[i + 1] = Digit(d[i], text[i + 1])
        BY <1>5, <4>1
      <4>3. f[i + 1] = Digit(f[i], text[i + 1])
        BY <1>4, <4>1
      <4>4. QED
        BY <4>1, <4>2, <4>3
    <3>2. CASE ~(i + 1 <= n)
      BY <3>2, SMT
    <3>3. QED
      BY <3>1, <3>2
  <2>3. T = Nat
    <3> HIDE DEF T
    <3>1. T \in SUBSET Nat
      BY DEF T
    <3>2. QED
      BY <2>1, <2>2, <3>1, Induction
  <2>4. QED
    BY <1>1, <2>3, SMT
<1> HIDE DEF d
<1>8. d[n] = f[n] /\ f[n] = (IF Fits(n) THEN v[n] ELSE -2) /\ v[n] \in Nat
  <2>1. n \in 0..n
    BY <1>1, SMT
  <2> HIDE DEF Fits
  <2>2. QED
    BY <1>2, <1>7, <2>1
<1> HIDE DEF f
<1>9. Fits(n) <=> (\A i \in DOMAIN text : text[i] # NonDigit) /\ Value(text) <= SIZE_MAX
  BY <1>1, <1>2 DEF NonDigit
<1>10. QED
  BY <1>2, <1>6, <1>8, <1>9 DEF Refusal
-----------------------------------------------------------------------------
Bytes == {"x", "r", "n"}

(* A blank line's last byte is the one at i of s; the first blank line among
   the first n bytes ends at e, or there is none and e is 0 *)
Ends(s, i) == \A j \in 1..4 : s[i - 4 + j] = Blank[j]

IsEnd(s, n, e) ==
  \/ e = 0 /\ \A i \in 4..n : ~Ends(s, i)
  \/ e \in 4..n /\ Ends(s, e) /\ \A i \in 4..n : Ends(s, i) => e <= i

EndAt(s, n) ==
  LET ends == {i \in 4..n : \A j \in 1..4 : s[i - 4 + j] = Blank[j]}
  IN IF ends = {} THEN 0 ELSE Min(ends)

(* EndAt says of the first n bytes what HeadEnd says of the whole answer. *)
LEMMA EndAtIsEnd ==
  ASSUME NEW s \in Seq(Bytes), NEW n \in 0..Len(s)
  PROVE  IsEnd(s, n, EndAt(s, n))
<1> DEFINE ends == {i \in 4..n : Ends(s, i)}
<1>1. EndAt(s, n) = IF ends = {} THEN 0 ELSE Min(ends)
  BY DEF EndAt, Ends
<1>2. CASE ends = {}
  BY <1>1, <1>2 DEF IsEnd
<1>3. CASE ends # {}
  <2>1. ends \in SUBSET Nat
    BY SMT
  <2>2. Min(ends) \in ends /\ \A i \in ends : Min(ends) <= i
    <3> HIDE DEF ends
    <3>1. QED
      BY <1>3, <2>1, MinOfNat
  <2>3. QED
    BY <1>1, <1>3, <2>2 DEF IsEnd
<1>4. QED
  BY <1>2, <1>3

(* The first blank line stays the first when more bytes come. *)
LEMMA EndStays ==
  ASSUME NEW s, NEW n \in Nat, NEW m \in Nat, n <= m, NEW e \in Nat, NEW f \in Nat,
         IsEnd(s, n, e), IsEnd(s, m, f)
  PROVE  (e # 0 => f = e) /\ (e = 0 => f = 0 \/ f > n) /\ e <= n
BY SMT DEF IsEnd

(* The search of the buffer finds the first blank line there is in it. *)
LEMMA SeparatorIsEnd ==
  ASSUME NEW read, NEW n \in Nat, stream \in Seq(Bytes), n <= Len(stream)
  PROVE  /\ Separator(read, n) \in Nat
         /\ IsEnd(stream, n, IF Separator(read, n) = 0 THEN 0 ELSE Separator(read, n) + 3)
<1> DEFINE hay == SubSeq(stream, 1, n)
           places == {i \in 1..(Len(hay) - Len(Blank) + 1) :
                        SubSeq(hay, i, i + Len(Blank) - 1) = Blank}
<1>1. /\ hay \in Seq(Bytes) /\ Len(hay) = n
      /\ \A i \in 1..n : hay[i] = stream[i]
  BY SubSeqProperties, LenProperties, SMT
<1>2. Len(Blank) = 4 /\ Blank \in Seq(Bytes)
  BY DEF Blank, Bytes
<1> HIDE DEF hay
<1>3. ASSUME NEW i \in 1..(n - 3)
      PROVE  SubSeq(hay, i, i + 3) = Blank <=> Ends(stream, i + 3)
  <2> DEFINE piece == SubSeq(hay, i, i + 3)
  <2>1. piece \in Seq(Bytes) /\ Len(piece) = 4 /\ \A j \in 1..4 : piece[j] = hay[i + j - 1]
    BY <1>1, SubSeqProperties, SMT
  <2>2. \A j \in 1..4 : piece[j] = stream[(i + 3) - 4 + j]
    <3> HIDE DEF piece
    <3>1. QED
      BY <1>1, <2>1, SMT
  <2> HIDE DEF piece
  <2>3. piece = Blank <=> \A j \in 1..4 : piece[j] = Blank[j]
    BY <1>2, <2>1, SeqEqual
  <2>4. QED
    BY <2>2, <2>3 DEF Ends, piece
<1>4. places = {i \in 1..(n - 3) : Ends(stream, i + 3)}
  <2>1. 1..(Len(hay) - Len(Blank) + 1) = 1..(n - 3)
    BY <1>1, <1>2, SMT
  <2>2. \A i \in 1..(n - 3) : i + Len(Blank) - 1 = i + 3
    BY <1>2, SMT
  <2>3. QED
    BY <1>3, <2>1, <2>2
<1>5. Separator(read, n) = IF places = {} THEN 0 ELSE Min(places)
  BY DEF Separator, MemFind, hay
<1> HIDE DEF places
<1>6. CASE places = {}
  <2>1. \A i \in 4..n : ~Ends(stream, i)
    <3> SUFFICES ASSUME NEW i \in 4..n, Ends(stream, i)
                 PROVE  FALSE
      OBVIOUS
    <3>1. i - 3 \in 1..(n - 3) /\ (i - 3) + 3 = i
      BY SMT
    <3>2. QED
      BY <1>4, <1>6, <3>1
  <2>2. QED
    BY <1>5, <1>6, <2>1 DEF IsEnd
<1>7. CASE places # {}
  <2>1. places \in SUBSET Nat
    BY <1>4, SMT
  <2>2. PICK p \in places : p = Min(places) /\ \A i \in places : p <= i
    BY <1>7, <2>1, MinOfNat
  <2>3. p \in 1..(n - 3) /\ Ends(stream, p + 3)
    BY <1>4
  <2>4. \A i \in 4..n : Ends(stream, i) => p + 3 <= i
    <3> SUFFICES ASSUME NEW i \in 4..n, Ends(stream, i)
                 PROVE  p + 3 <= i
      OBVIOUS
    <3>1. i - 3 \in 1..(n - 3) /\ (i - 3) + 3 = i
      BY SMT
    <3>2. i - 3 \in places
      BY <1>4, <3>1
    <3>3. QED
      BY <2>2, <2>3, <3>2, SMT
  <2>5. Separator(read, n) = p /\ p # 0 /\ p + 3 \in 4..n /\ p \in Nat
    BY <1>5, <1>7, <2>2, <2>3, SMT
  <2>6. QED
    BY <2>3, <2>4, <2>5 DEF IsEnd
<1>8. QED
  BY <1>6, <1>7
-----------------------------------------------------------------------------
Replies ==
  [ret : {"head", "body", "failed", "cut", "done", "redirect"}, want : Int,
   sunk : Seq(Nat), keep : BOOLEAN]

(* The places of the first n bytes of a body whose head ends at e *)
BodyAt(e, n) == [i \in 1..n |-> e + i]

(* A body and the bytes after it are a body. *)
LEMMA BodyGrows ==
  ASSUME NEW e \in Nat, NEW n \in Nat, NEW m \in Nat
  PROVE  /\ BodyAt(e, n) \in Seq(Nat) /\ Len(BodyAt(e, n)) = n
         /\ BodyAt(e, n) \o [i \in 1..m |-> (e + n) + i] = BodyAt(e, n + m)
<1> DEFINE s == BodyAt(e, n)
           t == [i \in 1..m |-> (e + n) + i]
           u == BodyAt(e, n + m)
<1>1. s \in Seq(Nat) /\ Len(s) = n /\ \A i \in 1..n : s[i] = e + i
  BY IsASeq, SMT DEF BodyAt
<1>2. t \in Seq(Nat) /\ Len(t) = m /\ \A i \in 1..m : t[i] = (e + n) + i
  BY IsASeq, SMT
<1>3. u \in Seq(Nat) /\ Len(u) = n + m /\ \A i \in 1..(n + m) : u[i] = e + i
  BY IsASeq, SMT DEF BodyAt
<1> HIDE DEF s, t, u
<1>4. /\ s \o t \in Seq(Nat) /\ Len(s \o t) = n + m
      /\ \A i \in 1..(n + m) : (s \o t)[i] = IF i <= n THEN s[i] ELSE t[i - n]
  BY <1>1, <1>2, ConcatProperties
<1>5. \A i \in 1..(n + m) : (s \o t)[i] = u[i]
  <2> SUFFICES ASSUME NEW i \in 1..(n + m)
               PROVE  (s \o t)[i] = u[i]
    OBVIOUS
  <2>1. CASE i <= n
    BY <1>1, <1>3, <1>4, <2>1, SMT
  <2>2. CASE ~(i <= n)
    <3>1. i - n \in 1..m
      BY <2>2, SMT
    <3>2. (s \o t)[i] = t[i - n] /\ t[i - n] = (e + n) + (i - n) /\ u[i] = e + i
      BY <1>2, <1>3, <1>4, <2>2, <3>1
    <3>3. (e + n) + (i - n) = e + i
      BY SMT
    <3>4. QED
      BY <3>2, <3>3
  <2>3. QED
    BY <2>1, <2>2
<1>6. s \o t = u
  BY <1>3, <1>4, <1>5, SeqEqual
<1>7. QED
  BY <1>1, <1>6 DEF s, t, u

(* An answer a that wants more than the p bytes read have brought it *)
Growing(a, e, p) ==
  /\ a \in Replies /\ a.ret = "body" /\ a.sunk = BodyAt(e, p - e)
  /\ a.want \in Nat \cup {NoWant}
  /\ a.want # NoWant => p - e <= a.want

(* The same when n more have come: b *)
Taken(a, e, p, n, b) ==
  /\ n = 0 => b = a
  /\ b \in Replies /\ b.want = a.want /\ (b.keep => a.keep)
  /\ \/ /\ b.ret = "body" /\ b.sunk = BodyAt(e, (p + n) - e)
        /\ n > 0 /\ a.want # NoWant => (p + n) - e < a.want
     \/ /\ b.ret = "done" /\ n > 0 /\ a.want # NoWant /\ (p + n) - e >= a.want
        /\ b.sunk = BodyAt(e, a.want)
        /\ b.keep => (p + n) - e = a.want

(* n bytes behind the place p: the body so far grows by them, or by what its
   length still asks for, and is done when it has that. *)
LEMMA PieceTakes ==
  ASSUME NEW a, NEW e \in Nat, NEW p \in Nat, e <= p, NEW n \in Nat, Growing(a, e, p)
  PROVE  Taken(a, e, p, n, Piece(a, p, n))
<1> USE DEF Growing
<1> SUFFICES LET b == Piece(a, p, n)
             IN /\ n = 0 => b = a
                /\ b \in Replies /\ b.want = a.want /\ (b.keep => a.keep)
                /\ \/ /\ b.ret = "body" /\ b.sunk = BodyAt(e, (p + n) - e)
                      /\ n > 0 /\ a.want # NoWant => (p + n) - e < a.want
                   \/ /\ b.ret = "done" /\ n > 0 /\ a.want # NoWant /\ (p + n) - e >= a.want
                      /\ b.sunk = BodyAt(e, a.want)
                      /\ b.keep => (p + n) - e = a.want
  BY DEF Taken
<1> DEFINE m == p - e
           left == a.want - Len(a.sunk)
           given == IF a.want # NoWant /\ n > left THEN left ELSE n
           sunk == a.sunk \o [i \in 1..given |-> p + i]
           keep == Undisturbed(a, given, n)
           ret == IF a.want # NoWant /\ Len(sunk) >= a.want THEN "done" ELSE "body"
           b == [ret |-> ret, want |-> a.want, sunk |-> sunk, keep |-> keep]
<1>1. m \in Nat /\ p = e + m /\ (a.want # NoWant => m <= a.want /\ a.want \in Nat)
  BY SMT DEF NoWant
<1>2. Len(a.sunk) = m
  <2> HIDE DEF m
  <2>1. QED
    BY <1>1, BodyGrows DEF m
<1>3. given \in Nat /\ (a.want # NoWant => given = (IF n > a.want - m THEN a.want - m ELSE n))
      /\ (a.want = NoWant => given = n)
  <2> HIDE DEF m
  <2>1. QED
    BY <1>1, <1>2, SMT
<1> HIDE DEF given
<1>4. sunk = BodyAt(e, m + given) /\ sunk \in Seq(Nat) /\ Len(sunk) = m + given
  <2>1. a.sunk = BodyAt(e, m)
    OBVIOUS
  <2> HIDE DEF m
  <2>2. /\ BodyAt(e, m) \o [i \in 1..given |-> (e + m) + i] = BodyAt(e, m + given)
        /\ m + given \in Nat
    <3>1. m \in Nat /\ given \in Nat
      BY <1>1, <1>3
    <3>2. m + given \in Nat
      BY <3>1, SMT
    <3>3. QED
      BY <3>1, <3>2, BodyGrows, Zenon
  <2>3. BodyAt(e, m + given) \in Seq(Nat) /\ Len(BodyAt(e, m + given)) = m + given
    BY <2>2, BodyGrows
  <2>4. QED
    BY <1>1, <2>1, <2>2, <2>3
<1> HIDE DEF sunk
<1>5. keep \in BOOLEAN /\ (keep => a.keep /\ given = n)
  BY DEF Undisturbed, Replies
<1> HIDE DEF keep
<1>6. ret \in {"body", "done"} /\ (ret = "done" <=> a.want # NoWant /\ m + given >= a.want)
  BY <1>4
<1> HIDE DEF ret
<1>7. b \in Replies /\ b.sunk = sunk /\ b.keep = keep /\ b.ret = ret /\ b.want = a.want
  BY <1>4, <1>5, <1>6 DEF Replies
<1> HIDE DEF b
<1>8. Piece(a, p, n) = IF n = 0 THEN a ELSE b
  BY DEF Piece, b, ret, keep, sunk, given, left
<1>9. CASE n = 0
  <2>1. Piece(a, p, n) = a /\ (p + n) - e = p - e
    BY <1>8, <1>9, SMT
  <2>2. QED
    BY <1>9, <2>1, SMT
<1>10. CASE n # 0
  <2>1. Piece(a, p, n) = b /\ n > 0
    BY <1>8, <1>10, SMT
  <2>2. (p + n) - e = m + n
    BY <1>1, SMT
  <2>3. CASE ret = "done"
    <3>1. a.want # NoWant /\ m + n >= a.want /\ m + given = a.want
      BY <1>1, <1>3, <1>6, <2>3, SMT
    <3>2. b.keep => m + n = a.want
      BY <1>5, <1>7, <3>1
    <3> HIDE DEF m
    <3>3. QED
      BY <1>4, <1>5, <1>7, <1>10, <2>1, <2>2, <2>3, <3>1, <3>2, Zenon
  <2>4. CASE ret = "body"
    <3>1. given = n /\ (a.want # NoWant => m + n < a.want)
      BY <1>1, <1>3, <1>6, <2>4, SMT
    <3> HIDE DEF m
    <3>2. QED
      BY <1>4, <1>5, <1>7, <1>10, <2>1, <2>2, <2>4, <3>1, Zenon
  <2>5. QED
    BY <1>6, <2>3, <2>4
<1>11. QED
  BY <1>9, <1>10
-----------------------------------------------------------------------------
(* The length, where there is one, is one number that fits. *)
Numbered == said.lengths = <<>> \/ (Len(said.lengths) = 1 /\ IsNumber(said.lengths[1]))

(* A head that ends at e is taken. *)
Good(e) ==
  /\ e \in HEAD_LEAST..HEAD_MAX
  /\ said.status \notin {"bad", "interim"} /\ HeadClean(SubSeq(stream, 1, e))
  /\ Numbered

(* What the request has made, in r, of the p bytes read, whose head ends at e:
   nothing while there is no blank line, the body up to here while more of it
   may come, and what HoweverCut and KeptIsDrained say once it is over *)
Holds(r, e, p) ==
  /\ r.ret = "head" => r = NoAnswer /\ p < HEAD_MAX /\ e = 0
  /\ r.ret = "body" =>
       /\ Good(e) /\ ~LedOn /\ ~said.chunked /\ r.want = Announced
       /\ r.sunk = BodyAt(e, p - e)
       /\ r.want # NoWant => p - e < r.want
       /\ r.keep => said.lengths # <<>>
  /\ r.ret \in {"failed", "cut", "done", "redirect"} =>
       IF ~Good(e) \/ (said.chunked /\ ~LedOn) THEN r.ret = "failed" /\ r.sunk = <<>>
       ELSE IF LedOn THEN /\ r.ret = (IF said.location = "good" THEN "redirect" ELSE "failed")
                          /\ r.sunk = <<>>
       ELSE IF Announced = NoWant
       THEN r.ret \in {"cut", "done"} /\ r.sunk = BodyAt(e, p - e)
       ELSE IF p - e >= Announced
       THEN r.ret = "done" /\ r.sunk = BodyAt(e, Announced)
       ELSE r.ret = "cut" /\ r.sunk = BodyAt(e, p - e)
  /\ r.ret = "done" /\ r.keep =>
       p = e + r.want \/ (e + r.want = HEAD_MAX /\ r.want > 0)

HeadInv ==
  /\ <<stream, said>> \in Answers /\ at \in 0..Len(stream) /\ answer \in Replies
  /\ Holds(answer, HeadEnd, at)

(* An answer is bytes, and lines that say something. *)
LEMMA Sent ==
  ASSUME <<stream, said>> \in Answers
  PROVE  /\ stream \in Seq(Bytes) /\ Len(stream) \in Nat /\ said \in Sayings
         /\ \A n \in 0..Len(stream) : IsEnd(stream, n, EndAt(stream, n)) /\ EndAt(stream, n) \in 0..n
<1>1. stream \in Seq(Bytes) /\ said \in Sayings
  BY HeadAssumption DEF HeadAssumption, Bytes
<1>2. Len(stream) \in Nat
  BY <1>1, LenProperties
<1>3. ASSUME NEW n \in 0..Len(stream)
      PROVE  IsEnd(stream, n, EndAt(stream, n)) /\ EndAt(stream, n) \in 0..n
  <2>1. IsEnd(stream, n, EndAt(stream, n))
    BY <1>1, EndAtIsEnd
  <2>2. QED
    BY <1>2, <2>1, SMT DEF IsEnd
<1>4. QED
  BY <1>1, <1>2, <1>3

(* At the end the invariant is what the properties say. *)
LEMMA Implied == HeadInv => HoweverCut /\ KeptIsDrained
<1> SUFFICES ASSUME HeadInv
             PROVE  HoweverCut /\ KeptIsDrained
  OBVIOUS
<1>1. Holds(answer, HeadEnd, at)
  BY DEF HeadInv
<1>2. GoodHead <=> Good(HeadEnd)
  BY DEF GoodHead, Good, Numbered
<1>3. \A n : Body(n) = BodyAt(HeadEnd, n)
  BY DEF Body, BodyAt
<1>4. HoweverCut
  BY <1>1, <1>2, <1>3 DEF HoweverCut, Holds, Over
<1>5. KeptIsDrained
  BY <1>1 DEF KeptIsDrained, Holds
<1>6. QED
  BY <1>4, <1>5

(* The bytes and what the lines say stay, so what the invariant says of a
   next answer can be said of this state. *)
LEMMA Carried ==
  ASSUME HeadInv, UNCHANGED <<stream, said>>, at' \in 0..Len(stream), answer' \in Replies,
         Holds(answer', EndAt(stream, at'), at')
  PROVE  HeadInv'
<1>1. HeadEnd' = EndAt(stream, at')
  BY DEF HeadEnd, EndAt
<1>2. /\ LedOn' <=> LedOn
      /\ Announced' = Announced
      /\ \A e : Good(e)' <=> Good(e)
  BY DEF LedOn, Announced, Good, Numbered, Bodiless
<1>3. Holds(answer', EndAt(stream, at'), at') => Holds(answer, HeadEnd, at)'
  BY <1>1, <1>2 DEF Holds
<1>4. QED
  BY <1>3 DEF HeadInv

(* The Content-Length as the code reads it *)
LEMMA LengthRead ==
  ASSUME said \in Sayings
  PROVE  /\ ContentLength = Refusal <=> ~Numbered
         /\ Numbered => /\ ContentLength = (IF said.lengths = <<>> THEN NoWant
                                            ELSE Value(said.lengths[1]))
                        /\ said.lengths # <<>> => ContentLength \in Nat
<1>1. /\ said.lengths \in Seq(Seq(0..NonDigit))
      /\ Len(said.lengths) > 1 => Len(said.lengths) # 1
      /\ said.lengths # <<>> /\ ~(Len(said.lengths) > 1) => Len(said.lengths) = 1
  <2>1. PICK texts : texts = said.lengths /\ texts \in Seq(Seq(0..NonDigit))
    BY DEF Sayings
  <2>2. PICK n \in Nat : n = Len(texts)
    BY <2>1, LenProperties
  <2>3. texts # <<>> => n # 0
    BY <2>1, <2>2, EmptySeq
  <2>4. (n > 1 => n # 1) /\ (n # 0 /\ ~(n > 1) => n = 1)
    BY SMT
  <2>5. QED
    BY <2>1, <2>2, <2>3, <2>4, Zenon
<1>2. CASE said.lengths = <<>>
  BY <1>2, SMT DEF ContentLength, Numbered, NoWant, Refusal
<1>3. CASE said.lengths # <<>> /\ Len(said.lengths) > 1
  <2>1. Len(said.lengths) # 1
    BY <1>1, <1>3, Zenon
  <2>2. QED
    BY <1>3, <2>1 DEF ContentLength, Numbered
<1>4. CASE said.lengths # <<>> /\ ~(Len(said.lengths) > 1)
  <2>1. Len(said.lengths) = 1
    BY <1>1, <1>4, Zenon
  <2>2. PICK text : text = said.lengths[1] /\ text \in Seq(0..NonDigit)
    BY <1>1, <2>1, ElementOfSeq, SMT
  <2>3. ContentLength = IF text = <<>> THEN Refusal ELSE Digits(text)
    BY <1>4, <2>1, <2>2 DEF ContentLength
  <2>4. /\ Value(text) \in Nat
        /\ Digits(text) =
             IF (\A i \in DOMAIN text : text[i] # NonDigit) /\ Value(text) <= SIZE_MAX
             THEN Value(text) ELSE Refusal
    BY <2>2, DigitsExact, HeadAssumption
  <2>5. Numbered <=> IsNumber(text)
    BY <1>4, <2>1, <2>2 DEF Numbered
  <2>6. QED
    BY <1>4, <2>2, <2>3, <2>4, <2>5, SMT DEF IsNumber, Refusal
<1>5. QED
  BY <1>2, <1>3, <1>4

(* What the code makes of a head that ends at e *)
LEMMA HeadJudged ==
  ASSUME <<stream, said>> \in Answers, NEW e \in 4..Len(stream), e <= HEAD_MAX
  PROVE  LET a == Begun(SubSeq(stream, 1, e))
         IN /\ a \in Replies /\ a.sunk = <<>>
            /\ \/ (~Good(e) \/ (said.chunked /\ ~LedOn)) /\ a.ret = "failed"
               \/ /\ Good(e) /\ LedOn
                  /\ a.ret = (IF said.location = "good" THEN "redirect" ELSE "failed")
               \/ /\ Good(e) /\ ~LedOn /\ ~said.chunked /\ a.ret = "body"
                  /\ a.want = Announced /\ Announced \in Nat \cup {NoWant}
                  /\ a.keep => said.lengths # <<>>
<1> DEFINE head == SubSeq(stream, 1, e)
           a == Begun(head)
<1>1. Len(head) = e
  <2>1. stream \in Seq(Bytes) /\ Len(stream) \in Nat
    BY Sent
  <2>2. QED
    BY <2>1, SubSeqProperties, SMT
<1>2. said \in Sayings
  BY Sent
<1>3. Good(e) <=> ~BadHead(head) /\ ContentLength # Refusal
  <2>1. e \in HEAD_LEAST..HEAD_MAX <=> ~(e < HEAD_LEAST)
    <3>1. HEAD_LEAST \in Nat /\ HEAD_MAX \in Nat /\ Len(stream) \in Nat
      BY HeadAssumption, Sent DEF HeadAssumption
    <3>2. QED
      BY <3>1, SMT
  <2>2. Numbered <=> ContentLength # Refusal
    BY <1>2, LengthRead
  <2>3. QED
    BY <1>1, <2>1, <2>2, Zenon DEF Good, BadHead
<1> HIDE DEF head
<1>4. NoAnswer \in Replies /\ NoAnswer.sunk = <<>>
  BY DEF NoAnswer, Replies, NoWant
<1>5. CASE ~Good(e)
  <2>1. a = [NoAnswer EXCEPT !.ret = "failed"]
    BY <1>3, <1>5 DEF Begun
  <2>2. QED
    BY <1>4, <1>5, <2>1 DEF head, Replies
<1>6. CASE Good(e) /\ LedOn
  <2>1. a = [NoAnswer EXCEPT !.ret = IF said.location = "good" THEN "redirect" ELSE "failed"]
    BY <1>3, <1>6 DEF Begun
  <2>2. QED
    BY <1>4, <1>6, <2>1 DEF head, Replies
<1>7. CASE Good(e) /\ ~LedOn /\ said.chunked
  <2>1. a = [NoAnswer EXCEPT !.ret = "failed"]
    BY <1>3, <1>7 DEF Begun
  <2>2. QED
    BY <1>4, <1>7, <2>1 DEF head, Replies
<1>8. CASE Good(e) /\ ~LedOn /\ ~said.chunked
  <2> DEFINE want == IF Bodiless THEN 0 ELSE ContentLength
             keep == said.lengths # <<>> /\ said.persistent
  <2>1. a = [ret |-> "body", want |-> want, sunk |-> <<>>, keep |-> keep]
    BY <1>3, <1>8 DEF Begun
  <2>2. want = Announced /\ want \in Nat \cup {NoWant}
    <3>1. Numbered
      BY <1>8 DEF Good
    <3>2. QED
      BY <1>2, <3>1, LengthRead DEF Announced
  <2>3. keep \in BOOLEAN /\ (keep => said.lengths # <<>>)
    OBVIOUS
  <2> HIDE DEF want, keep
  <2>4. a \in Replies /\ a.sunk = <<>> /\ a.ret = "body" /\ a.want = want /\ a.keep = keep
    <3>1. <<>> \in Seq(Nat) /\ want \in Int
      BY <2>2, SMT DEF NoWant
    <3>2. QED
      BY <2>1, <2>3, <3>1 DEF Replies
  <2>5. QED
    BY <1>8, <2>2, <2>3, <2>4 DEF head
<1>9. QED
  BY <1>5, <1>6, <1>7, <1>8

(* A read that ends the head, or does not *)
LEMMA HeadReadHolds ==
  ASSUME HeadInv, NEW k \in 1..REQUEST_BUF, at + k <= Len(stream), ReadHead(k)
  PROVE  answer' \in Replies /\ Holds(answer', EndAt(stream, at + k), at + k)
<1> DEFINE p == at + k
           e == EndAt(stream, p)
           full == Min({p, HEAD_MAX})
           sep == Separator(at, full)
           end == sep + 3
<1>1. /\ <<stream, said>> \in Answers /\ stream \in Seq(Bytes) /\ Len(stream) \in Nat
      /\ at \in Nat /\ k \in Nat \ {0} /\ p \in Nat /\ p \in 0..Len(stream)
      /\ HEAD_MAX \in Nat /\ HEAD_LEAST \in Nat \ {0}
  BY HeadAssumption, Sent, SMT DEF HeadInv, HeadAssumption
<1>2. answer = NoAnswer
  BY DEF ReadHead, HeadInv, Holds
<1>3. full = (IF p <= HEAD_MAX THEN p ELSE HEAD_MAX) /\ full \in Nat /\ full <= p
      /\ full <= HEAD_MAX
  <2>1. PICK m \in {p, HEAD_MAX} : m = full /\ m <= p /\ m <= HEAD_MAX
    <3>1. {p, HEAD_MAX} \in SUBSET Nat /\ {p, HEAD_MAX} # {}
      BY <1>1
    <3>2. QED
      BY <3>1, MinOfNat
  <2>2. QED
    BY <1>1, <2>1, SMT
<1>4. IsEnd(stream, p, e) /\ e \in 0..p
  BY <1>1, Sent
<1> HIDE DEF p, e, full
<1>5. sep \in Nat /\ IsEnd(stream, full, IF sep = 0 THEN 0 ELSE end)
  <2>1. full <= Len(stream)
    BY <1>1, <1>3, SMT
  <2>2. QED
    BY <1>1, <1>3, <2>1, SeparatorIsEnd
<1> HIDE DEF sep
<1>6. CASE sep = 0
  <2>1. answer' = [answer EXCEPT !.ret = IF full = HEAD_MAX THEN "failed" ELSE "head"]
    BY <1>6 DEF ReadHead, full, sep, p
  <2>2. e = 0 \/ e > full
    <3>1. e \in Nat /\ IsEnd(stream, full, 0)
      BY <1>1, <1>4, <1>5, <1>6, SMT
    <3>2. QED
      BY <1>1, <1>3, <1>4, <3>1, EndStays
  <2>3. CASE full = HEAD_MAX
    <3>1. answer' \in Replies /\ answer'.ret = "failed" /\ answer'.sunk = <<>>
      <4>1. answer' = [NoAnswer EXCEPT !.ret = "failed"]
        BY <1>2, <2>1, <2>3
      <4>2. NoAnswer \in Replies /\ NoAnswer.sunk = <<>>
        BY DEF NoAnswer, Replies, NoWant
      <4>3. QED
        BY <4>1, <4>2 DEF Replies
    <3>2. ~Good(e)
      BY <1>1, <1>4, <2>2, <2>3, SMT DEF Good
    <3>3. QED
      BY <3>1, <3>2 DEF Holds, e, p
  <2>4. CASE full # HEAD_MAX
    <3>1. answer' = NoAnswer /\ answer' \in Replies /\ answer'.ret = "head"
      <4>1. answer' = [NoAnswer EXCEPT !.ret = "head"]
        BY <1>2, <2>1, <2>4
      <4>2. NoAnswer \in Replies /\ NoAnswer.ret = "head"
        BY DEF NoAnswer, Replies, NoWant
      <4>3. QED
        BY <4>1, <4>2 DEF Replies
    <3>2. p < HEAD_MAX /\ e = 0
      BY <1>1, <1>3, <1>4, <2>2, <2>4, SMT
    <3>3. QED
      BY <3>1, <3>2 DEF Holds, e, p
  <2>5. QED
    BY <2>3, <2>4
<1>7. CASE sep # 0
  <2> DEFINE a0 == Begun(SubSeq(stream, 1, end))
             a == Ended(a0, p - end)
             b == Piece(a, end, full - end)
             c == Piece(b, full, p - full)
  <2>1. answer' = c
    <3>1. answer' = Complete(end, full, p)
      BY <1>7 DEF ReadHead, full, sep, p
    <3>2. QED
      BY <3>1 DEF Complete
  <2>2. e = end /\ end \in 4..Len(stream) /\ end \in Nat /\ end <= full /\ end <= HEAD_MAX
    <3>1. end \in Nat /\ e \in Nat /\ end # 0 /\ IsEnd(stream, full, end)
      BY <1>1, <1>4, <1>5, <1>7, SMT
    <3>2. e = end
      BY <1>1, <1>3, <1>4, <3>1, EndStays
    <3>3. end \in 4..full
      BY <3>1 DEF IsEnd
    <3>4. QED
      BY <1>1, <1>3, <3>1, <3>2, <3>3, SMT
  <2>3. /\ a0 \in Replies /\ a0.sunk = <<>>
        /\ \/ (~Good(e) \/ (said.chunked /\ ~LedOn)) /\ a0.ret = "failed"
           \/ /\ Good(e) /\ LedOn
              /\ a0.ret = (IF said.location = "good" THEN "redirect" ELSE "failed")
           \/ /\ Good(e) /\ ~LedOn /\ ~said.chunked /\ a0.ret = "body"
              /\ a0.want = Announced /\ Announced \in Nat \cup {NoWant}
              /\ a0.keep => said.lengths # <<>>
    BY <1>1, <2>2, HeadJudged
  <2> HIDE DEF a0, end
  <2>4. CASE a0.ret # "body"
    <3>1. a = a0
      BY <2>4 DEF Ended
    <3>2. b = a0
      BY <2>4, <3>1 DEF Piece
    <3> HIDE DEF b
    <3>3. c = a0
      BY <2>4, <3>2 DEF Piece
    <3>4. a0.ret \in {"failed", "redirect"}
      BY <2>3, <2>4
    <3> HIDE DEF a, b, c
    <3>5. QED
      BY <2>1, <2>3, <2>4, <3>3, <3>4 DEF Holds, e, p
  <2>5. CASE a0.ret = "body" /\ p = end /\ a0.want = 0
    <3>1. p - end = 0 /\ full - end = 0 /\ p - full = 0
      BY <1>3, <2>2, <2>5, SMT
    <3>2. a = [a0 EXCEPT !.ret = "done"]
      BY <2>5, <3>1 DEF Ended
    <3>3. a \in Replies /\ a.ret = "done" /\ a.sunk = <<>> /\ a.want = 0
      BY <2>3, <2>5, <3>2 DEF Replies
    <3> HIDE DEF a
    <3>4. b = a
      BY <3>1 DEF Piece
    <3>5. c = a
      BY <3>1, <3>4 DEF Piece
    <3>6. p - e = 0 /\ p = e + 0 /\ BodyAt(e, 0) = <<>> /\ Announced = 0 /\ Announced # NoWant
      BY <1>1, <2>2, <2>3, <2>5, SMT DEF BodyAt, NoWant
    <3> HIDE DEF b, c
    <3>7. Holds(a, e, p)
      BY <2>3, <2>5, <3>3, <3>6, SMT DEF Holds
    <3>8. QED
      BY <2>1, <3>3, <3>5, <3>7 DEF e, p
  <2>6. CASE a0.ret = "body" /\ ~(p = end /\ a0.want = 0)
    <3>1. a = a0
      <4>1. p - end = 0 => p = end
        BY <1>1, <2>2, SMT
      <4>2. QED
        BY <2>6, <4>1 DEF Ended
    <3> HIDE DEF a
    <3> DEFINE m == full - end
               n == p - full
    <3>2. /\ m \in Nat /\ n \in Nat /\ end + m = full /\ full + n = p /\ p - end = m + n
          /\ (end + m) - end = m /\ (full + n) - end = m + n /\ full - end = m
      BY <1>1, <1>3, <2>2, SMT
    <3>3. /\ a \in Replies /\ a.ret = "body" /\ a.want = Announced
          /\ a.want \in Nat \cup {NoWant} /\ (a.keep => said.lengths # <<>>)
          /\ Good(e) /\ ~LedOn /\ ~said.chunked
      BY <2>3, <2>6, <3>1
    <3>4. Growing(a, end, end)
      <4>1. a.sunk = BodyAt(end, end - end) /\ (a.want # NoWant => end - end <= a.want)
        BY <2>2, <2>3, <3>1, <3>3, SMT DEF BodyAt, NoWant
      <4>2. QED
        BY <3>3, <4>1 DEF Growing
    <3>5. Taken(a, end, end, m, b)
      <4> HIDE DEF m
      <4>1. end <= end
        BY <2>2, SMT
      <4>2. QED
        BY <2>2, <3>2, <3>4, <4>1, PieceTakes, Zenon DEF m
    <3> HIDE DEF b, m
    <3> USE DEF Taken
    <3>6. CASE b.ret = "body"
      <4>1. Growing(b, end, full)
        <5>1. a.want # NoWant => m <= a.want
          BY <3>2, <3>3, <3>5, <3>6, SMT DEF NoWant
        <5>2. QED
          BY <2>2, <3>2, <3>3, <3>5, <3>6, <5>1 DEF Growing
      <4>2. Taken(b, end, full, n, c)
        <5> HIDE DEF n, Taken
        <5>1. QED
          BY <1>3, <2>2, <3>2, <4>1, PieceTakes, Zenon DEF n
      <4> HIDE DEF c, n
      <4>3. CASE c.ret = "body"
        <5>1. c.want # NoWant => p - e < c.want
          BY <2>2, <2>6, <3>1, <3>2, <3>3, <3>5, <3>6, <4>2, <4>3, SMT DEF NoWant
        <5>2. c.want = Announced /\ c.sunk = BodyAt(e, p - e) /\ (c.keep => said.lengths # <<>>)
          BY <2>2, <3>2, <3>3, <3>5, <4>2, <4>3
        <5>3. Holds(c, e, p)
          BY <3>3, <4>3, <5>1, <5>2 DEF Holds
        <5>4. QED
          BY <2>1, <4>2, <5>3 DEF e, p
      <4>4. CASE c.ret = "done"
        <5>1. /\ Announced # NoWant /\ p - e >= Announced /\ c.sunk = BodyAt(e, Announced)
              /\ c.want = Announced /\ Announced \in Nat /\ (c.keep => p - e = Announced)
          BY <2>2, <3>2, <3>3, <3>5, <4>2, <4>4
        <5>2. c.keep => p = e + c.want
          BY <1>1, <2>2, <5>1, SMT
        <5>3. Holds(c, e, p)
          BY <3>3, <4>4, <5>1, <5>2 DEF Holds
        <5>4. QED
          BY <2>1, <4>2, <5>3 DEF e, p
      <4>5. QED
        BY <4>2, <4>3, <4>4
    <3>7. CASE b.ret = "done"
      <4>1. c = b
        BY <3>7 DEF Piece
      <4>2. /\ Announced # NoWant /\ m >= Announced /\ b.sunk = BodyAt(e, Announced)
            /\ b.want = Announced /\ Announced \in Nat /\ m > 0 /\ (b.keep => m = Announced)
        BY <2>2, <3>2, <3>3, <3>5, <3>7
      <4> HIDE DEF c, n
      <4>3. p - e >= Announced
        BY <2>2, <3>2, <4>2, SMT
      <4>4. b.keep => p = e + b.want \/ (e + b.want = HEAD_MAX /\ b.want > 0)
        BY <1>1, <1>3, <2>2, <3>2, <4>2, SMT
      <4>5. Holds(b, e, p)
        BY <3>3, <3>7, <4>2, <4>3, <4>4 DEF Holds
      <4>6. QED
        BY <2>1, <3>5, <4>1, <4>5 DEF e, p
    <3>8. QED
      BY <3>5, <3>6, <3>7
  <2>7. QED
    BY <2>4, <2>5, <2>6
<1>8. QED
  BY <1>6, <1>7

(* A read after the head *)
LEMMA BodyReadHolds ==
  ASSUME HeadInv, NEW k \in 1..REQUEST_BUF, at + k <= Len(stream), ReadBody(k)
  PROVE  answer' \in Replies /\ Holds(answer', EndAt(stream, at + k), at + k)
<1> DEFINE p == at + k
           e == EndAt(stream, at)
           f == EndAt(stream, p)
           b == Piece(answer, at, k)
<1>1. /\ <<stream, said>> \in Answers /\ stream \in Seq(Bytes) /\ Len(stream) \in Nat
      /\ at \in Nat /\ at \in 0..Len(stream) /\ k \in Nat /\ k > 0 /\ p \in 0..Len(stream)
      /\ p \in Nat /\ HEAD_MAX \in Nat /\ HEAD_LEAST \in Nat \ {0}
  BY HeadAssumption, Sent, SMT DEF HeadInv, HeadAssumption
<1>2. answer' = b /\ answer \in Replies /\ answer.ret = "body" /\ HeadEnd = e
  BY DEF ReadBody, HeadInv, HeadEnd, EndAt
<1>3. /\ Good(e) /\ ~LedOn /\ ~said.chunked /\ answer.want = Announced
      /\ answer.sunk = BodyAt(e, at - e)
      /\ answer.want # NoWant => at - e < answer.want
      /\ answer.keep => said.lengths # <<>>
  BY <1>2 DEF HeadInv, Holds
<1>4. e \in Nat /\ e # 0 /\ e <= at /\ f = e
  <2>1. IsEnd(stream, at, e) /\ e \in 0..at /\ IsEnd(stream, p, f) /\ f \in 0..p
    BY <1>1, Sent
  <2>2. e \in Nat /\ f \in Nat /\ e # 0 /\ e <= at /\ at <= p
    BY <1>1, <1>3, <2>1, SMT DEF Good
  <2> HIDE DEF e, f, p
  <2>3. QED
    BY <1>1, <2>1, <2>2, EndStays
<1>5. Announced \in Nat \cup {NoWant}
  <2>1. Numbered /\ said \in Sayings
    BY <1>1, <1>3, Sent DEF Good
  <2>2. QED
    BY <2>1, LengthRead DEF Announced
<1> HIDE DEF e, f, p
<1>6. Growing(answer, e, at)
  <2>1. answer.want # NoWant => at - e <= answer.want
    BY <1>1, <1>3, <1>4, <1>5, SMT DEF NoWant
  <2>2. QED
    BY <1>2, <1>3, <1>5, <2>1 DEF Growing
<1>7. Taken(answer, e, at, k, b)
  BY <1>1, <1>4, <1>6, PieceTakes, Zenon
<1> HIDE DEF b
<1>8. at + k = p /\ (at + k) - e = p - e
  BY DEF p
<1>9. b \in Replies /\ b.want = Announced /\ (b.keep => said.lengths # <<>>)
  BY <1>3, <1>7 DEF Taken
<1>10. CASE b.ret = "body"
  <2>1. b.sunk = BodyAt(e, p - e) /\ (b.want # NoWant => p - e < b.want)
    BY <1>1, <1>3, <1>7, <1>8, <1>9, <1>10 DEF Taken
  <2>2. Holds(b, e, p)
    BY <1>3, <1>9, <1>10, <2>1 DEF Holds
  <2>3. QED
    BY <1>2, <1>4, <1>9, <2>2 DEF f, p
<1>11. CASE b.ret = "done"
  <2>1. /\ Announced # NoWant /\ p - e >= Announced /\ b.sunk = BodyAt(e, Announced)
        /\ (b.keep => p - e = Announced)
    BY <1>3, <1>7, <1>8, <1>11 DEF Taken
  <2>2. b.keep => p = e + b.want
    BY <1>1, <1>4, <1>5, <1>9, <2>1, SMT
  <2>3. Holds(b, e, p)
    BY <1>3, <1>9, <1>11, <2>1, <2>2 DEF Holds
  <2>4. QED
    BY <1>2, <1>4, <1>9, <2>3 DEF f, p
<1>12. QED
  BY <1>7, <1>10, <1>11 DEF Taken

(* The connection's end *)
LEMMA CloseHolds ==
  ASSUME HeadInv, NEW clean \in BOOLEAN, Close(clean)
  PROVE  answer' \in Replies /\ Holds(answer', EndAt(stream, at), at)
<1> DEFINE e == EndAt(stream, at)
           r == IF answer.ret = "head" THEN "failed"
                ELSE IF clean /\ answer.want = NoWant THEN "done" ELSE "cut"
<1>1. answer \in Replies /\ Holds(answer, e, at) /\ answer.ret \in {"head", "body"}
  BY DEF Close, HeadInv, HeadEnd, EndAt
<1>2. answer' = [answer EXCEPT !.ret = r]
  BY DEF Close
<1>3. r \in {"failed", "done", "cut"}
  OBVIOUS
<1> HIDE DEF r, e
<1>4. /\ answer' \in Replies /\ answer'.ret = r /\ answer'.want = answer.want
      /\ answer'.sunk = answer.sunk /\ answer'.keep = answer.keep
  BY <1>1, <1>2, <1>3 DEF Replies
<1>5. CASE answer.ret = "head"
  <2>1. r = "failed" /\ answer.sunk = <<>> /\ e = 0
    BY <1>1, <1>5 DEF Holds, NoAnswer, r
  <2>2. ~Good(e)
    BY <2>1, HeadAssumption, SMT DEF Good, HeadAssumption
  <2>3. QED
    BY <1>4, <2>1, <2>2 DEF Holds, e
<1>6. CASE answer.ret = "body"
  <2>1. /\ Good(e) /\ ~LedOn /\ ~said.chunked /\ answer.want = Announced
        /\ answer.sunk = BodyAt(e, at - e)
        /\ answer.want # NoWant => at - e < answer.want
        /\ answer.keep => said.lengths # <<>>
    BY <1>1, <1>6 DEF Holds
  <2>2. <<stream, said>> \in Answers /\ said \in Sayings /\ Numbered
    BY <2>1, Sent DEF HeadInv, Good
  <2>3. Announced \in Nat \cup {NoWant} /\ (said.lengths # <<>> => Announced # NoWant)
    BY <2>2, LengthRead, SMT DEF Announced, NoWant
  <2>4. CASE Announced = NoWant
    <3>1. r \in {"cut", "done"} /\ ~answer.keep
      BY <1>1, <1>6, <2>1, <2>3, <2>4 DEF r
    <3>2. QED
      BY <1>4, <2>1, <2>4, <3>1 DEF Holds, e
  <2>5. CASE Announced # NoWant
    <3>1. r = "cut"
      BY <1>6, <2>1, <2>5 DEF r
    <3>2. ~(at - e >= Announced)
      <4>1. at \in Nat /\ e \in Int
        BY <2>1, <2>2, Sent, SMT DEF HeadInv, Good
      <4>2. QED
        BY <2>1, <2>3, <2>5, <4>1, SMT
    <3>3. QED
      BY <1>4, <2>1, <2>5, <3>1, <3>2 DEF Holds, e
  <2>6. QED
    BY <2>4, <2>5
<1>7. QED
  BY <1>1, <1>5, <1>6

(* What is kept of an answer while it is read *)
LEMMA HeadInvHolds == HeadSpec => []HeadInv
<1>1. HeadInit => HeadInv
  <2> SUFFICES ASSUME HeadInit
               PROVE  HeadInv
    OBVIOUS
  <2>1. <<stream, said>> \in Answers /\ at = 0 /\ answer = NoAnswer
    <3>1. PICK a \in Answers : stream = a[1] /\ said = a[2]
      BY DEF HeadInit
    <3>2. a = <<a[1], a[2]>>
      BY HeadAssumption DEF HeadAssumption
    <3>3. QED
      BY <3>1, <3>2 DEF HeadInit
  <2>2. at \in 0..Len(stream) /\ EndAt(stream, at) = 0
    <3>1. Len(stream) \in Nat /\ 0 \in 0..Len(stream) /\ EndAt(stream, 0) \in 0..0
      BY <2>1, Sent, SMT
    <3>2. QED
      BY <2>1, <3>1, SMT
  <2>3. NoAnswer \in Replies /\ NoAnswer.ret = "head"
    BY DEF NoAnswer, Replies, NoWant
  <2>4. HEAD_MAX \in Nat /\ 0 < HEAD_MAX
    BY HeadAssumption, SMT DEF HeadAssumption
  <2>5. Holds(answer, HeadEnd, at)
    BY <2>1, <2>2, <2>3, <2>4 DEF Holds, HeadEnd, EndAt
  <2>6. QED
    BY <2>1, <2>2, <2>3, <2>5 DEF HeadInv
<1>2. HeadInv /\ [HeadNext]_headVars => HeadInv'
  <2> SUFFICES ASSUME HeadInv, [HeadNext]_headVars
               PROVE  HeadInv'
    OBVIOUS
  <2>1. ASSUME NEW k \in 1..REQUEST_BUF, Read(k)
        PROVE  HeadInv'
    <3>1. at + k <= Len(stream) /\ at' = at + k /\ UNCHANGED <<stream, said>>
      BY <2>1 DEF Read
    <3>2. answer' \in Replies /\ Holds(answer', EndAt(stream, at + k), at + k)
      BY <2>1, <3>1, HeadReadHolds, BodyReadHolds DEF Read
    <3>3. at + k \in 0..Len(stream)
      <4>1. Len(stream) \in Nat /\ at \in Nat /\ k \in Nat
        BY Sent, HeadAssumption, SMT DEF HeadInv, HeadAssumption
      <4>2. QED
        BY <3>1, <4>1, SMT
    <3>4. QED
      BY <3>1, <3>2, <3>3, Carried
  <2>2. ASSUME NEW clean \in BOOLEAN, Close(clean)
        PROVE  HeadInv'
    <3>1. at' = at /\ UNCHANGED <<stream, said>> /\ at \in 0..Len(stream)
      BY <2>2 DEF Close, HeadInv
    <3>2. answer' \in Replies /\ Holds(answer', EndAt(stream, at), at)
      BY <2>2, CloseHolds
    <3>3. QED
      BY <3>1, <3>2, Carried
  <2>3. CASE UNCHANGED headVars
    <3>1. /\ at' = at /\ answer' = answer /\ UNCHANGED <<stream, said>>
          /\ at \in 0..Len(stream) /\ answer \in Replies
          /\ Holds(answer, EndAt(stream, at), at)
      BY <2>3 DEF headVars, HeadInv, HeadEnd, EndAt
    <3>2. QED
      BY <3>1, Carried
  <2>4. QED
    BY <2>1, <2>2, <2>3 DEF HeadNext
<1>3. QED
  BY <1>1, <1>2, PTL DEF HeadSpec

(* For every stream of bytes, every head, every size of the two buffers and
   every way the reads cut an answer: what request_with makes of it follows
   from its bytes alone. *)
THEOREM HoweverCutHolds == HeadSpec => []HoweverCut
BY HeadInvHolds, Implied, PTL

(* And a connection that is kept has nothing of the answer's surplus behind
   it, but for the one cut at the end of the head's buffer. *)
THEOREM KeptIsDrainedHolds == HeadSpec => []KeptIsDrained
BY HeadInvHolds, Implied, PTL
=============================================================================
