---------------------------- MODULE Trust_proofs ----------------------------
(***************************************************************************)
(* Proofs about whom a request is sent to and whether its certificate is   *)
(* taken.                                                                  *)
(*                                                                         *)
(* The certificate question, for every set of workers and hosts and every  *)
(* size of the ring.  Guarded is the inductive invariant behind            *)
(* NoBlankCheque: a handshake has the lock and its own host in             *)
(* g_verify_host, the answer goes to the host that was shown, and the ring *)
(* holds none that nobody vouched for.  Kept is the one behind RingIsWord: *)
(* the slot of an answer is its number, and the answers still in the       *)
(* window differ.                                                          *)
(*                                                                         *)
(* The day the rules ask for, for every year from 1970 on.                 *)
(*                                                                         *)
(* The address, along every chain of redirects: UrlInv is the inductive    *)
(* invariant behind UrlClean.  Behind ResolvesAsReferences stands, besides *)
(* it, that a text comes apart in one way only, that a path encodes piece  *)
(* by piece, and that a port that was written out is read again.           *)
(***************************************************************************)
EXTENDS CertDoubt, Dates, Urls, SequenceTheorems, NaturalLemmas

(* Every variable has its type, the question and the ring with it. *)
THEOREM DoubtTyped == Spec => []TypeOK
<1>1. Init => TypeOK
  BY RingAssumption, SMT DEF Init, TypeOK, Slots
<1>2. TypeOK /\ [Next]_vars => TypeOK'
  <2> SUFFICES ASSUME TypeOK, [Next]_vars
               PROVE  TypeOK'
    OBVIOUS
  <2>1. ASSUME NEW w \in Workers, NEW h \in Hosts, Request(w, h)
        PROVE  TypeOK'
    BY <2>1 DEF Request, question, answers, TypeOK
  <2>2. ASSUME NEW w \in Workers, LockHandshake(w)
        PROVE  TypeOK'
    BY <2>2 DEF LockHandshake, Lock, question, answers, TypeOK
  <2>3. ASSUME NEW w \in Workers, Shaken(w)
        PROVE  TypeOK'
    BY <2>3 DEF Shaken, Unlock, question, answers, TypeOK
  <2>4. ASSUME NEW w \in Workers, Doubt(w)
        PROVE  TypeOK'
    <3>1. pc[w] \in Kinds
      BY <2>4 DEF Doubt
    <3>2. QED
      BY <2>4, <3>1 DEF Doubt, Unlock, answers, TypeOK
  <2>5. ASSUME NEW w \in Workers, NEW err \in Errors, NEW ranOut \in BOOLEAN,
               Verify(w, err, ranOut)
        PROVE  TypeOK'
    <3>1. Judge(err, ranOut) \in {"pass", "refuse"} \cup Kinds
      BY DEF Judge, Errors, Kinds
    <3>2. Amiss(err, ranOut) \in SUBSET Flaws
      BY DEF Amiss
    <3>3. met' \in [Workers -> SUBSET Flaws]
      BY <2>5, <3>2 DEF Verify, TypeOK
    <3>4. pc' \in [Workers -> {"idle", "lock", "shake"} \cup Kinds]
      BY <2>5, <3>1 DEF Verify, TypeOK
    <3>5. shaker' \in Workers \cup {NoWorker}
      BY <2>5 DEF Verify, Unlock, TypeOK
    <3>6. QED
      BY <2>5, <3>3, <3>4, <3>5 DEF Verify, question, answers, TypeOK
  <2>6. CASE Take
    BY <2>6 DEF Take, handshake, answers, TypeOK
  <2>7. CASE Accept
    <3>1. trusted' \in [Slots -> Hosts \cup {NoHost}] /\ trustedNext' \in Nat
      BY <2>7 DEF Accept, Accepted, TypeOK
    <3>2. word' \in Seq(Hosts)
      BY <2>7 DEF Accept, TypeOK
    <3>3. QED
      BY <2>7, <3>1, <3>2 DEF Accept, handshake, TypeOK
  <2>8. CASE Disconnect
    <3>1. <<>> \in Seq(Hosts) /\ 0 \in Nat
      OBVIOUS
    <3>2. QED
      BY <2>8, <3>1 DEF Disconnect, TypeOK
  <2>9. CASE UNCHANGED vars
    BY <2>9 DEF vars, handshake, question, answers, TypeOK
  <2>10. QED
    BY <2>1, <2>2, <2>3, <2>4, <2>5, <2>6, <2>7, <2>8, <2>9 DEF Next, Step
<1>3. QED
  BY <1>1, <1>2, PTL DEF Spec
-----------------------------------------------------------------------------
(* Whose word a certificate passes on *)

InHand(w) == pc[w] \in {"shake"} \cup Kinds

Guarded ==
  /\ \A w \in Workers : InHand(w) => shaker = w /\ verifyHost = host[w]
  /\ \A w \in Workers : pc[w] # "idle" => host[w] # NoHost
  /\ asked = shown
  /\ \A i \in Slots : trusted[i] # NoHost => Contains(word, trusted[i])
  /\ NoBlankCheque

(* A host stays vouched for while answers are added. *)
LEMMA AppendContains ==
  ASSUME NEW s \in Seq(Hosts), NEW h \in Hosts
  PROVE  /\ Contains(Append(s, h), h)
         /\ \A g : Contains(s, g) => Contains(Append(s, h), g)
<1>1. /\ Len(Append(s, h)) = Len(s) + 1 /\ Len(s) \in Nat
      /\ Append(s, h)[Len(s) + 1] = h
      /\ \A i \in 1..Len(s) : Append(s, h)[i] = s[i]
  OBVIOUS
<1>2. Len(s) + 1 \in 1..(Len(s) + 1) /\ \A i \in 1..Len(s) : i \in 1..(Len(s) + 1)
  BY <1>1, SMT
<1>3. QED
  BY <1>1, <1>2 DEF Contains

(* The end of a sequence holds nothing the sequence does not. *)
LEMMA LastOfContains ==
  ASSUME NEW s \in Seq(Hosts), NEW n \in Nat, NEW h, Contains(LastOf(s, n), h)
  PROVE  Contains(s, h)
<1> DEFINE m == IF Len(s) > n THEN Len(s) - n + 1 ELSE 1
<1>1. Len(s) \in Nat /\ m \in Nat \ {0} /\ m <= Len(s) + 1
  BY SMT
<1> HIDE DEF m
<1>2. LastOf(s, n) = SubSeq(s, m, Len(s))
  BY DEF LastOf, m
<1>3. /\ Len(SubSeq(s, m, Len(s))) = Len(s) - m + 1
      /\ \A i \in 1..(Len(s) - m + 1) : SubSeq(s, m, Len(s))[i] = s[m + i - 1]
  BY <1>1
<1>4. PICK i \in 1..(Len(s) - m + 1) : s[m + i - 1] = h
  BY <1>2, <1>3 DEF Contains
<1>5. m + i - 1 \in 1..Len(s)
  BY <1>1, SMT
<1>6. QED
  BY <1>4, <1>5 DEF Contains

(* A certificate that passes with a flaw has a kind of doubt, and is never
   wrong in a way that is no doubt at all. *)
LEMMA JudgeDoubts ==
  ASSUME NEW err \in Errors, NEW ranOut \in BOOLEAN
  PROVE  /\ Judge(err, ranOut) = "pass" => Amiss(err, ranOut) = {}
         /\ Judge(err, ranOut) \in Kinds => "wrong" \notin Amiss(err, ranOut)
<1>1. err \in {"before", "after"} \/ err \in {"nosigner", "selfsigned"} \/ err = "other"
  BY DEF Errors
<1>2. CASE err \in {"before", "after"}
  <2>1. err \notin {"nosigner", "selfsigned"} /\ err # "other"
    BY <1>2
  <2>2. Judge(err, ranOut) = IF ranOut THEN "expired" ELSE "pass"
    BY <1>2, <2>1 DEF Judge
  <2>3. "expired" # "pass" /\ "wrong" \in Flaws /\ "wrong" # "ranout" /\ "wrong" # "stranger"
    BY DEF Flaws
  <2>4. \A f \in Amiss(err, ranOut) : f = "ranout" /\ ranOut
    BY <2>1 DEF Amiss
  <2>5. QED
    BY <2>2, <2>3, <2>4
<1>3. CASE err \in {"nosigner", "selfsigned"}
  <2>1. err \notin {"before", "after"} /\ err # "other"
    BY <1>3
  <2>2. Judge(err, ranOut) = "issuer" /\ "issuer" # "pass"
    BY <1>3, <2>1 DEF Judge
  <2>3. \A f \in Amiss(err, ranOut) : f \in {"ranout", "stranger"}
    BY <2>1 DEF Amiss
  <2>4. QED
    BY <2>2, <2>3
<1>4. CASE err = "other"
  <2>1. err \notin {"before", "after"} /\ err \notin {"nosigner", "selfsigned"}
    BY <1>4
  <2>2. Judge(err, ranOut) = "refuse"
    BY <2>1 DEF Judge
  <2>3. "refuse" # "pass" /\ "refuse" \notin Kinds
    BY DEF Kinds
  <2>4. QED
    BY <2>2, <2>3
<1>5. QED
  BY <1>1, <1>2, <1>3, <1>4

(* A certificate that is let pass is let pass on the word for its own host. *)
LEMMA GuardedVerify ==
  ASSUME TypeOK, Guarded, NEW w \in Workers, NEW err \in Errors, NEW ranOut \in BOOLEAN,
         Verify(w, err, ranOut)
  PROVE  Guarded'
<1> DEFINE verdict == Judge(err, ranOut)
           passes == verdict = "pass" \/ (verdict \in Kinds /\ Trusted(verifyHost))
<1>1. /\ pc[w] = "shake" /\ shaker = w /\ verifyHost = host[w] /\ host[w] # NoHost
      /\ host' = host /\ verifyHost' = verifyHost /\ word' = word
      /\ trusted' = trusted /\ asked' = asked /\ shown' = shown
  BY DEF Verify, question, answers, Guarded, InHand
<1>2. /\ met' = IF passes THEN [met EXCEPT ![w] = @ \cup Amiss(err, ranOut)] ELSE met
      /\ pc' = [pc EXCEPT ![w] = IF passes THEN @
                                 ELSE IF verdict = "refuse" THEN "idle" ELSE verdict]
      /\ shaker' = IF verdict = "refuse"
                   THEN (IF shaker = w THEN NoWorker ELSE shaker) ELSE shaker
  BY DEF Verify, Unlock
<1>3. /\ verdict = "pass" => Amiss(err, ranOut) = {}
      /\ verdict \in Kinds => "wrong" \notin Amiss(err, ranOut)
      /\ verdict \in {"pass", "refuse"} \cup Kinds
  BY JudgeDoubts DEF Judge, Errors, Kinds
<1>4. Trusted(verifyHost) => Contains(word, host[w])
  BY <1>1 DEF Trusted, Guarded
<1> HIDE DEF verdict
<1>5. \A v \in Workers : v # w => pc'[v] = pc[v] /\ met'[v] = met[v]
  BY <1>2 DEF TypeOK
<1>6. NoBlankCheque'
  <2>1. CASE passes
    <3>1. met'[w] = met[w] \cup Amiss(err, ranOut)
      BY <1>2, <2>1 DEF TypeOK
    <3>2. "wrong" \notin Amiss(err, ranOut)
          /\ (Amiss(err, ranOut) # {} => Contains(word, host[w]))
      BY <1>3, <1>4, <2>1
    <3>3. /\ "wrong" \notin met'[w]
          /\ met'[w] # {} => Contains(word, host[w])
      BY <3>1, <3>2 DEF Guarded, NoBlankCheque
    <3>4. QED
      BY <1>1, <1>5, <3>3 DEF Guarded, NoBlankCheque
  <2>2. CASE ~passes
    BY <1>1, <1>2, <2>2 DEF Guarded, NoBlankCheque
  <2>3. QED
    BY <2>1, <2>2
<1>7. \A v \in Workers : InHand(v)' => shaker' = v /\ verifyHost' = host'[v]
  <2> SUFFICES ASSUME NEW v \in Workers, InHand(v)'
               PROVE  shaker' = v /\ verifyHost' = host'[v]
    OBVIOUS
  <2>1. CASE v = w
    <3>1. ~(~passes /\ verdict = "refuse")
      BY <1>2, <2>1 DEF InHand, TypeOK, Kinds
    <3>2. verdict # "refuse"
      <4>1. passes => verdict \in {"pass"} \cup Kinds
        OBVIOUS
      <4>2. "refuse" \notin {"pass"} \cup Kinds
        BY DEF Kinds
      <4>3. QED
        BY <3>1, <4>1, <4>2
    <3>3. QED
      BY <1>1, <1>2, <2>1, <3>2
  <2>2. CASE v # w
    <3>1. InHand(v)
      BY <1>5, <2>2 DEF InHand
    <3>2. QED
      BY <1>1, <2>2, <3>1 DEF Guarded
  <2>3. QED
    BY <2>1, <2>2
<1>8. \A v \in Workers : pc'[v] # "idle" => host'[v] # NoHost
  BY <1>1, <1>5 DEF Guarded
<1>9. QED
  BY <1>1, <1>6, <1>7, <1>8 DEF Guarded

(* The steps of one worker that let no certificate pass. *)
LEMMA GuardedWorker ==
  ASSUME TypeOK, Guarded, NEW w \in Workers,
         \/ \E h \in Hosts : Request(w, h)
         \/ LockHandshake(w) \/ Shaken(w) \/ Doubt(w)
  PROVE  Guarded'
<1>1. /\ word' = word /\ trusted' = trusted /\ asked' = asked /\ shown' = shown
  BY DEF Request, LockHandshake, Shaken, Doubt, question, answers
<1>2. \A v \in Workers : v # w => pc'[v] = pc[v] /\ host'[v] = host[v] /\ met'[v] = met[v]
  BY DEF Request, LockHandshake, Shaken, Doubt, TypeOK
<1>3. ASSUME NEW h \in Hosts, Request(w, h)
      PROVE  Guarded'
  <2>1. pc'[w] = "lock" /\ host'[w] = h /\ met'[w] = {} /\ h # NoHost
        /\ shaker' = shaker /\ verifyHost' = verifyHost
    BY <1>3, DoubtAssumption DEF Request, TypeOK
  <2>2. ~InHand(w)'
    BY <2>1 DEF InHand, Kinds
  <2>3. NoBlankCheque'
    BY <1>1, <1>2, <2>1 DEF Guarded, NoBlankCheque
  <2>4. \A v \in Workers : InHand(v)' => shaker' = v /\ verifyHost' = host'[v]
    BY <1>2, <2>1, <2>2 DEF Guarded, InHand
  <2>5. \A v \in Workers : pc'[v] # "idle" => host'[v] # NoHost
    BY <1>2, <2>1 DEF Guarded
  <2>6. QED
    BY <1>1, <2>3, <2>4, <2>5 DEF Guarded
<1>4. CASE LockHandshake(w)
  <2>1. /\ pc[w] = "lock" /\ pc'[w] = "shake" /\ host' = host /\ met' = met
        /\ shaker = NoWorker /\ shaker' = w /\ verifyHost' = host[w]
    BY <1>4 DEF LockHandshake, Lock, TypeOK
  <2>2. \A v \in Workers : ~InHand(v)
    BY <2>1, DoubtAssumption DEF Guarded
  <2>3. \A v \in Workers : InHand(v)' => v = w
    BY <1>2, <2>2 DEF InHand
  <2>4. \A v \in Workers : pc'[v] # "idle" => host'[v] # NoHost
    BY <1>2, <2>1 DEF Guarded
  <2>5. NoBlankCheque'
    BY <1>1, <2>1 DEF Guarded, NoBlankCheque
  <2>6. QED
    BY <1>1, <2>1, <2>3, <2>4, <2>5 DEF Guarded
<1>5. CASE Shaken(w) \/ Doubt(w)
  <2>1. /\ InHand(w) /\ pc'[w] = "idle" /\ host' = host /\ met' = met
        /\ verifyHost' = verifyHost /\ shaker' = IF shaker = w THEN NoWorker ELSE shaker
    BY <1>5 DEF Shaken, Doubt, Unlock, InHand, TypeOK
  <2>2. shaker = w
    BY <2>1 DEF Guarded
  <2>3. \A v \in Workers : ~InHand(v)'
    BY <1>2, <2>1, <2>2 DEF InHand, Guarded, Kinds
  <2>4. \A v \in Workers : pc'[v] # "idle" => host'[v] # NoHost
    BY <1>2, <2>1 DEF Guarded
  <2>5. NoBlankCheque'
    BY <1>1, <2>1 DEF Guarded, NoBlankCheque
  <2>6. QED
    BY <1>1, <2>3, <2>4, <2>5 DEF Guarded
<1>6. QED
  BY <1>3, <1>4, <1>5

(* An answer vouches for the host that was shown, and for no other. *)
LEMMA GuardedAccept ==
  ASSUME TypeOK, Guarded, Accept
  PROVE  Guarded'
<1>1. /\ pc' = pc /\ host' = host /\ shaker' = shaker /\ verifyHost' = verifyHost
      /\ met' = met /\ asked' = NoHost /\ shown' = NoHost
  BY DEF Accept, handshake
<1>2. \A g : Contains(word, g) => Contains(word', g)
  BY AppendContains DEF Accept, TypeOK
<1>3. shown # NoHost => Contains(word', shown)
  <2>1. CASE Contains(LastOf(word, TrustedMax), shown)
    BY <1>2, <2>1, LastOfContains, RingAssumption DEF TypeOK
  <2>2. CASE ~Contains(LastOf(word, TrustedMax), shown)
    BY <2>2, AppendContains DEF Accept, TypeOK
  <2>3. QED
    BY <2>1, <2>2
<1>4. \A i \in Slots : trusted'[i] # NoHost => Contains(word', trusted'[i])
  <2> SUFFICES ASSUME NEW i \in Slots, trusted'[i] # NoHost
               PROVE  Contains(word', trusted'[i])
    OBVIOUS
  <2>1. trusted'[i] = trusted[i] \/ (trusted'[i] = asked /\ asked # NoHost)
    BY DEF Accept, Accepted, TypeOK
  <2>2. QED
    BY <1>2, <1>3, <2>1 DEF Guarded
<1>5. NoBlankCheque'
  BY <1>1, <1>2 DEF Guarded, NoBlankCheque
<1>6. QED
  BY <1>1, <1>4, <1>5 DEF Guarded, InHand

(* Disconnect forgets the answers with no handshake that still rests on one. *)
LEMMA GuardedDisconnect ==
  ASSUME TypeOK, Guarded, Disconnect
  PROVE  Guarded'
<1>1. \A v \in Workers : pc'[v] = "idle" /\ met'[v] = {}
  BY DEF Disconnect
<1>2. \A v \in Workers : ~InHand(v)'
  BY <1>1 DEF InHand, Kinds
<1>3. \A i \in Slots : trusted'[i] = NoHost
  BY DEF Disconnect
<1>4. asked' = shown'
  BY DEF Disconnect
<1>5. NoBlankCheque'
  BY <1>1 DEF NoBlankCheque
<1>6. QED
  BY <1>1, <1>2, <1>3, <1>4, <1>5 DEF Guarded

(* Every step keeps the handshake, the question and the ring guarded. *)
LEMMA GuardedStep ==
  ASSUME TypeOK, Guarded, [Next]_vars
  PROVE  Guarded'
<1>1. ASSUME NEW w \in Workers, Step(w)
      PROVE  Guarded'
  BY <1>1, GuardedVerify, GuardedWorker DEF Step
<1>2. CASE Take
  BY <1>2 DEF Take, handshake, answers, Guarded, InHand, NoBlankCheque
<1>3. CASE Accept
  BY <1>3, GuardedAccept
<1>4. CASE Disconnect
  BY <1>4, GuardedDisconnect
<1>5. CASE UNCHANGED vars
  BY <1>5 DEF vars, handshake, question, answers, Guarded, InHand, NoBlankCheque
<1>6. QED
  BY <1>1, <1>2, <1>3, <1>4, <1>5 DEF Next

(* At first nobody is trusted and nobody shakes hands. *)
LEMMA GuardedInit == Init => Guarded
BY DEF Init, Guarded, InHand, Kinds, NoBlankCheque

(* Two handshakes, for however many workers and hosts, never lend each other
   an answer, and a wrong certificate passes on nobody's word. *)
THEOREM NoBlankChequeHolds == Spec => []NoBlankCheque
<1>1. TypeOK /\ Guarded /\ [Next]_vars => Guarded'
  BY GuardedStep
<1>2. Guarded => NoBlankCheque
  BY DEF Guarded
<1>3. QED
  BY <1>1, <1>2, GuardedInit, DoubtTyped, PTL DEF Spec
-----------------------------------------------------------------------------
(* The ring of the last answers *)

Window == {k \in 1..Len(word) : k > Len(word) - TrustedMax}
Slot(k) == (k - 1) % TrustedMax

Kept ==
  /\ trustedNext = Len(word)
  /\ \A k \in Window : trusted[Slot(k)] = word[k]
  /\ \A i \in Slots : trusted[i] # NoHost => \E k \in Window : Slot(k) = i
  /\ \A k, l \in Window : word[k] = word[l] => k = l

(* Numbers nearer than that never do. *)
LEMMA NearerApart ==
  ASSUME NEW T \in Nat \ {0}, NEW n \in Nat, NEW m \in Nat, m < n, n - m < T
  PROVE  m % T # n % T
<1>1. SUFFICES ASSUME m % T = n % T PROVE FALSE
  OBVIOUS
<1>2. n = T * (n \div T) + (n % T) /\ n \div T \in Int /\ n % T \in 0..(T - 1)
  BY DivMod
<1>3. m = T * (m \div T) + (m % T) /\ m \div T \in Int /\ m % T \in 0..(T - 1)
  BY DivMod
<1>4. CASE n \div T < m \div T
  BY <1>1, <1>2, <1>3, <1>4, StepApart, SMT
<1>5. CASE m \div T < n \div T
  BY <1>1, <1>2, <1>3, <1>5, StepApart, SMT
<1>6. CASE m \div T = n \div T
  BY <1>1, <1>2, <1>3, <1>6, SMT
<1>7. QED
  BY <1>2, <1>3, <1>4, <1>5, <1>6, SMT

(* So the slots of the ring's length of answers in a row are all different. *)
LEMMA SlotsApart ==
  ASSUME NEW n \in Nat
  PROVE  /\ n % TrustedMax \in Slots
         /\ n >= TrustedMax => (n - TrustedMax) % TrustedMax = n % TrustedMax
         /\ \A m \in Nat : m < n /\ n - m < TrustedMax => m % TrustedMax # n % TrustedMax
<1>1. TrustedMax \in Nat \ {0}
  BY RingAssumption
<1>2. n % TrustedMax \in Slots
  BY <1>1, SMT DEF Slots
<1>3. QED
  BY <1>1, <1>2, RingApart, NearerApart

(* The window is what LastOf cuts off. *)
LEMMA WindowIsLast ==
  ASSUME TypeOK
  PROVE  /\ \A h : Contains(LastOf(word, TrustedMax), h) <=> \E k \in Window : word[k] = h
         /\ ToSet(LastOf(word, TrustedMax)) = {word[k] : k \in Window}
<1> DEFINE n == Len(word)
           m == IF n > TrustedMax THEN n - TrustedMax + 1 ELSE 1
           last == LastOf(word, TrustedMax)
<1>1. n \in Nat /\ word \in Seq(Hosts) /\ TrustedMax \in Nat \ {0}
  BY RingAssumption DEF TypeOK
<1>2. m \in Nat \ {0} /\ m <= n + 1
  BY <1>1, SMT
<1>3. Window = {k \in 1..n : k >= m}
  BY <1>1, SMT DEF Window
<1>4. last = SubSeq(word, m, n)
  BY DEF LastOf
<1> HIDE DEF m, n
<1>5. /\ Len(SubSeq(word, m, n)) = n - m + 1
      /\ DOMAIN SubSeq(word, m, n) = 1..(n - m + 1)
      /\ \A i \in 1..(n - m + 1) : SubSeq(word, m, n)[i] = word[m + i - 1]
  BY <1>1, <1>2 DEF n
<1> HIDE DEF last
<1>6. /\ Len(last) = n - m + 1 /\ DOMAIN last = 1..Len(last)
      /\ \A i \in 1..Len(last) : last[i] = word[m + i - 1]
  BY <1>4, <1>5
<1>7. /\ \A i \in 1..Len(last) : m + i - 1 \in Window
      /\ \A k \in Window : k - m + 1 \in 1..Len(last) /\ m + (k - m + 1) - 1 = k
  BY <1>1, <1>2, <1>3, <1>6, SMT
<1>8. \A h : (\E i \in 1..Len(last) : last[i] = h) <=> \E k \in Window : word[k] = h
  <2> SUFFICES ASSUME NEW h
               PROVE  (\E i \in 1..Len(last) : last[i] = h) <=> \E k \in Window : word[k] = h
    OBVIOUS
  <2>1. ASSUME NEW i \in 1..Len(last), last[i] = h
        PROVE  \E k \in Window : word[k] = h
    BY <1>6, <1>7, <2>1
  <2>2. ASSUME NEW k \in Window, word[k] = h
        PROVE  \E i \in 1..Len(last) : last[i] = h
    <3>1. last[k - m + 1] = word[k]
      BY <1>6, <1>7
    <3>2. QED
      BY <1>7, <2>2, <3>1
  <2>3. QED
    BY <2>1, <2>2
<1>9. QED
  BY <1>6, <1>8 DEF Contains, ToSet, last

(* The ring and the window hold the same hosts, each once. *)
LEMMA KeptIsRing ==
  ASSUME TypeOK, Kept
  PROVE  RingIsWord /\ \A h \in Hosts : Trusted(h) <=> \E k \in Window : word[k] = h
<1>1. \A k \in Window : word[k] \in Hosts /\ Slot(k) \in Slots /\ word[k] # NoHost
  <2> SUFFICES ASSUME NEW k \in Window
               PROVE  word[k] \in Hosts /\ Slot(k) \in Slots
    BY DoubtAssumption
  <2>1. k \in 1..Len(word) /\ word \in Seq(Hosts)
    BY DEF Window, TypeOK
  <2>2. k - 1 \in Nat
    BY <2>1, SMT
  <2>3. QED
    BY <2>1, <2>2, SlotsApart DEF Slot
<1>2. \A i \in Slots : trusted[i] # NoHost => \E k \in Window : Slot(k) = i /\ trusted[i] = word[k]
  BY DEF Kept
<1>3. {trusted[i] : i \in {i \in Slots : trusted[i] # NoHost}} = {word[k] : k \in Window}
  BY <1>1, <1>2 DEF Kept
<1>4. \A i, j \in Slots : trusted[i] # NoHost /\ trusted[j] # NoHost /\ trusted[i] = trusted[j]
                          => i = j
  BY <1>2 DEF Kept
<1>5. RingIsWord
  BY <1>3, <1>4, WindowIsLast DEF RingIsWord
<1>6. \A h \in Hosts : Trusted(h) <=> \E k \in Window : word[k] = h
  BY <1>1, <1>2, DoubtAssumption DEF Kept, Trusted
<1>7. QED
  BY <1>5, <1>6

(* A new answer takes the slot of the one that leaves the window. *)
LEMMA AppendKept ==
  ASSUME TypeOK, Kept, NEW h \in Hosts, ~\E k \in Window : word[k] = h,
         trusted' = [trusted EXCEPT ![trustedNext % TrustedMax] = h],
         trustedNext' = trustedNext + 1, word' = Append(word, h)
  PROVE  Kept'
<1> DEFINE n == Len(word)
<1>1. /\ n \in Nat /\ TrustedMax \in Nat \ {0} /\ trustedNext = n
      /\ Len(word') = n + 1 /\ word'[n + 1] = h
      /\ \A k \in 1..n : word'[k] = word[k]
  BY RingAssumption DEF TypeOK, Kept
<1>2. /\ n + 1 \in Window'
      /\ \A k \in Window' : k = n + 1 \/ (k \in Window /\ k - 1 \in Nat /\ k - 1 < n /\ n - (k - 1) < TrustedMax)
      /\ \A k \in Window : k \in 1..n /\ (k \in Window' \/ (k - 1 = n - TrustedMax /\ n >= TrustedMax))
  BY <1>1, SMT DEF Window
<1>3. Slot(n + 1) = n % TrustedMax /\ n % TrustedMax \in Slots
  <2>1. (n + 1) - 1 = n
    BY <1>1, SMT
  <2>2. QED
    BY <1>1, <2>1, SlotsApart DEF Slot
<1> HIDE DEF n
<1>4. \A k \in Window' : k # n + 1 => Slot(k) # n % TrustedMax
  BY <1>1, <1>2, SlotsApart DEF Slot
<1>5. \A k \in Window : k \notin Window' => Slot(k) = n % TrustedMax
  BY <1>1, <1>2, SlotsApart DEF Slot
<1>6. /\ trusted'[n % TrustedMax] = h
      /\ \A i \in Slots : i # n % TrustedMax => trusted'[i] = trusted[i]
  BY <1>1, <1>3 DEF TypeOK
<1>7. \A k \in Window : Slot(k) \in Slots
  <2> SUFFICES ASSUME NEW k \in Window
               PROVE  Slot(k) \in Slots
    OBVIOUS
  <2>1. k - 1 \in Nat
    BY <1>1, <1>2, SMT
  <2>2. QED
    BY <2>1, SlotsApart DEF Slot
<1>8. \A k \in Window' : trusted'[Slot(k)] = word'[k]
  BY <1>1, <1>2, <1>3, <1>4, <1>6, <1>7 DEF Kept
<1>9. \A i \in Slots : trusted'[i] # NoHost => \E k \in Window' : Slot(k) = i
  BY <1>2, <1>3, <1>5, <1>6 DEF Kept
<1>10. \A k, l \in Window' : word'[k] = word'[l] => k = l
  <2>1. \A k \in Window' : k # n + 1 => k \in Window /\ word'[k] = word[k] /\ word[k] # h
    BY <1>1, <1>2
  <2> SUFFICES ASSUME NEW k \in Window', NEW l \in Window', word'[k] = word'[l]
               PROVE  k = l
    OBVIOUS
  <2>2. CASE k = n + 1 \/ l = n + 1
    BY <1>1, <2>1, <2>2
  <2>3. CASE k # n + 1 /\ l # n + 1
    BY <2>1, <2>3 DEF Kept
  <2>4. QED
    BY <2>2, <2>3
<1>11. trustedNext' = Len(word')
  BY <1>1
<1>12. QED
  BY <1>8, <1>9, <1>10, <1>11 DEF Kept, Slot

(* An empty ring keeps no answers. *)
LEMMA EmptyKept ==
  ASSUME word = <<>>, trustedNext = 0, \A i \in Slots : trusted[i] = NoHost
  PROVE  Kept
<1>1. Len(word) = 0 /\ Window = {}
  BY SMT DEF Window
<1>2. QED
  BY <1>1 DEF Kept

(* Every step keeps the ring: only an answer and a disconnect touch it. *)
LEMMA KeptStep ==
  ASSUME TypeOK, Guarded, Kept, [Next]_vars
  PROVE  Kept'
<1>1. CASE UNCHANGED answers
  BY <1>1 DEF answers, Kept, Window
<1>2. CASE Accept
  <2>1. CASE shown # NoHost /\ ~Contains(LastOf(word, TrustedMax), shown)
    <3>1. asked = shown /\ shown \in Hosts
      BY <2>1 DEF Guarded, TypeOK
    <3>2. ~\E k \in Window : word[k] = shown
      BY <2>1, WindowIsLast
    <3>3. ~Trusted(asked)
      BY <3>1, <3>2, KeptIsRing
    <3>4. QED
      BY <1>2, <2>1, <3>1, <3>2, <3>3, AppendKept DEF Accept, Known, Accepted
  <2>2. CASE ~(shown # NoHost /\ ~Contains(LastOf(word, TrustedMax), shown))
    <3>1. asked = NoHost \/ Trusted(asked)
      <4>1. asked = shown /\ (shown # NoHost => shown \in Hosts)
        BY DEF Guarded, TypeOK
      <4>2. QED
        BY <2>2, <4>1, WindowIsLast, KeptIsRing
    <3>2. UNCHANGED answers
      BY <1>2, <2>2, <3>1 DEF Accept, Known, Accepted, answers
    <3>3. QED
      BY <1>1, <3>2
  <2>3. QED
    BY <2>1, <2>2
<1>3. CASE Disconnect
  <2>1. word' = <<>> /\ trustedNext' = 0 /\ trusted' = [i \in Slots |-> NoHost]
    BY <1>3 DEF Disconnect
  <2>2. Len(word') = 0 /\ Window' = {}
    BY <2>1, SMT DEF Window
  <2>3. QED
    BY <2>1, <2>2 DEF Kept
<1>4. CASE \E w \in Workers : Step(w)
  <2>1. UNCHANGED answers
    BY <1>4 DEF Step, Request, LockHandshake, Shaken, Doubt, Verify
  <2>2. QED
    BY <1>1, <2>1
<1>5. QED
  BY <1>1, <1>2, <1>3, <1>4 DEF Next, Take, vars

(* The ring holds the last answers, each once, for a ring of any size. *)
THEOREM RingIsWordHolds == Spec => []RingIsWord
<1>1. Init => Guarded /\ Kept
  BY GuardedInit, EmptyKept DEF Init
<1>2. TypeOK /\ (Guarded /\ Kept) /\ [Next]_vars => (Guarded /\ Kept)'
  BY KeptStep, GuardedStep
<1>3. TypeOK /\ Kept => RingIsWord
  BY KeptIsRing
<1>4. QED
  BY <1>1, <1>2, <1>3, DoubtTyped, PTL DEF Spec
-----------------------------------------------------------------------------
(* Dates *)

(* The leap years before y, by the rule of fours, hundreds and four hundreds *)
LeapCount(y) == (y - 1) \div 4 - (y - 1) \div 100 + (y - 1) \div 400 - 477

LEMMA LeapStep ==
  ASSUME NEW y \in Nat, y >= 1970
  PROVE  LeapCount(y + 1) = LeapCount(y) + (IF Leap(y) THEN 1 ELSE 0)
<1>1. (y \div 4) = ((y - 1) \div 4) + (IF (y % 4) = 0 THEN 1 ELSE 0)
  BY SMT
<1>2. (y \div 100) = ((y - 1) \div 100) + (IF (y % 100) = 0 THEN 1 ELSE 0)
  BY SMT
<1>3. (y \div 400) = ((y - 1) \div 400) + (IF (y % 400) = 0 THEN 1 ELSE 0)
  BY SMT
<1>4. ((y % 400) = 0 => (y % 100) = 0) /\ ((y % 100) = 0 => (y % 4) = 0)
  BY SMT
<1>5. LeapCount(y + 1) = (y \div 4) - (y \div 100) + (y \div 400) - 477
  BY SMT DEF LeapCount
<1>6. QED
  BY <1>1, <1>2, <1>3, <1>4, <1>5, SMT DEF LeapCount, Leap

LEMMA LeapsCounted ==
  ASSUME NEW y \in Nat, y >= 1970
  PROVE  LeapsBefore(y) = LeapCount(y)
<1> DEFINE L(n) == {k \in 1970..(n - 1) : Leap(k)}
           T == {n \in Nat : IsFiniteSet(L(1970 + n)) /\ Cardinality(L(1970 + n)) = LeapCount(1970 + n)}
<1>1. 0 \in T
  <2>1. L(1970) = {}
    BY SMT
  <2>2. LeapCount(1970) = 0
    BY SMT DEF LeapCount
  <2>3. QED
    BY <2>1, <2>2, FS_EmptySet
<1>2. ASSUME NEW n \in T
      PROVE  n + 1 \in T
  <2> DEFINE z == 1970 + n
  <2>1. z \in Nat /\ z >= 1970 /\ n + 1 \in Nat /\ 1970 + (n + 1) = z + 1
    BY SMT
  <2>2. IsFiniteSet(L(z)) /\ Cardinality(L(z)) = LeapCount(z) /\ z \notin L(z)
    BY SMT
  <2>3. L(z + 1) = IF Leap(z) THEN L(z) \cup {z} ELSE L(z)
    <3>1. 1970..((z + 1) - 1) = (1970..(z - 1)) \cup {z} /\ z \notin 1970..(z - 1)
      BY <2>1, SMT
    <3>2. QED
      BY <3>1
  <2> HIDE DEF z, L
  <2>4. IsFiniteSet(L(z + 1)) /\ Cardinality(L(z + 1)) = LeapCount(z) + (IF Leap(z) THEN 1 ELSE 0)
    <3>1. CASE Leap(z)
      BY <2>2, <2>3, <3>1, FS_AddElement
    <3>2. CASE ~Leap(z)
      <4>1. LeapCount(z) \in Int
        BY <2>1, SMT DEF LeapCount
      <4>2. QED
        BY <2>2, <2>3, <3>2, <4>1, SMT
    <3>3. QED
      BY <3>1, <3>2
  <2>5. IsFiniteSet(L(z + 1)) /\ Cardinality(L(z + 1)) = LeapCount(z + 1)
    BY <2>1, <2>4, LeapStep
  <2>6. QED
    BY <2>1, <2>5
<1>3. T = Nat
  <2> HIDE DEF T
  <2>1. T \in SUBSET Nat
    BY DEF T
  <2>2. QED
    BY <1>1, <1>2, <2>1, Induction
<1>4. y - 1970 \in T /\ 1970 + (y - 1970) = y
  <2> HIDE DEF T
  <2>1. QED
    BY <1>3, SMT
<1>5. QED
  BY <1>4 DEF LeapsBefore

(* The days of a year before its m-th month *)
DaysBefore(y, m) ==
  (CASE m = 1 -> 0 [] m = 2 -> 31 [] m = 3 -> 59 [] m = 4 -> 90 [] m = 5 -> 120 [] m = 6 -> 151
     [] m = 7 -> 181 [] m = 8 -> 212 [] m = 9 -> 243 [] m = 10 -> 273 [] m = 11 -> 304
     [] OTHER -> 334)
  + (IF m > 2 /\ Leap(y) THEN 1 ELSE 0)

DateInv ==
  /\ built \in [y : Years, m : 1..12, d : 1..31] /\ built.d <= LengthOf(built.y, built.m)
  /\ since = 365 * (built.y - 1970) + LeapCount(built.y) + DaysBefore(built.y, built.m) + built.d - 1

LEMMA MonthEnds ==
  ASSUME NEW y \in Nat, y >= 1970, NEW m \in 1..11
  PROVE  DaysBefore(y, m + 1) = DaysBefore(y, m) + LengthOf(y, m)
BY SMT DEF DaysBefore, LengthOf

LEMMA MonthLengths ==
  ASSUME NEW y \in Nat, y >= 1970, NEW m \in 1..12
  PROVE  LengthOf(y, m) \in 1..31 /\ LengthOf(y, 12) = 31 /\ DaysBefore(y, m) \in Nat
         /\ LengthOf(y, 1) = 31 /\ DaysBefore(y, 1) = 0
BY SMT DEF LengthOf, DaysBefore

(* The days of the years before z by eras of four hundred, and by leap years *)
LEMMA Eras ==
  ASSUME NEW z \in Nat
  PROVE  (z \div 400) * 146097 + (z % 400) * 365 + (z % 400) \div 4 - (z % 400) \div 100
           = 365 * z + (z \div 4) - (z \div 100) + (z \div 400)
<1>1. z = 400 * (z \div 400) + (z % 400) /\ z \div 400 \in Nat /\ (z % 400) \in 0..399
  BY SMT
<1>2. ASSUME NEW q \in Nat, NEW r \in 0..399, z = 400 * q + r
      PROVE  z \div 4 = 100 * q + (r \div 4) /\ z \div 100 = 4 * q + (r \div 100)
  BY <1>2, SMT
<1>3. z \div 4 = 100 * (z \div 400) + ((z % 400) \div 4)
      /\ z \div 100 = 4 * (z \div 400) + ((z % 400) \div 100)
  BY <1>1, <1>2
<1>4. QED
  BY <1>1, <1>3, SMT

Ymd(y, m, d) == y * 10000 + m * 100 + d

Count(y, m, d) == 365 * (y - 1970) + LeapCount(y) + DaysBefore(y, m) + d - 1

LEMMA Civil ==
  ASSUME NEW y \in Nat, y >= 1970, NEW m \in 1..12, NEW d \in 1..31
  PROVE  DaysSince1970(Ymd(y, m, d)) = Count(y, m, d)
<1> DEFINE ymd == Ymd(y, m, d)
           z == y - FromMarch(m)
           doy == (153 * (IF m > 2 THEN m - 3 ELSE m + 9) + 2) \div 5 + d - 1
<1>1. (ymd \div 100) % 100 = m /\ ymd \div 10000 = y /\ ymd % 100 = d
  <2>1. ymd \div 100 = y * 100 + m
    BY SMT DEF Ymd
  <2>2. (y * 100 + m) % 100 = m
    BY SMT
  <2>3. ymd \div 10000 = y /\ ymd % 100 = d
    BY SMT DEF Ymd
  <2> HIDE DEF ymd
  <2>4. QED
    BY <2>1, <2>2, <2>3
<1> HIDE DEF ymd
<1>2. DaysSince1970(ymd) = (z \div 400) * 146097 + (z % 400) * 365 + (z % 400) \div 4
                             - (z % 400) \div 100 + doy - 719468
  BY <1>1 DEF DaysSince1970
<1>3. z \in Nat
  BY SMT DEF FromMarch
<1> HIDE DEF z
<1>4. DaysSince1970(ymd) = 365 * z + (z \div 4) - (z \div 100) + (z \div 400) + doy - 719468
  <2>1. doy \in Int
    BY SMT
  <2> HIDE DEF doy
  <2>2. QED
    BY <1>2, <1>3, <2>1, Eras, SMT
<1>5. CASE m > 2
  <2>1. z = y
    BY <1>5, SMT DEF z, FromMarch
  <2>2. (z \div 4) - (z \div 100) + (z \div 400) = LeapCount(y) + (IF Leap(y) THEN 1 ELSE 0) + 477
    <3>1. LeapCount(y + 1) = (y \div 4) - (y \div 100) + (y \div 400) - 477
      BY SMT DEF LeapCount
    <3>2. QED
      BY <2>1, <3>1, LeapStep, SMT DEF LeapCount
  <2>3. doy = DaysBefore(y, m) - (IF Leap(y) THEN 1 ELSE 0) - 59 + d - 1
    BY <1>5, SMT DEF DaysBefore
  <2> HIDE DEF doy
  <2>4. DaysBefore(y, m) \in Nat /\ LeapCount(y) \in Int
    <3>1. LeapCount(y) \in Int
      BY SMT DEF LeapCount
    <3>2. QED
      BY <3>1, MonthLengths
  <2>5. QED
    BY <1>4, <2>1, <2>2, <2>3, <2>4, SMT DEF Count, ymd
<1>6. CASE ~(m > 2)
  <2>1. z = y - 1
    BY <1>6, SMT DEF z, FromMarch
  <2>2. (z \div 4) - (z \div 100) + (z \div 400) = LeapCount(y) + 477
    BY <2>1, SMT DEF LeapCount
  <2>3. doy = DaysBefore(y, m) + 306 + d - 1
    BY <1>6, SMT DEF DaysBefore
  <2> HIDE DEF doy
  <2>4. DaysBefore(y, m) \in Nat /\ LeapCount(y) \in Int
    <3>1. LeapCount(y) \in Int
      BY SMT DEF LeapCount
    <3>2. QED
      BY <3>1, MonthLengths
  <2>5. QED
    BY <1>4, <2>1, <2>2, <2>3, <2>4, SMT DEF Count, ymd
<1>7. QED
  BY <1>5, <1>6

(* On every day of every year from 1970 on, the civil-date arithmetic of
   pspkit_https_time counts the days a calendar counts. *)
THEOREM DaysExactHolds == DateSpec => []DaysExact
<1>1. DateInit => DateInv
  <2> SUFFICES ASSUME NEW y \in Years, built = [y |-> y, m |-> 1, d |-> 1],
                      since = 365 * (y - 1970) + LeapsBefore(y)
               PROVE  DateInv
    BY DEF DateInit
  <2>1. y \in Nat /\ y >= 1970 /\ LeapsBefore(y) = LeapCount(y) /\ LeapCount(y) \in Int
    BY YearsAssumption, LeapsCounted, SMT DEF LeapCount
  <2>2. LengthOf(y, 1) = 31 /\ DaysBefore(y, 1) = 0
    BY <2>1, MonthLengths
  <2>3. built.y = y /\ built.m = 1 /\ built.d = 1 /\ built \in [y : Years, m : 1..12, d : 1..31]
    OBVIOUS
  <2>4. QED
    BY <2>1, <2>2, <2>3, SMT DEF DateInv
<1>2. DateInv /\ [NextDay]_dateVars => DateInv'
  <2> SUFFICES ASSUME DateInv, [NextDay]_dateVars
               PROVE  DateInv'
    OBVIOUS
  <2>1. PICK y, m, d : /\ y = built.y /\ m = built.m /\ d = built.d
                       /\ y \in Years /\ m \in 1..12 /\ d \in 1..31
    BY DEF DateInv
  <2>2. /\ y \in Nat /\ y >= 1970 /\ d <= LengthOf(y, m)
        /\ since = 365 * (y - 1970) + LeapCount(y) + DaysBefore(y, m) + d - 1
        /\ LeapCount(y) \in Int /\ DaysBefore(y, m) \in Nat /\ LengthOf(y, m) \in 1..31
        /\ LengthOf(y, 12) = 31
    BY <2>1, YearsAssumption, MonthLengths, SMT DEF DateInv, LeapCount
  <2>3. CASE NextDay /\ d < LengthOf(y, m)
    <3>1. built' = [built EXCEPT !.d = @ + 1] /\ since' = since + 1
      BY <2>1, <2>3 DEF NextDay
    <3>2. built'.y = y /\ built'.m = m /\ built'.d = d + 1
          /\ built' \in [y : Years, m : 1..12, d : 1..31]
      <4>1. d + 1 \in 1..31
        BY <2>1, <2>2, <2>3, SMT
      <4>2. QED
        BY <2>1, <3>1, <4>1 DEF DateInv
    <3>3. QED
      BY <2>1, <2>2, <2>3, <3>1, <3>2, SMT DEF DateInv
  <2>4. CASE NextDay /\ ~(d < LengthOf(y, m))
    <3>1. d = LengthOf(y, m) /\ m \in 1..11
      <4>1. d = LengthOf(y, m)
        BY <2>1, <2>2, <2>4, SMT
      <4>2. m # 12
        BY <2>1, <2>2, <2>4, <4>1 DEF NextDay
      <4>3. QED
        BY <2>1, <4>1, <4>2, SMT
    <3>2. built' = [y |-> y, m |-> m + 1, d |-> 1] /\ since' = since + 1
      BY <2>1, <2>4 DEF NextDay
    <3>3. built'.y = y /\ built'.m = m + 1 /\ built'.d = 1
          /\ built' \in [y : Years, m : 1..12, d : 1..31] /\ m + 1 \in 1..12
      BY <2>1, <3>1, <3>2, SMT
    <3>4. DaysBefore(y, m + 1) = DaysBefore(y, m) + LengthOf(y, m) /\ LengthOf(y, m + 1) \in 1..31
      BY <2>2, <3>1, <3>3, MonthEnds, MonthLengths
    <3>5. since' = 365 * (y - 1970) + LeapCount(y) + DaysBefore(y, m + 1) + 1 - 1
          /\ 1 <= LengthOf(y, m + 1)
      BY <2>2, <3>1, <3>2, <3>4, SMT
    <3>6. QED
      BY <3>3, <3>5 DEF DateInv
  <2>5. CASE UNCHANGED dateVars
    BY <2>5 DEF dateVars, DateInv
  <2>6. QED
    BY <2>3, <2>4, <2>5
<1>3. DateInv => DaysExact
  <2> SUFFICES ASSUME DateInv
               PROVE  DaysExact
    OBVIOUS
  <2>1. PICK y, m, d : /\ y = built.y /\ m = built.m /\ d = built.d
                       /\ y \in Years /\ m \in 1..12 /\ d \in 1..31
    BY DEF DateInv
  <2>2. y \in Nat /\ y >= 1970
    BY <2>1, YearsAssumption
  <2>3. DaysSince1970(Ymd(y, m, d)) = Count(y, m, d)
    BY <2>1, <2>2, Civil
  <2>4. QED
    BY <2>1, <2>3 DEF DateInv, DaysExact, BuildDay, Ymd, Count
<1>4. QED
  BY <1>1, <1>2, <1>3, PTL DEF DateSpec
-----------------------------------------------------------------------------
(* Texts *)

(* A text that is not empty begins with its first character. *)
LEMMA HeadIs ==
  ASSUME NEW S, NEW s \in Seq(S), s # <<>>
  PROVE  Head(s) = s[1]
<1>1. Len(s) \in Nat /\ Len(s) > 0
  BY LenProperties, EmptySeq, SMT
<1>2. 1 \in 1..Len(s) /\ Len(s) \in 1..Len(s)
  BY <1>1, SMT
<1>3. QED
  BY <1>2, HeadTailOfSubSeq, SubSeqFull

(* Cutting a text leaves characters it had. *)
LEMMA CutIs ==
  ASSUME NEW S, NEW s \in Seq(S), NEW m \in Nat, m > 0, NEW n \in 0..Len(s)
  PROVE  SubSeq(s, m, n) \in Seq(S)
<1>1. Len(s) \in Nat /\ \A i \in 1..Len(s) : s[i] \in S
  BY LenProperties, ElementOfSeq
<1>2. m \in Int /\ n \in Int /\ \A i \in m..n : i \in 1..Len(s)
  BY <1>1, SMT
<1>3. QED
  BY <1>1, <1>2, SubSeqProperties

(* A text is one of the characters it has. *)
LEMMA InSeq ==
  ASSUME NEW S, NEW s \in Seq(S), NEW R, \A i \in 1..Len(s) : s[i] \in R
  PROVE  s \in Seq(R)
<1>1. Len(s) \in Nat /\ 1 \in Int /\ Len(s) \in Int
  BY LenProperties, SMT
<1>2. SubSeq(s, 1, Len(s)) \in Seq(R)
  BY <1>1, SubSeqProperties
<1>3. QED
  BY <1>2, SubSeqFull

(* Short texts *)
LEMMA TextIs ==
  ASSUME NEW S, NEW a \in S
  PROVE  /\ <<a>> \in Seq(S) /\ Len(<<a>>) = 1 /\ Len(<<a>>) \in 1..3
         /\ Head(<<a>>) = a /\ <<a>> # <<>>
         /\ \A b, c, d \in S :
              /\ <<a, b>> \in Seq(S)
              /\ <<a, b, c>> \in Seq(S) /\ Len(<<a, b, c>>) \in 1..3
              /\ <<a, b, c, d>> \in Seq(S) /\ Len(<<a, b, c, d>>) = 4
BY SMT

(* A function on 1..n is a sequence. *)
LEMMA MapIs ==
  ASSUME NEW S, NEW n \in Nat, NEW t \in [1..n -> S]
  PROVE  t \in Seq(S) /\ Len(t) = n
BY SMT

(* One character before a text, and off again *)
LEMMA ConsIs ==
  ASSUME NEW S, NEW c \in S, NEW y \in Seq(S)
  PROVE  /\ <<c>> \o y \in Seq(S) /\ <<c>> \o y # <<>> /\ (<<c>> \o y)[1] = c
         /\ Tail(<<c>> \o y) = y
BY SMT

(* Two texts end to end begin as the first does, unless it is empty. *)
LEMMA FirstIs ==
  ASSUME NEW S, NEW x \in Seq(S), NEW y \in Seq(S)
  PROVE  /\ x \o y \in Seq(S)
         /\ x = <<>> => x \o y = y
         /\ y = <<>> => x \o y = x
         /\ x # <<>> => x \o y # <<>> /\ (x \o y)[1] = x[1]
<1>1. x \o y \in Seq(S) /\ (x = <<>> => x \o y = y) /\ (y = <<>> => x \o y = x)
  BY ConcatProperties, ConcatEmptySeq
<1>2. ASSUME x # <<>>
      PROVE  x \o y # <<>> /\ (x \o y)[1] = x[1]
  <2>1. Len(x) \in Nat /\ Len(x) > 0 /\ Len(y) \in Nat
    BY <1>2, LenProperties, EmptySeq, SMT
  <2>2. 1 \in 1..(Len(x) + Len(y)) /\ 1 <= Len(x) /\ Len(x) + Len(y) # 0
    BY <2>1, SMT
  <2>3. Len(x \o y) # 0 /\ (x \o y)[1] = x[1]
    BY <2>2, ConcatProperties
  <2>4. QED
    BY <2>3, EmptySeq
<1>3. QED
  BY <1>1, <1>2

(* One character before a text *)
LEMMA HeadOfConcat ==
  ASSUME NEW S, NEW x \in Seq(S), Len(x) = 1, x # <<>>, NEW y \in Seq(S)
  PROVE  x \o y \in Seq(S) /\ Len(x \o y) = 1 + Len(y) /\ x \o y # <<>> /\ Head(x \o y) = Head(x)
<1>1. Len(y) \in Nat
  BY LenProperties
<1>2. /\ x \o y \in Seq(S) /\ Len(x \o y) = Len(x) + Len(y)
      /\ \A i \in 1..(Len(x) + Len(y)) : (x \o y)[i] = IF i <= Len(x) THEN x[i] ELSE y[i - Len(x)]
  BY ConcatProperties
<1>3. 1 \in 1..(Len(x) + Len(y)) /\ 1 <= Len(x) /\ Len(x) + Len(y) # 0
  BY <1>1, SMT
<1>4. (x \o y)[1] = x[1] /\ x \o y # <<>>
  BY <1>2, <1>3, EmptySeq
<1>5. QED
  BY <1>2, <1>4, HeadIs

(* Two texts end to end come apart at the length of the first. *)
LEMMA ConcatHalves ==
  ASSUME NEW S, NEW x \in Seq(S), NEW y \in Seq(S)
  PROVE  /\ SubSeq(x \o y, 1, Len(x)) = x
         /\ SubSeq(x \o y, Len(x) + 1, Len(x \o y)) = y
<1> DEFINE s == x \o y
           a == Len(x)
           b == Len(y)
<1>1. a \in Nat /\ b \in Nat
  BY LenProperties
<1>2. /\ s \in Seq(S) /\ Len(s) = a + b
      /\ \A i \in 1..(a + b) : s[i] = IF i <= a THEN x[i] ELSE y[i - a]
  BY ConcatProperties
<1>3. \A i \in 1..(a + b) : s[i] \in S
  BY <1>2, ElementOfSeq
<1> HIDE DEF s, a, b
<1>4. \A i \in 1..a : i \in 1..(a + b) /\ i <= a
  BY <1>1, SMT
<1>5. \A i \in (a + 1)..(a + b) : i \in 1..(a + b)
  BY <1>1, SMT
<1>6. SubSeq(s, 1, a) = x
  <2> DEFINE u == SubSeq(s, 1, a)
  <2>1. 1 \in Int /\ a \in Int /\ \A i \in 1..a : s[i] \in S
    BY <1>1, <1>3, <1>4, SMT
  <2>2. /\ u \in Seq(S) /\ Len(u) = IF 1 <= a THEN a - 1 + 1 ELSE 0
        /\ \A i \in 1..(a - 1 + 1) : u[i] = s[1 + i - 1]
    BY <2>1, SubSeqProperties
  <2>3. (IF 1 <= a THEN a - 1 + 1 ELSE 0) = a /\ a - 1 + 1 = a /\ \A i \in 1..a : 1 + i - 1 = i
    BY <1>1, SMT
  <2> HIDE DEF u
  <2>4. Len(u) = a /\ \A i \in 1..a : u[i] = x[i]
    BY <1>2, <1>4, <2>2, <2>3
  <2>5. u = x
    BY <2>2, <2>4, SeqEqual DEF a
  <2>6. QED
    BY <2>5 DEF u
<1>7. SubSeq(s, a + 1, a + b) = y
  <2> DEFINE u == SubSeq(s, a + 1, a + b)
  <2>1. a + 1 \in Int /\ a + b \in Int /\ \A i \in (a + 1)..(a + b) : s[i] \in S
    BY <1>1, <1>3, <1>5, SMT
  <2>2. /\ u \in Seq(S) /\ Len(u) = IF a + 1 <= a + b THEN (a + b) - (a + 1) + 1 ELSE 0
        /\ \A i \in 1..((a + b) - (a + 1) + 1) : u[i] = s[(a + 1) + i - 1]
    BY <2>1, SubSeqProperties
  <2>3. (IF a + 1 <= a + b THEN (a + b) - (a + 1) + 1 ELSE 0) = b /\ (a + b) - (a + 1) + 1 = b
    BY <1>1, SMT
  <2>4. \A i \in 1..b : /\ (a + 1) + i - 1 = a + i /\ a + i \in 1..(a + b)
                        /\ ~(a + i <= a) /\ (a + i) - a = i
    BY <1>1, SMT
  <2> HIDE DEF u
  <2>5. Len(u) = b /\ \A i \in 1..b : u[i] = y[i]
    BY <1>2, <2>2, <2>3, <2>4
  <2>6. u = y
    BY <2>2, <2>5, SeqEqual DEF b
  <2>7. QED
    BY <2>6 DEF u
<1>8. QED
  BY <1>2, <1>6, <1>7 DEF s, a

(* Their characters are those of the whole. *)
LEMMA PartsIn ==
  ASSUME NEW S, NEW x \in Seq(S), NEW y \in Seq(S), NEW R, x \o y \in Seq(R)
  PROVE  x \in Seq(R) /\ y \in Seq(R)
<1> DEFINE s == x \o y
<1>1. SubSeq(s, 1, Len(x)) = x /\ SubSeq(s, Len(x) + 1, Len(s)) = y
  BY ConcatHalves
<1>2. Len(s) = Len(x) + Len(y) /\ Len(x) \in Nat /\ Len(y) \in Nat /\ s \in Seq(R)
  BY ConcatProperties, LenProperties
<1> HIDE DEF s
<1>3. /\ 1 \in Nat /\ 1 > 0 /\ Len(x) \in 0..Len(s) /\ Len(x) + 1 \in Nat /\ Len(x) + 1 > 0
      /\ Len(s) \in 0..Len(s)
  BY <1>2, SMT
<1>4. SubSeq(s, 1, Len(x)) \in Seq(R) /\ SubSeq(s, Len(x) + 1, Len(s)) \in Seq(R)
  BY <1>2, <1>3, CutIs
<1>5. QED
  BY <1>1, <1>4

(* A text begins with another when something follows that makes it up. *)
LEMMA PrefixIs ==
  ASSUME NEW S, NEW x \in Seq(S), NEW y \in Seq(S)
  PROVE  /\ IsPrefix(x, x \o y)
         /\ IsPrefix(x, y) => /\ SubSeq(y, Len(x) + 1, Len(y)) \in Seq(S)
                              /\ y = x \o SubSeq(y, Len(x) + 1, Len(y))
<1>1. Len(x) \in Nat /\ Len(y) \in Nat
  BY LenProperties
<1>2. IsPrefix(x, x \o y)
  <2>1. SubSeq(x \o y, 1, Len(x)) = x /\ Len(x \o y) = Len(x) + Len(y)
    BY ConcatHalves, ConcatProperties
  <2>2. SubSeq(x, 1, Len(x)) = x
    BY SubSeqFull
  <2>3. Len(x) <= Len(x) + Len(y)
    BY <1>1, SMT
  <2>4. QED
    BY <2>1, <2>2, <2>3 DEF IsPrefix
<1>3. ASSUME IsPrefix(x, y)
      PROVE  /\ SubSeq(y, Len(x) + 1, Len(y)) \in Seq(S)
             /\ y = x \o SubSeq(y, Len(x) + 1, Len(y))
  <2>1. Len(x) <= Len(y) /\ SubSeq(x, 1, Len(x)) = SubSeq(y, 1, Len(x))
    BY <1>3 DEF IsPrefix
  <2>2. SubSeq(y, 1, Len(x)) = x
    BY <2>1, SubSeqFull
  <2>3. /\ 1 \in 1..(Len(y) + 1) /\ Len(x) \in (1 - 1)..Len(y) /\ Len(y) \in Len(x)..Len(y)
        /\ Len(x) + 1 \in Nat /\ Len(x) + 1 > 0 /\ Len(y) \in 0..Len(y)
    BY <1>1, <2>1, SMT
  <2>4. SubSeq(y, 1, Len(x)) \o SubSeq(y, Len(x) + 1, Len(y)) = SubSeq(y, 1, Len(y))
    BY <2>3, ConcatAdjacentSubSeq
  <2>5. SubSeq(y, 1, Len(y)) = y
    BY SubSeqFull
  <2>6. SubSeq(y, Len(x) + 1, Len(y)) \in Seq(S)
    BY <2>3, CutIs
  <2>7. QED
    BY <2>2, <2>4, <2>5, <2>6
<1>4. QED
  BY <1>2, <1>3

(* A character a text has, it has after another text as well. *)
LEMMA BlankKept ==
  ASSUME NEW S, NEW x \in Seq(S), NEW y \in Seq(S), NEW c, Contains(y, c)
  PROVE  Contains(x \o y, c)
<1>1. PICK i \in 1..Len(y) : y[i] = c
  BY DEF Contains
<1>2. Len(x) \in Nat /\ Len(y) \in Nat
  BY LenProperties
<1>3. /\ Len(x) + i \in 1..(Len(x) + Len(y)) /\ ~(Len(x) + i <= Len(x))
      /\ (Len(x) + i) - Len(x) = i
  BY <1>2, SMT
<1>4. Len(x \o y) = Len(x) + Len(y) /\ (x \o y)[Len(x) + i] = y[i]
  BY <1>3, ConcatProperties
<1>5. QED
  BY <1>1, <1>3, <1>4 DEF Contains

(* Three texts end to end, however they are joined: said as an operator, since
   the provers lose their way in nested concatenations. *)
Joins(x, y, z) == \A xy, yz : xy = x \o y /\ yz = y \o z => xy \o z = x \o yz

(* Joining is associative. *)
LEMMA Joined ==
  ASSUME NEW S, NEW x \in Seq(S), NEW y \in Seq(S), NEW z \in Seq(S)
  PROVE  Joins(x, y, z)
BY SMT DEF Joins

(* Laying texts end to end, piece by piece *)
Flattens(f, t, S) ==
  /\ f \in [0..Len(t) -> Seq(S)] /\ f[0] = <<>>
  /\ \A i \in 1..Len(t) : f[i] = f[i - 1] \o t[i]

(* FlattenSeq is the end of such a chain of texts, the only one. *)
LEMMA FlattenIs ==
  ASSUME NEW S, NEW t \in Seq(Seq(S)), NEW f, Flattens(f, t, S)
  PROVE  FlattenSeq(t) = f[Len(t)]
<1> DEFINE n == Len(t)
           g == CHOOSE h : h = [i \in 1..n |-> IF i = 1 THEN t[i] ELSE h[i - 1] \o t[i]]
           r == [i \in 1..n |-> f[i]]
<1>1. n \in Nat /\ \A i \in 1..n : t[i] \in Seq(S)
  BY LenProperties, ElementOfSeq
<1>2. f \in [0..n -> Seq(S)] /\ f[0] = <<>> /\ \A i \in 1..n : f[i] = f[i - 1] \o t[i]
  BY DEF Flattens
<1>3. CASE n = 0
  <2>1. t = <<>>
    BY <1>3, EmptySeq
  <2>2. FlattenSeq(t) = t
    BY <1>3 DEF FlattenSeq
  <2>3. QED
    BY <1>2, <1>3, <2>1, <2>2
<1>4. CASE n # 0
  <2>1. f[1] = t[1]
    <3>1. 1 \in 1..n
      BY <1>1, <1>4, SMT
    <3>2. f[1] = f[1 - 1] \o t[1] /\ t[1] \in Seq(S)
      BY <1>1, <1>2, <3>1
    <3>3. 1 - 1 = 0
      BY SMT
    <3>4. QED
      BY <1>2, <3>2, <3>3, ConcatEmptySeq
  <2>2. ASSUME NEW i \in 1..n
        PROVE  r[i] = IF i = 1 THEN t[i] ELSE r[i - 1] \o t[i]
    <3>1. CASE i = 1
      BY <2>1, <3>1
    <3>2. CASE i # 1
      <4>1. i - 1 \in 1..n
        BY <1>1, <3>2, SMT
      <4>2. r[i] = f[i] /\ r[i - 1] = f[i - 1]
        BY <4>1
      <4>3. QED
        BY <1>2, <3>2, <4>2
    <3>3. QED
      BY <3>1, <3>2
  <2>3. r = [i \in 1..n |-> IF i = 1 THEN t[i] ELSE r[i - 1] \o t[i]]
    BY <2>2
  <2>4. g = [i \in 1..n |-> IF i = 1 THEN t[i] ELSE g[i - 1] \o t[i]]
    BY <2>3
  <2>5. FlattenSeq(t) = g[n]
    BY <1>4 DEF FlattenSeq
  <2> HIDE DEF g
  <2>6. \A i \in 1..n : g[i] = f[i]
    <3> DEFINE T == {i \in Nat : i \in 1..n => g[i] = f[i]}
    <3>1. 0 \in T
      BY SMT
    <3>2. ASSUME NEW i \in T
          PROVE  i + 1 \in T
      <4>1. CASE i = 0
        BY <1>1, <2>1, <2>4, <4>1, SMT
      <4>2. CASE i # 0 /\ i + 1 \in 1..n
        <5>1. i + 1 \in Nat /\ i \in 1..n /\ i + 1 # 1 /\ (i + 1) - 1 = i /\ g[i] = f[i]
          BY <1>1, <4>2, SMT
        <5>2. g[i + 1] = g[i] \o t[i + 1]
          BY <2>4, <4>2, <5>1
        <5>3. f[i + 1] = f[i] \o t[i + 1]
          BY <1>2, <4>2, <5>1
        <5>4. QED
          BY <5>1, <5>2, <5>3
      <4>3. CASE ~(i + 1 \in 1..n)
        BY <4>3
      <4>4. QED
        BY <4>1, <4>2, <4>3
    <3>3. T = Nat
      <4> HIDE DEF T
      <4>1. T \in SUBSET Nat
        BY DEF T
      <4>2. QED
        BY <3>1, <3>2, <4>1, Induction
    <3>4. ASSUME NEW i \in 1..n
          PROVE  g[i] = f[i]
      <4>1. i \in Nat
        BY <1>1, SMT
      <4>2. QED
        BY <3>3, <4>1
    <3>5. QED
      BY <3>4
  <2>7. n \in 1..n
    BY <1>1, <1>4, SMT
  <2>8. QED
    BY <2>5, <2>6, <2>7
<1>5. QED
  BY <1>3, <1>4

(* There is such a chain for all pieces. *)
LEMMA FlattenStep ==
  ASSUME NEW S, NEW t \in Seq(Seq(S))
  PROVE  \E f : Flattens(f, t, S)
<1> DEFINE n == Len(t)
           B == Seq(S)
           b == <<>>
           F == [i \in Nat |-> [x \in B |-> IF i \in 1..n THEN x \o t[i] ELSE x]]
<1>1. n \in Nat /\ \A i \in 1..n : t[i] \in Seq(S)
  BY LenProperties, ElementOfSeq
<1>2. b \in B
  BY EmptySeq
<1>3. IsStep(F, B)
  <2>1. ASSUME NEW i \in Nat, NEW x \in B
        PROVE  (IF i \in 1..n THEN x \o t[i] ELSE x) \in B
    BY <1>1, ConcatProperties
  <2>2. QED
    BY <2>1 DEF IsStep
<1>4. PICK f : Computes(f, B, b, F, n)
  <2> HIDE DEF F, n, B, b
  <2>1. QED
    BY <1>1, <1>2, <1>3, Recursion
<1>5. f \in [0..n -> B] /\ f[0] = b /\ \A i \in 1..n : f[i] = F[i][f[i - 1]]
  BY <1>4 DEF Computes
<1>6. ASSUME NEW i \in 1..n
      PROVE  f[i] = f[i - 1] \o t[i]
  <2>1. i \in Nat /\ i - 1 \in 0..n
    BY <1>1, SMT
  <2>2. f[i - 1] \in B
    BY <1>5, <2>1
  <2>3. F[i][f[i - 1]] = f[i - 1] \o t[i]
    BY <2>1, <2>2
  <2>4. QED
    BY <1>5, <2>3
<1>7. QED
  BY <1>5, <1>6 DEF Flattens

(* What the pieces are made of is what the whole is made of, the last piece
   is the end of it and a first that is not empty its beginning. *)
LEMMA Flattened ==
  ASSUME NEW S, NEW t \in Seq(Seq(S))
  PROVE  /\ FlattenSeq(t) \in Seq(S)
         /\ t # <<>> => FlattenSeq(t) = FlattenSeq(Front(t)) \o t[Len(t)]
         /\ t # <<>> /\ t[1] # <<>> =>
              FlattenSeq(t) # <<>> /\ Head(FlattenSeq(t)) = Head(t[1])
<1> DEFINE n == Len(t)
<1>1. n \in Nat /\ \A i \in 1..n : t[i] \in Seq(S)
  BY LenProperties, ElementOfSeq
<1>2. PICK f : Flattens(f, t, S)
  BY FlattenStep
<1>3. f \in [0..n -> Seq(S)] /\ f[0] = <<>> /\ \A i \in 1..n : f[i] = f[i - 1] \o t[i]
  BY <1>2 DEF Flattens
<1>4. FlattenSeq(t) = f[n]
  BY <1>2, FlattenIs
<1>5. FlattenSeq(t) \in Seq(S)
  BY <1>1, <1>3, <1>4, SMT
<1>6. ASSUME t # <<>>
      PROVE  FlattenSeq(t) = FlattenSeq(Front(t)) \o t[n]
  <2> DEFINE u == SubSeq(t, 1, n - 1)
             h == [i \in 0..(n - 1) |-> f[i]]
  <2>1. n > 0
    BY <1>6, <1>1, EmptySeq, SMT
  <2>2. u \in Seq(Seq(S)) /\ Len(u) = n - 1 /\ \A i \in 1..(n - 1) : u[i] = t[i]
    <3>1. n - 1 \in Int /\ 1 \in Int /\ \A i \in 1..(n - 1) : t[i] \in Seq(S)
      BY <1>1, SMT
    <3>2. /\ u \in Seq(Seq(S)) /\ Len(u) = IF 1 <= n - 1 THEN (n - 1) - 1 + 1 ELSE 0
          /\ \A i \in 1..((n - 1) - 1 + 1) : u[i] = t[1 + i - 1]
      BY <3>1, SubSeqProperties
    <3>3. Len(u) = n - 1
      <4> HIDE DEF n, u
      <4>1. (IF 1 <= n - 1 THEN (n - 1) - 1 + 1 ELSE 0) = n - 1
        BY <1>1, <2>1, SMT
      <4>2. QED
        BY <3>2, <4>1
    <3>4. ASSUME NEW i \in 1..(n - 1)
          PROVE  u[i] = t[i]
      <4>1. i \in 1..((n - 1) - 1 + 1) /\ 1 + i - 1 = i
        BY <1>1, SMT
      <4>2. QED
        BY <3>2, <4>1
    <3>5. QED
      BY <3>2, <3>3, <3>4
  <2>3. h \in [0..(n - 1) -> Seq(S)] /\ h[0] = <<>>
    BY <1>1, <1>3, <2>1, SMT
  <2>4. ASSUME NEW i \in 1..(n - 1)
        PROVE  h[i] = h[i - 1] \o u[i]
    <3>1. i \in 1..n /\ i \in 0..(n - 1) /\ i - 1 \in 0..(n - 1)
      BY <1>1, SMT
    <3>2. h[i] = f[i] /\ h[i - 1] = f[i - 1]
      BY <3>1
    <3>3. QED
      BY <1>3, <2>2, <3>1, <3>2
  <2>5. Flattens(h, u, S)
    <3> HIDE DEF h, u
    <3>1. QED
      BY <2>2, <2>3, <2>4 DEF Flattens
  <2>6. FlattenSeq(u) = f[n - 1]
    <3>1. h[n - 1] = f[n - 1]
      BY <1>1, <2>1, SMT
    <3> HIDE DEF h, u
    <3>2. FlattenSeq(u) = h[Len(u)]
      BY <2>2, <2>5, FlattenIs
    <3>3. QED
      BY <2>2, <3>1, <3>2
  <2>7. n \in 1..n
    BY <1>1, <2>1, SMT
  <2>8. QED
    BY <1>3, <1>4, <2>6, <2>7 DEF Front
<1>7. ASSUME t # <<>>, t[1] # <<>>
      PROVE  FlattenSeq(t) # <<>> /\ Head(FlattenSeq(t)) = Head(t[1])
  <2> DEFINE T == {i \in Nat : i + 1 \in 1..n => f[i + 1] # <<>> /\ Head(f[i + 1]) = Head(t[1])}
  <2>1. n > 0
    BY <1>7, <1>1, EmptySeq, SMT
  <2>2. 0 \in T
    <3>1. 1 \in 1..n /\ 1 - 1 = 0 /\ 0 + 1 = 1
      BY <1>1, <2>1, SMT
    <3>2. f[1] = f[0] \o t[1] /\ t[1] \in Seq(S)
      BY <1>1, <1>3, <3>1
    <3>3. f[1] = t[1]
      BY <1>3, <3>2, ConcatEmptySeq
    <3>4. QED
      BY <1>7, <3>1, <3>3
  <2>3. ASSUME NEW i \in T
        PROVE  i + 1 \in T
    <3>1. CASE (i + 1) + 1 \in 1..n
      <4>1. i \in Nat /\ i + 1 \in 1..n /\ ((i + 1) + 1) - 1 = i + 1
        BY <1>1, <3>1, SMT
      <4> DEFINE x == f[i + 1]
                 y == t[(i + 1) + 1]
      <4>2. x # <<>> /\ Head(x) = Head(t[1])
        BY <4>1
      <4>3. x \in Seq(S) /\ y \in Seq(S)
        <5>1. i + 1 \in 0..n
          BY <1>1, <4>1, SMT
        <5>2. QED
          BY <1>1, <1>3, <3>1, <5>1
      <4>4. f[(i + 1) + 1] = x \o y
        BY <1>3, <3>1, <4>1
      <4> HIDE DEF x, y
      <4>5. Len(x) \in Nat /\ Len(x) > 0 /\ Len(y) \in Nat
        BY <4>2, <4>3, LenProperties, EmptySeq, SMT
      <4>6. /\ x \o y \in Seq(S) /\ Len(x \o y) = Len(x) + Len(y)
            /\ \A k \in 1..(Len(x) + Len(y)) : (x \o y)[k] = IF k <= Len(x) THEN x[k] ELSE y[k - Len(x)]
        BY <4>3, ConcatProperties
      <4>7. x \o y # <<>> /\ (x \o y)[1] = x[1]
        BY <4>5, <4>6, EmptySeq, SMT
      <4>8. Head(x \o y) = Head(x)
        BY <4>2, <4>3, <4>6, <4>7, HeadIs
      <4>9. QED
        BY <4>1, <4>2, <4>4, <4>7, <4>8
    <3>2. CASE ~((i + 1) + 1 \in 1..n)
      BY <3>2
    <3>3. QED
      BY <3>1, <3>2
  <2>4. T = Nat
    <3> HIDE DEF T
    <3>1. T \in SUBSET Nat
      BY DEF T
    <3>2. QED
      BY <2>2, <2>3, <3>1, Induction
  <2>5. n - 1 \in Nat /\ (n - 1) + 1 = n /\ n \in 1..n
    BY <1>1, <2>1, SMT
  <2>6. n - 1 \in T
    BY <2>4, <2>5
  <2>7. QED
    BY <1>4, <2>5, <2>6
<1>8. QED
  BY <1>5, <1>6, <1>7

(* Flattening two lists of pieces end to end is flattening each. *)
LEMMA FlattenConcat ==
  ASSUME NEW S, NEW t \in Seq(Seq(S)), NEW v \in Seq(Seq(S))
  PROVE  FlattenSeq(t \o v) = FlattenSeq(t) \o FlattenSeq(v)
<1> DEFINE n == Len(t)
           m == Len(v)
           w == t \o v
<1>1. n \in Nat /\ m \in Nat
  BY LenProperties
<1>2. PICK f : Flattens(f, t, S)
  BY FlattenStep
<1>3. PICK g : Flattens(g, v, S)
  BY FlattenStep
<1>4. f \in [0..n -> Seq(S)] /\ f[0] = <<>> /\ \A i \in 1..n : f[i] = f[i - 1] \o t[i]
  BY <1>2 DEF Flattens
<1>5. g \in [0..m -> Seq(S)] /\ g[0] = <<>> /\ \A i \in 1..m : g[i] = g[i - 1] \o v[i]
  BY <1>3 DEF Flattens
<1>6. FlattenSeq(t) = f[n] /\ FlattenSeq(v) = g[m]
  BY <1>2, <1>3, FlattenIs
<1>7. /\ w \in Seq(Seq(S)) /\ Len(w) = n + m
      /\ \A i \in 1..(n + m) : w[i] = IF i <= n THEN t[i] ELSE v[i - n]
  BY ConcatProperties
<1>8. \A i \in 1..m : v[i] \in Seq(S)
  BY ElementOfSeq
<1> DEFINE h == [i \in 0..(n + m) |-> IF i <= n THEN f[i] ELSE f[n] \o g[i - n]]
<1> HIDE DEF n, m, w
<1>9. n \in 0..n /\ m \in 0..m /\ 0 \in 0..(n + m) /\ 0 <= n /\ n + m \in 0..(n + m)
  BY <1>1, SMT
<1>10. \A i \in 0..(n + m) : (i <= n => i \in 0..n) /\ (~(i <= n) => i - n \in 0..m)
  BY <1>1, SMT
<1>11. h \in [0..(n + m) -> Seq(S)] /\ h[0] = <<>>
  <2>1. ASSUME NEW i \in 0..(n + m)
        PROVE  (IF i <= n THEN f[i] ELSE f[n] \o g[i - n]) \in Seq(S)
    <3>1. CASE i <= n
      BY <1>4, <1>10, <3>1
    <3>2. CASE ~(i <= n)
      <4>1. f[n] \in Seq(S) /\ g[i - n] \in Seq(S)
        BY <1>4, <1>5, <1>9, <1>10, <3>2
      <4>2. QED
        BY <3>2, <4>1, ConcatProperties
    <3>3. QED
      BY <3>1, <3>2
  <2>2. h[0] = f[0]
    BY <1>9
  <2>3. QED
    BY <1>4, <2>1, <2>2
<1>12. ASSUME NEW i \in 1..(n + m)
       PROVE  h[i] = h[i - 1] \o w[i]
  <2>1. i \in 0..(n + m) /\ i - 1 \in 0..(n + m)
    BY <1>1, SMT
  <2>2. CASE i <= n
    <3>1. i \in 1..n /\ i - 1 <= n
      BY <1>1, <2>2, SMT
    <3>2. h[i] = f[i] /\ h[i - 1] = f[i - 1] /\ w[i] = t[i]
      BY <1>7, <2>1, <2>2, <3>1
    <3>3. QED
      BY <1>4, <3>1, <3>2
  <2>3. CASE ~(i <= n)
    <3> DEFINE k == i - n
    <3>1. k \in 1..m /\ k - 1 \in 0..m /\ (i - 1) - n = k - 1 /\ (i - 1 <= n => i - 1 = n /\ k - 1 = 0)
      BY <1>1, <2>3, SMT
    <3>2. h[i] = f[n] \o g[k] /\ w[i] = v[k]
      BY <1>7, <2>1, <2>3
    <3>3. h[i - 1] = f[n] \o g[k - 1]
      <4>1. CASE i - 1 <= n
        <5>1. h[i - 1] = f[n] /\ g[k - 1] = <<>>
          BY <1>5, <2>1, <3>1, <4>1
        <5>2. f[n] \in Seq(S)
          BY <1>4, <1>9
        <5> HIDE DEF h, k
        <5>3. QED
          BY <5>1, <5>2, ConcatEmptySeq
      <4>2. CASE ~(i - 1 <= n)
        BY <2>1, <3>1, <4>2
      <4>3. QED
        BY <4>1, <4>2
    <3>4. g[k] = g[k - 1] \o v[k]
      BY <1>5, <3>1
    <3>5. f[n] \in Seq(S) /\ g[k - 1] \in Seq(S) /\ v[k] \in Seq(S)
      BY <1>4, <1>5, <1>8, <1>9, <3>1 DEF m
    <3> HIDE DEF h, k
    <3> DEFINE z == g[k - 1] \o v[k]
               y == f[n] \o g[k - 1]
    <3>6. f[n] \o z = y \o v[k]
      <4>1. z = g[k - 1] \o v[k] /\ y = f[n] \o g[k - 1]
        OBVIOUS
      <4> HIDE DEF z, y
      <4>2. QED
        <5>1. Joins(f[n], g[k - 1], v[k])
          BY <3>5, Joined
        <5>2. QED
          BY <4>1, <5>1 DEF Joins
    <3>7. QED
      BY <3>2, <3>3, <3>4, <3>6
  <2>4. QED
    BY <2>2, <2>3
<1>13. Flattens(h, w, S)
  <2> HIDE DEF h
  <2>1. QED
    BY <1>7, <1>11, <1>12 DEF Flattens
<1>14. FlattenSeq(w) = h[n + m]
  <2> HIDE DEF h
  <2>1. QED
    BY <1>7, <1>13, FlattenIs
<1>15. h[n + m] = f[n] \o g[m]
  <2>1. CASE m = 0
    <3>1. h[n + m] = f[n] /\ g[m] = <<>> /\ f[n] \in Seq(S)
      BY <1>1, <1>4, <1>5, <1>9, <2>1, SMT
    <3> HIDE DEF h
    <3>2. QED
      BY <3>1, ConcatEmptySeq
  <2>2. CASE m # 0
    <3>1. ~(n + m <= n) /\ (n + m) - n = m
      BY <1>1, <2>2, SMT
    <3>2. QED
      BY <1>9, <3>1
  <2>3. QED
    BY <2>1, <2>2
<1>16. QED
  BY <1>6, <1>14, <1>15 DEF w

-----------------------------------------------------------------------------
(* How the code cuts a text *)

(* strcspn stops at the first of its stops, or at the end. *)
LEMMA UptoIs ==
  ASSUME NEW S, NEW s \in Seq(S), NEW stops
  PROVE  /\ Upto(s, stops) \in Seq(S \ stops) /\ Len(Upto(s, stops)) <= Len(s)
         /\ Upto(s, stops) = SubSeq(s, 1, Len(Upto(s, stops)))
         /\ Len(Upto(s, stops)) < Len(s) => s[Len(Upto(s, stops)) + 1] \in stops
         /\ s # <<>> /\ s[1] \notin stops =>
              Upto(s, stops) # <<>> /\ Upto(s, stops)[1] = s[1]
<1> DEFINE I == {i \in 1..Len(s) : s[i] \in stops}
           n == SelectInSeq(s, LAMBDA c : c \in stops)
<1>1. Len(s) \in Nat /\ \A i \in 1..Len(s) : s[i] \in S
  BY LenProperties, ElementOfSeq
<1>2. n = IF I # {} THEN Min(I) ELSE 0
  BY DEF SelectInSeq
<1>3. I \in SUBSET Nat
  BY <1>1, SMT
<1>4. Upto(s, stops) = IF n = 0 THEN s ELSE SubSeq(s, 1, n - 1)
  BY DEF Upto
<1> HIDE DEF n
<1>5. CASE I = {}
  <2>1. Upto(s, stops) = s
    BY <1>2, <1>4, <1>5
  <2>2. \A i \in 1..Len(s) : s[i] \in S \ stops
    BY <1>1, <1>5
  <2>3. s \in Seq(S \ stops)
    <3>1. SubSeq(s, 1, Len(s)) \in Seq(S \ stops)
      BY <1>1, <2>2, SubSeqProperties
    <3>2. QED
      BY <3>1, SubSeqFull
  <2>4. Len(s) <= Len(s) /\ ~(Len(s) < Len(s))
    BY <1>1, SMT
  <2>5. QED
    BY <2>1, <2>3, <2>4, SubSeqFull
<1>6. CASE I # {}
  <2>1. n \in I /\ \A i \in I : n <= i
    <3> HIDE DEF I
    <3>1. QED
      BY <1>2, <1>3, <1>6, MinOfNat
  <2>2. n \in 1..Len(s) /\ n # 0 /\ s[n] \in stops
    BY <1>1, <2>1, SMT
  <2>3. \A i \in 1..(n - 1) : s[i] \in S \ stops
    <3> SUFFICES ASSUME NEW i \in 1..(n - 1)
                 PROVE  s[i] \in S \ stops
      OBVIOUS
    <3>1. i \in 1..Len(s) /\ ~(n <= i)
      BY <1>1, <2>2, SMT
    <3>2. QED
      BY <1>1, <2>1, <3>1
  <2> DEFINE u == SubSeq(s, 1, n - 1)
  <2>4. /\ u \in Seq(S \ stops)
        /\ Len(u) = IF 1 <= n - 1 THEN (n - 1) - 1 + 1 ELSE 0
        /\ \A i \in 1..((n - 1) - 1 + 1) : u[i] = s[1 + i - 1]
    <3>1. 1 \in Int /\ n - 1 \in Int
      BY <2>2, SMT
    <3>2. QED
      BY <2>3, <3>1, SubSeqProperties
  <2>5. (IF 1 <= n - 1 THEN (n - 1) - 1 + 1 ELSE 0) = n - 1 /\ n - 1 <= Len(s)
    BY <1>1, <2>2, SMT
  <2>6. Upto(s, stops) = u
    BY <1>4, <2>2
  <2>7. ASSUME s # <<>>, s[1] \notin stops
        PROVE  u # <<>> /\ u[1] = s[1]
    <3>1. n # 1
      BY <2>2, <2>7
    <3>2. 1 \in 1..((n - 1) - 1 + 1) /\ 1 + 1 - 1 = 1 /\ n - 1 > 0
      BY <1>1, <2>2, <3>1, SMT
    <3> HIDE DEF u
    <3>3. u[1] = s[1]
      BY <2>4, <3>2
    <3>4. Len(u) > 0
      BY <2>4, <2>5, <3>2
    <3>5. QED
      BY <2>4, <3>3, <3>4, EmptySeq, SMT
  <2>8. (n - 1) + 1 = n
    BY <2>2, SMT
  <2>9. Len(u) = n - 1
    BY <2>4, <2>5
  <2> HIDE DEF u
  <2>10. Len(u) <= Len(s) /\ u = SubSeq(s, 1, Len(u)) /\ s[Len(u) + 1] \in stops
    BY <2>2, <2>5, <2>8, <2>9 DEF u
  <2>11. QED
    BY <2>4, <2>6, <2>7, <2>10
<1>7. QED
  BY <1>5, <1>6

(* What is from a stop on has characters the text had. *)
LEMMA FromIs ==
  ASSUME NEW S, NEW s \in Seq(S), NEW stops
  PROVE  From(s, stops) \in Seq(S)
<1>1. Len(s) \in Nat /\ Len(Upto(s, stops)) \in Nat
  BY UptoIs, LenProperties
<1>2. Len(Upto(s, stops)) + 1 \in Nat /\ Len(Upto(s, stops)) + 1 > 0 /\ Len(s) \in 0..Len(s)
  BY <1>1, SMT
<1>3. QED
  BY <1>2, CutIs DEF From

(* A cut is where the first of the stops is. *)
LEMMA SplitIs ==
  ASSUME NEW S, NEW stops, NEW x \in Seq(S \ stops), NEW y \in Seq(S),
         y = <<>> \/ y[1] \in stops
  PROVE  Upto(x \o y, stops) = x /\ From(x \o y, stops) = y
<1> DEFINE s == x \o y
           u == Upto(s, stops)
<1>1. x \in Seq(S)
  <2>1. S \ stops \subseteq S
    OBVIOUS
  <2>2. QED
    BY <2>1, SeqMonotonic
<1>2. Len(x) \in Nat /\ Len(y) \in Nat /\ \A i \in 1..Len(x) : x[i] \notin stops
  BY <1>1, LenProperties, ElementOfSeq
<1>3. /\ s \in Seq(S) /\ Len(s) = Len(x) + Len(y)
      /\ \A i \in 1..(Len(x) + Len(y)) : s[i] = IF i <= Len(x) THEN x[i] ELSE y[i - Len(x)]
  BY <1>1, ConcatProperties
<1> HIDE DEF s
<1>4. /\ u \in Seq(S \ stops) /\ Len(u) <= Len(s) /\ u = SubSeq(s, 1, Len(u))
      /\ Len(u) < Len(s) => s[Len(u) + 1] \in stops
  BY <1>3, UptoIs
<1>5. Len(u) \in Nat /\ \A i \in 1..Len(u) : u[i] \notin stops
  BY <1>4, LenProperties, ElementOfSeq
<1>6. \A i \in 1..Len(u) : u[i] = s[i]
  <2>1. \A i \in 1..Len(u) : i \in 1..Len(s)
    BY <1>2, <1>3, <1>4, <1>5, SMT
  <2>2. 1 \in Int /\ Len(u) \in Int /\ \A i \in 1..Len(u) : s[i] \in S
    BY <1>3, <1>5, <2>1, ElementOfSeq, SMT
  <2> DEFINE m == Len(u)
             v == SubSeq(s, 1, m)
  <2>3. \A i \in 1..(m - 1 + 1) : v[i] = s[1 + i - 1]
    BY <2>2, SubSeqProperties
  <2>4. m - 1 + 1 = m /\ \A i \in 1..m : 1 + i - 1 = i
    <3>1. m \in Nat
      BY <1>5
    <3> HIDE DEF m
    <3>2. QED
      BY <3>1, SMT
  <2>5. v = u
    BY <1>4
  <2> HIDE DEF v, u
  <2>6. QED
    BY <2>3, <2>4, <2>5
<1> HIDE DEF u
<1>7. ~(Len(u) < Len(x))
  <2> SUFFICES ASSUME Len(u) < Len(x)
               PROVE  FALSE
    OBVIOUS
  <2>1. /\ Len(u) < Len(s) /\ Len(u) + 1 \in 1..Len(x)
        /\ Len(u) + 1 \in 1..(Len(x) + Len(y)) /\ Len(u) + 1 <= Len(x)
    BY <1>2, <1>3, <1>5, SMT
  <2>2. s[Len(u) + 1] = x[Len(u) + 1]
    BY <1>3, <2>1
  <2>3. QED
    BY <1>2, <1>4, <2>1, <2>2
<1>8. ~(Len(x) < Len(u))
  <2> SUFFICES ASSUME Len(x) < Len(u)
               PROVE  FALSE
    OBVIOUS
  <2>1. /\ Len(x) + 1 \in 1..Len(u) /\ Len(y) > 0
        /\ Len(x) + 1 \in 1..(Len(x) + Len(y)) /\ ~(Len(x) + 1 <= Len(x))
        /\ (Len(x) + 1) - Len(x) = 1
    BY <1>2, <1>3, <1>4, <1>5, SMT
  <2>2. s[Len(x) + 1] = y[1]
    BY <1>3, <2>1
  <2>3. y # <<>>
    BY <2>1, EmptySeq, SMT
  <2>4. QED
    BY <1>5, <1>6, <2>1, <2>2, <2>3
<1>9. Len(u) = Len(x)
  BY <1>2, <1>5, <1>7, <1>8, SMT
<1>10. SubSeq(s, 1, Len(x)) = x /\ SubSeq(s, Len(x) + 1, Len(s)) = y
  BY <1>1, ConcatHalves DEF s
<1>11. u = x
  BY <1>4, <1>9, <1>10
<1>12. From(s, stops) = SubSeq(s, Len(u) + 1, Len(s))
  BY DEF From, u
<1>13. QED
  BY <1>9, <1>10, <1>11, <1>12 DEF s, u

(* Every text comes apart at the first of the stops. *)
LEMMA SplitExists ==
  ASSUME NEW S, NEW s \in Seq(S), NEW stops
  PROVE  /\ Upto(s, stops) \in Seq(S \ stops) /\ Upto(s, stops) \in Seq(S)
         /\ From(s, stops) \in Seq(S)
         /\ Upto(s, stops) \o From(s, stops) = s
         /\ From(s, stops) = <<>> \/ From(s, stops)[1] \in stops
<1> DEFINE u == Upto(s, stops)
           f == SubSeq(s, Len(u) + 1, Len(s))
<1>1. /\ u \in Seq(S \ stops) /\ Len(u) <= Len(s) /\ u = SubSeq(s, 1, Len(u))
      /\ Len(u) < Len(s) => s[Len(u) + 1] \in stops
  BY UptoIs
<1>2. u \in Seq(S)
  <2>1. S \ stops \subseteq S
    OBVIOUS
  <2> HIDE DEF u
  <2>2. QED
    BY <1>1, <2>1, SeqMonotonic
<1>3. Len(u) \in Nat /\ Len(s) \in Nat
  BY <1>2, LenProperties
<1>4. From(s, stops) = f
  BY DEF From
<1>5. f \in Seq(S)
  BY <1>4, FromIs
<1> HIDE DEF u
<1>6. SubSeq(s, 1, Len(u)) \o f = s
  <2>1. 1 \in 1..(Len(s) + 1) /\ Len(u) \in (1 - 1)..Len(s) /\ Len(s) \in Len(u)..Len(s)
    BY <1>1, <1>3, SMT
  <2>2. SubSeq(s, 1, Len(u)) \o SubSeq(s, Len(u) + 1, Len(s)) = SubSeq(s, 1, Len(s))
    BY <2>1, ConcatAdjacentSubSeq
  <2>3. QED
    BY <2>2, SubSeqFull
<1>7. f = <<>> \/ f[1] \in stops
  <2>1. CASE Len(u) < Len(s)
    <3> DEFINE m == Len(u) + 1
               n == Len(s)
    <3>1. m \in Int /\ n \in Int /\ (\A i \in m..n : i \in 1..n) /\ 1 \in 1..(n - m + 1) /\ m + 1 - 1 = m
      BY <1>3, <2>1, SMT
    <3>2. \A i \in m..n : s[i] \in S
      BY <3>1, ElementOfSeq
    <3> HIDE DEF m, n
    <3>3. SubSeq(s, m, n)[1] = s[m + 1 - 1]
      BY <3>1, <3>2, SubSeqProperties
    <3>4. QED
      BY <1>1, <2>1, <3>1, <3>3 DEF m, n
  <2>2. CASE ~(Len(u) < Len(s))
    <3>1. Len(s) < Len(u) + 1 /\ Len(u) + 1 \in Int /\ Len(s) \in Int
      BY <1>3, <2>2, SMT
    <3>2. QED
      BY <3>1, SubSeqEmpty
  <2>3. QED
    BY <2>1, <2>2
<1> HIDE DEF f
<1>8. QED
  BY <1>1, <1>2, <1>4, <1>5, <1>6, <1>7 DEF u

(* What strrchr leaves of a path that begins at the root does so too. *)
LEMMA DirectoryIs ==
  ASSUME NEW S, NEW path \in Seq(S)
  PROVE  /\ Directory(path) \in Seq(S)
         /\ path # <<>> /\ path[1] = "/" => Directory(path) # <<>> /\ Directory(path)[1] = "/"
<1> DEFINE I == {i \in 1..Len(path) : path[i] = "/"}
           n == SelectLastInSeq(path, LAMBDA c : c = "/")
<1>1. Len(path) \in Nat
  BY LenProperties
<1>2. n = IF I # {} THEN Max(I) ELSE 0
  BY DEF SelectLastInSeq
<1>3. Directory(path) = IF n = 0 THEN path ELSE SubSeq(path, 1, n)
  BY DEF Directory
<1> HIDE DEF n
<1>4. CASE I # {}
  <2>1. I \in SUBSET Nat /\ \A i \in I : i <= Len(path)
    BY <1>1, SMT
  <2>2. \E m \in I : \A i \in I : i <= m
    <3> HIDE DEF I
    <3>1. QED
      BY <1>1, <1>4, <2>1, GreatestOfNat
  <2>3. \E m \in I : \A i \in I : m >= i
    BY <1>1, <2>2, SMT
  <2>4. n \in I
    <3> HIDE DEF I
    <3>1. QED
      BY <1>2, <1>4, <2>3 DEF Max
  <2>5. n \in 0..Len(path) /\ 1 \in Nat /\ 1 > 0
    BY <1>1, <2>4, SMT
  <2>6. SubSeq(path, 1, n) \in Seq(S)
    BY <2>5, CutIs
  <2>7. SubSeq(path, 1, n) # <<>> /\ SubSeq(path, 1, n)[1] = path[1]
    <3>1. /\ 1 \in Int /\ n \in Int /\ 1 <= n /\ n - 1 + 1 = n /\ n # 0
          /\ 1 \in 1..n /\ 1 + 1 - 1 = 1 /\ \A i \in 1..n : i \in 1..Len(path)
      BY <1>1, <2>4, SMT
    <3>2. \A i \in 1..n : path[i] \in S
      BY <3>1, ElementOfSeq
    <3>3. /\ Len(SubSeq(path, 1, n)) = IF 1 <= n THEN n - 1 + 1 ELSE 0
          /\ \A i \in 1..(n - 1 + 1) : SubSeq(path, 1, n)[i] = path[1 + i - 1]
      BY <3>1, <3>2, SubSeqProperties
    <3>4. QED
      BY <2>6, <3>1, <3>3, EmptySeq
  <2>8. n # 0
    BY <1>1, <2>4, SMT
  <2>9. QED
    BY <1>3, <2>6, <2>7, <2>8
<1>5. CASE I = {}
  <2>1. path # <<>> => path[1] # "/"
    <3>1. path # <<>> => 1 \in 1..Len(path)
      BY <1>1, EmptySeq, SMT
    <3>2. QED
      BY <1>5, <3>1
  <2>2. QED
    BY <1>2, <1>3, <1>5, <2>1
<1>6. QED
  BY <1>4, <1>5

-----------------------------------------------------------------------------
(* What it writes *)

(* Every digit is a figure. *)
LEMMA FiguresAre ==
  /\ \A n \in 0..9 : Figures[n + 1] \in ToSet(Figures)
  /\ {"3", "9"} \subseteq ToSet(Figures)
<1>1. DOMAIN Figures = 1..10
  BY SMT DEF Figures
<1>2. Figures[4] = "3" /\ Figures[10] = "9"
  BY DEF Figures
<1>3. \A n \in 0..9 : n + 1 \in 1..10
  BY SMT
<1>4. 4 \in 1..10 /\ 10 \in 1..10
  BY SMT
<1> HIDE DEF Figures
<1>5. QED
  BY <1>1, <1>2, <1>3, <1>4 DEF ToSet

(* A figure is worth its place. *)
LEMMA WorthIs ==
  /\ \A n \in 0..9 : Worth[Figures[n + 1]] = n
  /\ \A c \in ToSet(Figures) : Worth[c] \in 0..9
<1>1. \A i, j \in 0..9 : Figures[i + 1] = Figures[j + 1] => i = j
  BY SMT DEF Figures
<1>2. DOMAIN Figures = 1..10
  BY SMT DEF Figures
<1>3. \A i \in 1..10 : i - 1 \in 0..9 /\ (i - 1) + 1 = i
  BY SMT
<1> HIDE DEF Figures
<1>4. \A c \in ToSet(Figures) : \E n \in 0..9 : Figures[n + 1] = c
  BY <1>2, <1>3 DEF ToSet
<1>5. \A c \in ToSet(Figures) : Worth[c] \in 0..9 /\ Figures[Worth[c] + 1] = c
  BY <1>4 DEF Worth
<1>6. \A n \in 0..9 : Figures[n + 1] \in ToSet(Figures)
  BY FiguresAre
<1>7. QED
  BY <1>1, <1>5, <1>6

(* What is left of a text once blanks refused it and a fragment is cut, and what
   is left of that once it is encoded *)
Written == Chars \ {"#", "_"}

Clean == Written \ {"x"}

(* A character grows to three at most, none of them past ASCII. *)
LEMMA SentIs ==
  ASSUME NEW c \in Written
  PROVE  Sent(c) \in Seq(Clean) /\ Len(Sent(c)) \in 1..3 /\ (c = "/" => Sent(c) = <<"/">>)
<1>1. "%" \in Clean /\ "c" \in Clean /\ "3" \in Clean
  BY FiguresAre DEF Clean, Written, Chars
<1>2. CASE c = "x"
  <2>1. Sent(c) = <<"%", "c", "3">> /\ c # "/"
    BY <1>2 DEF Sent
  <2>2. <<"%", "c", "3">> \in Seq(Clean) /\ Len(<<"%", "c", "3">>) \in 1..3
    BY <1>1, TextIs
  <2>3. QED
    BY <2>1, <2>2
<1>3. CASE c # "x"
  <2>1. Sent(c) = <<c>> /\ c \in Clean
    BY <1>3 DEF Sent, Clean
  <2>2. <<c>> \in Seq(Clean) /\ Len(<<c>>) \in 1..3
    BY <2>1, TextIs
  <2>3. QED
    BY <2>1, <2>2
<1>4. QED
  BY <1>2, <1>3

(* What is encoded is clean, its last character made it one to three longer, and
   a slash at its beginning stays there. *)
LEMMA EncodedIs ==
  ASSUME NEW s \in Seq(Written)
  PROVE  /\ Encoded(s) \in Seq(Clean)
         /\ s = <<>> => Encoded(s) = <<>>
         /\ s # <<>> => Encoded(Front(s)) \in Seq(Clean)
                        /\ Len(Encoded(s)) <= Len(Encoded(Front(s))) + 3
                        /\ Len(Encoded(Front(s))) + 1 <= Len(Encoded(s))
         /\ s # <<>> /\ s[1] = "/" => Encoded(s) # <<>> /\ Head(Encoded(s)) = "/"
<1> DEFINE n == Len(s)
           t == [i \in DOMAIN s |-> Sent(s[i])]
<1>1. n \in Nat /\ DOMAIN s = 1..n /\ \A i \in 1..n : s[i] \in Written
  BY LenProperties, ElementOfSeq
<1>2. t \in [1..n -> Seq(Clean)]
  <2>1. \A i \in 1..n : Sent(s[i]) \in Seq(Clean)
    BY <1>1, SentIs
  <2>2. QED
    BY <1>1, <2>1
<1>3. t \in Seq(Seq(Clean)) /\ Len(t) = n /\ \A i \in 1..n : t[i] = Sent(s[i])
  <2>1. \A i \in 1..n : t[i] = Sent(s[i])
    BY <1>1
  <2> HIDE DEF t
  <2>2. QED
    BY <1>1, <1>2, <2>1, MapIs
<1>4. Encoded(s) = FlattenSeq(t)
  BY DEF Encoded
<1> HIDE DEF t
<1>5. Encoded(s) \in Seq(Clean)
  BY <1>3, <1>4, Flattened
<1>6. ASSUME s # <<>>
      PROVE  n > 0 /\ t # <<>>
  <2>1. n > 0
    BY <1>1, <1>6, EmptySeq, SMT
  <2> HIDE DEF n
  <2>2. QED
    BY <1>3, <2>1, EmptySeq, SMT
<1>7. ASSUME s # <<>>
      PROVE  /\ Encoded(Front(s)) \in Seq(Clean)
             /\ Len(Encoded(s)) <= Len(Encoded(Front(s))) + 3
             /\ Len(Encoded(Front(s))) + 1 <= Len(Encoded(s))
  <2> DEFINE u == SubSeq(s, 1, n - 1)
             v == [i \in DOMAIN u |-> Sent(u[i])]
             w == SubSeq(t, 1, n - 1)
  <2>1. 1 \in Int /\ n - 1 \in Int /\ n \in 1..n /\ \A i \in 1..(n - 1) : i \in 1..n
    BY <1>1, <1>6, <1>7, SMT
  <2>2. (IF 1 <= n - 1 THEN (n - 1) - 1 + 1 ELSE 0) = n - 1 /\ (n - 1) - 1 + 1 = n - 1 /\ n - 1 \in Nat
    <3>1. n > 0 /\ n \in Nat
      BY <1>1, <1>6, <1>7
    <3> HIDE DEF n
    <3>2. QED
      BY <3>1, SMT
  <2>3. u \in Seq(Written) /\ Len(u) = n - 1 /\ \A i \in 1..(n - 1) : u[i] = s[i]
    <3>1. /\ u \in Seq(Written) /\ Len(u) = IF 1 <= n - 1 THEN (n - 1) - 1 + 1 ELSE 0
          /\ \A i \in 1..((n - 1) - 1 + 1) : u[i] = s[1 + i - 1]
      BY <1>1, <2>1, SubSeqProperties
    <3>2. \A i \in 1..(n - 1) : 1 + i - 1 = i
      BY <1>1, SMT
    <3>3. QED
      BY <2>2, <3>1, <3>2
  <2>4. w \in Seq(Seq(Clean)) /\ Len(w) = n - 1 /\ \A i \in 1..(n - 1) : w[i] = t[i]
    <3>1. \A i \in 1..(n - 1) : t[i] \in Seq(Clean)
      BY <1>2, <2>1
    <3>2. /\ w \in Seq(Seq(Clean)) /\ Len(w) = IF 1 <= n - 1 THEN (n - 1) - 1 + 1 ELSE 0
          /\ \A i \in 1..((n - 1) - 1 + 1) : w[i] = t[1 + i - 1]
      BY <2>1, <3>1, SubSeqProperties
    <3>3. \A i \in 1..(n - 1) : 1 + i - 1 = i
      BY <1>1, SMT
    <3>4. QED
      BY <2>2, <3>2, <3>3
  <2>5. DOMAIN u = 1..(n - 1)
    BY <2>3, LenProperties
  <2>6. \A i \in 1..(n - 1) : v[i] = t[i]
    BY <1>3, <2>1, <2>3, <2>5
  <2>7. v \in [1..(n - 1) -> Seq(Clean)]
    BY <1>2, <2>1, <2>5, <2>6
  <2>8. Encoded(Front(s)) = FlattenSeq(v)
    BY DEF Encoded, Front
  <2>9. v = w
    <3> HIDE DEF n, u, v, w
    <3>1. v \in Seq(Seq(Clean)) /\ Len(v) = n - 1
      BY <2>2, <2>7, MapIs
    <3>2. QED
      BY <2>4, <2>6, <3>1, SeqEqual
  <2>10. Encoded(s) = FlattenSeq(w) \o t[n] /\ FlattenSeq(w) \in Seq(Clean)
    <3>1. FlattenSeq(t) = FlattenSeq(Front(t)) \o t[Len(t)]
      BY <1>3, <1>6, <1>7, Flattened
    <3>2. Front(t) = w
      BY <1>3 DEF Front
    <3> HIDE DEF w
    <3>3. QED
      BY <1>3, <1>4, <2>4, <3>1, <3>2, Flattened
  <2>11. t[n] \in Seq(Clean) /\ Len(t[n]) \in 1..3
    BY <1>1, <1>3, <2>1, SentIs
  <2> DEFINE x == FlattenSeq(w)
             y == t[n]
  <2>12. Encoded(s) = x \o y /\ x \in Seq(Clean) /\ y \in Seq(Clean) /\ Len(y) \in 1..3
    BY <2>10, <2>11
  <2>13. Encoded(Front(s)) = x
    BY <2>8, <2>9
  <2> HIDE DEF x, y
  <2>14. Len(x \o y) = Len(x) + Len(y) /\ Len(x) \in Nat
    BY <2>12, ConcatProperties, LenProperties
  <2>15. Len(x \o y) <= Len(x) + 3 /\ Len(x) + 1 <= Len(x \o y)
    <3>1. ASSUME NEW a \in Nat, NEW b \in 1..3
          PROVE  a + b <= a + 3 /\ a + 1 <= a + b
      BY SMT
    <3>2. QED
      BY <2>12, <2>14, <3>1
  <2>16. QED
    BY <2>12, <2>13, <2>15
<1>8. ASSUME s # <<>>, s[1] = "/"
      PROVE  Encoded(s) # <<>> /\ Head(Encoded(s)) = "/"
  <2>1. 1 \in 1..n
    <3>1. n > 0 /\ n \in Nat
      BY <1>1, <1>6, <1>8
    <3> HIDE DEF n
    <3>2. QED
      BY <3>1, SMT
  <2>2. t[1] = Sent("/") /\ s[1] \in Written
    BY <1>1, <1>3, <1>8, <2>1
  <2>3. t[1] = <<"/">>
    BY <1>8, <2>2, SentIs
  <2>4. <<"/">> # <<>> /\ Head(<<"/">>) = "/"
    BY TextIs
  <2>5. QED
    BY <1>3, <1>4, <1>6, <1>8, <2>3, <2>4, Flattened
<1>9. ASSUME s = <<>>
      PROVE  Encoded(s) = <<>>
  <2>1. Len(t) = 0
    BY <1>3, <1>9, EmptySeq
  <2>2. t = <<>>
    BY <1>3, <2>1, EmptySeq
  <2>3. QED
    BY <1>4, <2>1, <2>2 DEF FlattenSeq
<1>10. QED
  BY <1>5, <1>7, <1>8, <1>9

(* The pieces Encoded lays end to end *)
LEMMA SentSeq ==
  ASSUME NEW s \in Seq(Written)
  PROVE  LET t == [i \in DOMAIN s |-> Sent(s[i])]
         IN  t \in Seq(Seq(Clean)) /\ Len(t) = Len(s) /\ \A i \in 1..Len(s) : t[i] = Sent(s[i])
<1> DEFINE t == [i \in DOMAIN s |-> Sent(s[i])]
           n == Len(s)
<1>1. n \in Nat /\ DOMAIN s = 1..n /\ \A i \in 1..n : s[i] \in Written
  BY LenProperties, ElementOfSeq
<1>2. t \in [1..n -> Seq(Clean)] /\ \A i \in 1..n : t[i] = Sent(s[i])
  BY <1>1, SentIs
<1> HIDE DEF t
<1>3. t \in Seq(Seq(Clean)) /\ Len(t) = n
  BY <1>1, <1>2, MapIs
<1>4. QED
  BY <1>2, <1>3 DEF t

(* Encoding goes character by character: a path and its query apart are the two
   together. *)
LEMMA EncodedConcat ==
  ASSUME NEW x \in Seq(Written), NEW y \in Seq(Written)
  PROVE  Encoded(x \o y) = Encoded(x) \o Encoded(y)
<1> DEFINE s == x \o y
           n == Len(x)
           m == Len(y)
           t == [i \in DOMAIN x |-> Sent(x[i])]
           v == [i \in DOMAIN y |-> Sent(y[i])]
           w == [i \in DOMAIN s |-> Sent(s[i])]
<1>1. n \in Nat /\ m \in Nat
  BY LenProperties
<1>2. /\ s \in Seq(Written) /\ Len(s) = n + m
      /\ \A i \in 1..(n + m) : s[i] = IF i <= n THEN x[i] ELSE y[i - n]
  BY ConcatProperties
<1>3. t \in Seq(Seq(Clean)) /\ Len(t) = n /\ \A i \in 1..n : t[i] = Sent(x[i])
  BY SentSeq
<1>4. v \in Seq(Seq(Clean)) /\ Len(v) = m /\ \A i \in 1..m : v[i] = Sent(y[i])
  BY SentSeq
<1>5. w \in Seq(Seq(Clean)) /\ Len(w) = n + m /\ \A i \in 1..(n + m) : w[i] = Sent(s[i])
  <2> HIDE DEF s
  <2>1. QED
    BY <1>2, SentSeq
<1> HIDE DEF t, v, w, s, n, m
<1>6. /\ t \o v \in Seq(Seq(Clean)) /\ Len(t \o v) = n + m
      /\ \A i \in 1..(n + m) : (t \o v)[i] = IF i <= n THEN t[i] ELSE v[i - n]
  BY <1>3, <1>4, ConcatProperties
<1>7. ASSUME NEW i \in 1..(n + m)
      PROVE  w[i] = (t \o v)[i]
  <2>1. (i <= n => i \in 1..n) /\ (~(i <= n) => i - n \in 1..m)
    BY <1>1, SMT
  <2>2. CASE i <= n
    BY <1>2, <1>3, <1>5, <1>6, <2>1, <2>2
  <2>3. CASE ~(i <= n)
    BY <1>2, <1>4, <1>5, <1>6, <2>1, <2>3
  <2>4. QED
    BY <2>2, <2>3
<1>8. w = t \o v
  BY <1>5, <1>6, <1>7, SeqEqual
<1>9. Encoded(s) = FlattenSeq(w) /\ Encoded(x) = FlattenSeq(t) /\ Encoded(y) = FlattenSeq(v)
  BY DEF Encoded, w, t, v
<1>10. FlattenSeq(t \o v) = FlattenSeq(t) \o FlattenSeq(v)
  BY <1>3, <1>4, FlattenConcat
<1>11. Encoded(s) = Encoded(x) \o Encoded(y)
  BY <1>8, <1>9, <1>10
<1>12. QED
  BY <1>11 DEF s

(* The number a text writes, digit by digit *)
Numbers(p, digits) ==
  /\ p \in [0..Len(digits) -> Nat] /\ p[0] = 0
  /\ \A i \in 1..Len(digits) : p[i] = p[i - 1] * 10 + Worth[digits[i]]

(* PortOf is the last of such numbers, the only ones. *)
LEMMA PortIs ==
  ASSUME NEW digits \in Seq(ToSet(Figures)), NEW p, Numbers(p, digits)
  PROVE  PortOf(digits) = p[Len(digits)]
<1> DEFINE n == Len(digits)
           g == CHOOSE h : h = [i \in 0..n |-> IF i = 0 THEN 0 ELSE h[i - 1] * 10 + Worth[digits[i]]]
<1>1. n \in Nat
  BY LenProperties
<1>2. p \in [0..n -> Nat] /\ p[0] = 0 /\ \A i \in 1..n : p[i] = p[i - 1] * 10 + Worth[digits[i]]
  BY DEF Numbers
<1>3. p = [i \in 0..n |-> IF i = 0 THEN 0 ELSE p[i - 1] * 10 + Worth[digits[i]]]
  <2>1. ASSUME NEW i \in 0..n
        PROVE  p[i] = IF i = 0 THEN 0 ELSE p[i - 1] * 10 + Worth[digits[i]]
    <3>1. i = 0 \/ i \in 1..n
      BY <1>1, SMT
    <3>2. ~(0 \in 1..n)
      BY <1>1, SMT
    <3>3. QED
      BY <1>2, <3>1, <3>2
  <2>2. QED
    BY <1>2, <2>1
<1>4. g = [i \in 0..n |-> IF i = 0 THEN 0 ELSE g[i - 1] * 10 + Worth[digits[i]]]
  BY <1>3
<1>5. PortOf(digits) = g[n]
  BY DEF PortOf
<1> HIDE DEF g
<1> DEFINE T == {i \in Nat : i \in 0..n => g[i] = p[i]}
<1>6. 0 \in T
  <2>1. 0 \in 0..n
    BY <1>1, SMT
  <2>2. g[0] = 0
    BY <1>4, <2>1
  <2>3. QED
    BY <1>2, <2>2, SMT
<1>7. ASSUME NEW i \in T
      PROVE  i + 1 \in T
  <2>1. i \in Nat /\ i + 1 \in Nat /\ (i + 1) - 1 = i /\ i + 1 # 0
    BY SMT
  <2>2. CASE i + 1 \in 0..n
    <3>1. i \in 0..n /\ i + 1 \in 1..n
      BY <1>1, <2>1, <2>2, SMT
    <3>2. g[i + 1] = g[i] * 10 + Worth[digits[i + 1]]
      BY <1>4, <2>1, <2>2
    <3>3. p[i + 1] = p[i] * 10 + Worth[digits[i + 1]]
      BY <1>2, <2>1, <3>1
    <3>4. g[i] = p[i]
      BY <3>1
    <3>5. QED
      BY <2>1, <3>2, <3>3, <3>4
  <2>3. CASE ~(i + 1 \in 0..n)
    BY <2>1, <2>3
  <2>4. QED
    BY <2>2, <2>3
<1>8. T = Nat
  <2> HIDE DEF T
  <2>1. T \in SUBSET Nat
    BY DEF T
  <2>2. QED
    BY <1>6, <1>7, <2>1, Induction
<1>9. n \in Nat /\ n \in 0..n
  BY <1>1, SMT
<1>10. QED
  BY <1>5, <1>8, <1>9

(* There are such numbers for all digits. *)
LEMMA PortStep ==
  ASSUME NEW digits \in Seq(ToSet(Figures))
  PROVE  \E p : Numbers(p, digits)
<1> DEFINE n == Len(digits)
           B == Nat
           F == [i \in Nat |-> [x \in B |-> IF i \in 1..n THEN x * 10 + Worth[digits[i]] ELSE x]]
<1>1. n \in Nat /\ \A i \in 1..n : Worth[digits[i]] \in 0..9
  BY WorthIs, LenProperties, ElementOfSeq
<1>2. 0 \in B
  BY SMT
<1>3. IsStep(F, B)
  <2>1. ASSUME NEW i \in Nat, NEW x \in B
        PROVE  (IF i \in 1..n THEN x * 10 + Worth[digits[i]] ELSE x) \in B
    <3>1. ASSUME NEW d \in 0..9
          PROVE  x * 10 + d \in B
      BY SMT
    <3>2. QED
      BY <1>1, <3>1
  <2>2. QED
    BY <2>1 DEF IsStep
<1>4. PICK p : Computes(p, B, 0, F, n)
  <2> HIDE DEF F, n, B
  <2>1. QED
    BY <1>1, <1>2, <1>3, Recursion
<1>5. p \in [0..n -> B] /\ p[0] = 0 /\ \A i \in 1..n : p[i] = F[i][p[i - 1]]
  BY <1>4 DEF Computes
<1>6. ASSUME NEW i \in 1..n
      PROVE  p[i] = p[i - 1] * 10 + Worth[digits[i]]
  <2>1. i \in Nat /\ i - 1 \in 0..n
    BY <1>1, SMT
  <2>2. p[i - 1] \in B
    BY <1>5, <2>1
  <2>3. F[i][p[i - 1]] = p[i - 1] * 10 + Worth[digits[i]]
    BY <2>1, <2>2
  <2>4. QED
    BY <1>5, <2>3
<1>7. QED
  BY <1>5, <1>6 DEF Numbers

(* One more digit is ten times the number and the digit. *)
LEMMA PortOfAppend ==
  ASSUME NEW d \in Seq(ToSet(Figures)), NEW c \in ToSet(Figures)
  PROVE  /\ PortOf(d) \in Nat /\ PortOf(<<>>) = 0
         /\ PortOf(Append(d, c)) = PortOf(d) * 10 + Worth[c]
<1> DEFINE n == Len(d)
           e == Append(d, c)
           D == ToSet(Figures)
<1>1. n \in Nat /\ Worth[c] \in 0..9
  BY WorthIs, LenProperties
<1>2. /\ e \in Seq(D) /\ Len(e) = n + 1
      /\ (\A i \in 1..n : e[i] = d[i]) /\ e[n + 1] = c
  BY AppendProperties
<1>3. PICK p : Numbers(p, d)
  BY PortStep
<1>4. p \in [0..n -> Nat] /\ p[0] = 0 /\ \A i \in 1..n : p[i] = p[i - 1] * 10 + Worth[d[i]]
  BY <1>3 DEF Numbers
<1>5. PortOf(d) = p[n]
  BY <1>3, PortIs
<1> HIDE DEF n, e, D
<1> DEFINE q == [i \in 0..(n + 1) |-> IF i = n + 1 THEN p[n] * 10 + Worth[c] ELSE p[i]]
<1>6. n \in 0..n /\ n + 1 \in 0..(n + 1) /\ n + 1 # 0 /\ 0 \in 0..(n + 1) /\ n + 1 # n
  BY <1>1, SMT
<1>7. p[n] \in Nat /\ p[n] * 10 + Worth[c] \in Nat
  <2>1. p[n] \in Nat
    BY <1>4, <1>6
  <2>2. ASSUME NEW a \in Nat, NEW b \in 0..9
        PROVE  a * 10 + b \in Nat
    BY SMT
  <2>3. QED
    BY <1>1, <2>1, <2>2
<1>8. q \in [0..(n + 1) -> Nat] /\ q[0] = 0
  <2>1. \A i \in 0..(n + 1) : i # n + 1 => i \in 0..n
    BY <1>1, SMT
  <2>2. QED
    BY <1>4, <1>6, <1>7, <2>1
<1>9. ASSUME NEW i \in 1..(n + 1)
      PROVE  q[i] = q[i - 1] * 10 + Worth[e[i]]
  <2>1. i \in 0..(n + 1) /\ i - 1 \in 0..(n + 1) /\ i - 1 # n + 1 /\ (i # n + 1 => i \in 1..n)
    BY <1>1, SMT
  <2>2. q[i - 1] = p[i - 1]
    BY <2>1
  <2>3. CASE i = n + 1
    <3>1. i - 1 = n
      BY <1>1, <2>3, SMT
    <3>2. q[i] = p[n] * 10 + Worth[c]
      BY <2>1, <2>3
    <3>3. QED
      BY <1>2, <2>2, <2>3, <3>1, <3>2
  <2>4. CASE i # n + 1
    <3>1. q[i] = p[i] /\ i \in 1..n
      BY <2>1, <2>4
    <3>2. QED
      BY <1>2, <1>4, <2>2, <3>1
  <2>5. QED
    BY <2>3, <2>4
<1>10. q[n + 1] = p[n] * 10 + Worth[c]
  BY <1>6
<1> HIDE DEF q
<1>11. Numbers(q, e)
  BY <1>2, <1>8, <1>9 DEF Numbers
<1>12. PortOf(e) = p[n] * 10 + Worth[c]
  BY <1>2, <1>10, <1>11, PortIs DEF D
<1>13. PortOf(<<>>) = 0
  <2>1. <<>> \in Seq(D) /\ Len(<<>>) = 0
    BY EmptySeq
  <2>2. PICK z : Numbers(z, <<>>)
    BY <2>1, PortStep DEF D
  <2>3. PortOf(<<>>) = z[Len(<<>>)]
    BY <2>1, <2>2, PortIs DEF D
  <2>4. z[0] = 0
    BY <2>2 DEF Numbers
  <2>5. QED
    BY <2>1, <2>3, <2>4
<1>14. QED
  BY <1>5, <1>7, <1>12, <1>13 DEF e

(* A port is written in digits, and they say the port: induction on the ports
   below it, the number without its last digit being smaller. *)
LEMMA PortWritten ==
  ASSUME NEW port \in 1..PORT_MAX
  PROVE  /\ PortText(port) \in Seq(ToSet(Figures)) /\ PortText(port) # <<>>
         /\ PortOf(PortText(port)) = port
<1> DEFINE D == ToSet(Figures)
           Writes(g, m) ==
             \A n \in 0..m :
               g[n] = IF n < 10 THEN <<Figures[n + 1]>>
                                ELSE Append(g[n \div 10], Figures[(n % 10) + 1])
           T == {m \in Nat : \E g \in [0..m -> Seq(D)] : Writes(g, m)}
           text == CHOOSE g : g = [n \in 0..PORT_MAX |->
                     IF n < 10 THEN <<Figures[n + 1]>>
                               ELSE Append(g[n \div 10], Figures[(n % 10) + 1])]
<1>1. \A n \in 0..9 : <<Figures[n + 1]>> \in Seq(D) /\ Figures[n + 1] \in D
  <2> HIDE DEF D
  <2>1. \A n \in 0..9 : Figures[n + 1] \in D
    BY FiguresAre DEF D
  <2>2. QED
    BY <2>1, TextIs
<1>2. \A n \in Nat : (n < 10 => n \in 0..9) /\ (n % 10) \in 0..9
  BY SMT
<1>3. \A n \in Nat : ~(n < 10) => n \div 10 \in Nat /\ n \div 10 < n
  BY SMT
<1>4. 0 \in T
  <2> DEFINE g == [n \in 0..0 |-> <<Figures[n + 1]>>]
  <2>1. \A n \in 0..0 : n < 10 /\ n \in 0..9
    BY SMT
  <2>2. g \in [0..0 -> Seq(D)]
    BY <1>1, <2>1
  <2>3. Writes(g, 0)
    BY <2>1
  <2>4. 0 \in Nat
    BY SMT
  <2>5. QED
    BY <2>2, <2>3, <2>4
<1>5. ASSUME NEW m \in T
      PROVE  m + 1 \in T
  <2>1. PICK g \in [0..m -> Seq(D)] : Writes(g, m)
    OBVIOUS
  <2> DEFINE k == m + 1
             last == IF k < 10 THEN <<Figures[k + 1]>>
                               ELSE Append(g[k \div 10], Figures[(k % 10) + 1])
             h == [n \in 0..k |-> IF n = k THEN last ELSE g[n]]
  <2>2. m \in Nat /\ k \in Nat /\ k \in 0..k
    BY SMT
  <2>3. \A n \in 0..k : n \in Nat /\ (n # k => n \in 0..m)
    BY <2>2, SMT
  <2>4. \A n \in 0..k : ~(n < 10) => n \div 10 \in 0..k /\ n \div 10 # k /\ n \div 10 \in 0..m
    <3> SUFFICES ASSUME NEW n \in 0..k, ~(n < 10)
                 PROVE  n \div 10 \in 0..k /\ n \div 10 # k /\ n \div 10 \in 0..m
      OBVIOUS
    <3>1. n \div 10 \in Nat /\ n \div 10 < n
      BY <1>3, <2>3
    <3>2. QED
      BY <2>2, <3>1, SMT
  <2>5. last \in Seq(D)
    <3>1. CASE k < 10
      BY <1>1, <1>2, <2>2, <3>1
    <3>2. CASE ~(k < 10)
      <4>1. g[k \div 10] \in Seq(D) /\ Figures[(k % 10) + 1] \in D
        BY <1>1, <1>2, <2>1, <2>2, <2>4, <3>2
      <4>2. QED
        BY <3>2, <4>1, AppendProperties
    <3>3. QED
      BY <3>1, <3>2
  <2>6. h \in [0..k -> Seq(D)]
    BY <2>1, <2>3, <2>5
  <2>7. Writes(h, k)
    <3> SUFFICES ASSUME NEW n \in 0..k
                 PROVE  h[n] = IF n < 10 THEN <<Figures[n + 1]>>
                                         ELSE Append(h[n \div 10], Figures[(n % 10) + 1])
      OBVIOUS
    <3>1. ~(n < 10) => h[n \div 10] = g[n \div 10]
      BY <2>4
    <3>2. CASE n = k
      BY <3>1, <3>2
    <3>3. CASE n # k
      <4>1. h[n] = g[n] /\ n \in 0..m
        BY <2>3, <3>3
      <4>2. QED
        BY <2>1, <3>1, <4>1
    <3>4. QED
      BY <3>2, <3>3
  <2> HIDE DEF h, Writes
  <2>8. QED
    BY <2>2, <2>6, <2>7
<1>6. T = Nat
  <2> HIDE DEF T
  <2>1. T \in SUBSET Nat
    BY DEF T
  <2>2. QED
    BY <1>4, <1>5, <2>1, Induction
<1>7. PORT_MAX \in Nat
  BY UrlAssumption
<1>8. PICK f \in [0..PORT_MAX -> Seq(D)] : Writes(f, PORT_MAX)
  BY <1>6, <1>7
<1>9. f = [n \in 0..PORT_MAX |-> IF n < 10 THEN <<Figures[n + 1]>>
                                  ELSE Append(f[n \div 10], Figures[(n % 10) + 1])]
  BY <1>8
<1>10. text = [n \in 0..PORT_MAX |-> IF n < 10 THEN <<Figures[n + 1]>>
                                     ELSE Append(text[n \div 10], Figures[(n % 10) + 1])]
  BY <1>9
<1>11. PortText(port) = text[port]
  BY DEF PortText
<1> HIDE DEF text
<1> DEFINE Says(n) == text[n] \in Seq(D) /\ text[n] # <<>> /\ PortOf(text[n]) = n
           U == {m \in Nat : \A n \in 0..PORT_MAX : n <= m => Says(n)}
<1>12. \A n \in 0..PORT_MAX :
         (n < 10 \/ (n \div 10 \in 0..PORT_MAX /\ Says(n \div 10))) => Says(n)
  <2> SUFFICES ASSUME NEW n \in 0..PORT_MAX,
                      n < 10 \/ (n \div 10 \in 0..PORT_MAX /\ Says(n \div 10))
               PROVE  Says(n)
    OBVIOUS
  <2>1. n \in Nat
    BY <1>7, SMT
  <2>2. CASE n < 10
    <3> DEFINE c == Figures[n + 1]
    <3>1. text[n] = <<c>> /\ c \in D /\ Worth[c] = n /\ <<>> \in Seq(D)
      BY <1>1, <1>2, <1>10, <2>1, <2>2, WorthIs, EmptySeq
    <3> HIDE DEF c
    <3>2. Append(<<>>, c) = <<c>> /\ <<c>> # <<>> /\ <<c>> \in Seq(D)
      BY <3>1, SMT
    <3>3. PortOf(<<c>>) = 0 * 10 + n
      BY <3>1, <3>2, PortOfAppend DEF D
    <3>4. 0 * 10 + n = n
      BY <2>1, SMT
    <3>5. QED
      BY <3>1, <3>2, <3>3, <3>4
  <2>3. CASE ~(n < 10)
    <3> DEFINE c == Figures[(n % 10) + 1]
               d == text[n \div 10]
    <3>1. text[n] = Append(d, c)
      BY <1>10, <2>3
    <3>2. d \in Seq(D) /\ c \in D /\ PortOf(d) = n \div 10 /\ Worth[c] = n % 10
      BY <1>1, <1>2, <2>1, <2>3, WorthIs
    <3>3. (n \div 10) * 10 + (n % 10) = n
      BY <2>1, SMT
    <3> HIDE DEF c, d, D
    <3>4. Append(d, c) \in Seq(D) /\ Append(d, c) # <<>>
      BY <3>2, AppendProperties
    <3>5. PortOf(Append(d, c)) = (n \div 10) * 10 + (n % 10)
      BY <3>2, PortOfAppend DEF D
    <3>6. QED
      BY <3>1, <3>3, <3>4, <3>5
  <2>4. QED
    BY <2>2, <2>3
<1>13. 0 \in U
  <2>1. \A n \in 0..PORT_MAX : n <= 0 => n < 10
    BY <1>7, SMT
  <2>2. 0 \in Nat
    BY SMT
  <2>3. QED
    BY <1>12, <2>1, <2>2
<1>14. ASSUME NEW m \in U
       PROVE  m + 1 \in U
  <2>1. m \in Nat /\ m + 1 \in Nat
    BY SMT
  <2>2. ASSUME NEW n \in 0..PORT_MAX, n <= m + 1
        PROVE  Says(n)
    <3>1. n \in Nat
      BY <1>7, SMT
    <3>2. CASE ~(n < 10)
      <4>1. n \div 10 \in Nat /\ n \div 10 < n
        BY <1>3, <3>1, <3>2
      <4>2. n \div 10 \in 0..PORT_MAX /\ n \div 10 <= m
        BY <1>7, <2>1, <2>2, <4>1, SMT
      <4>3. QED
        BY <1>12, <4>2
    <3>3. QED
      BY <1>12, <3>2
  <2>3. QED
    BY <2>1, <2>2
<1>15. U = Nat
  <2> HIDE DEF U
  <2>1. U \in SUBSET Nat
    BY DEF U
  <2>2. QED
    BY <1>13, <1>14, <2>1, Induction
<1>16. port \in Nat /\ port \in 0..PORT_MAX /\ port <= port
  BY <1>7, SMT
<1>17. QED
  BY <1>11, <1>15, <1>16

-----------------------------------------------------------------------------
(* The invariant: an address is the host, the port and the path UrlClean asks
   for, made of characters there are, so that the text url_resolve builds from
   it is one url_parse reads. *)

Plain == Letters \cup DOMAIN Worth

CleanUrl(u) ==
  /\ u \in [host : Seq(Chars), port : 1..PORT_MAX, path : Seq(Clean)]
  /\ u.host # <<>> /\ ToSet(u.host) \subseteq Plain /\ Len(u.host) < HOST_SIZE
  /\ u.path # <<>> /\ Head(u.path) = "/" /\ Len(u.path) < PATH_SIZE

UrlInv == url = NoUrl \/ CleanUrl(url)

(* A host and a port that were taken, with a clean path *)
LEMMA EndpointIs ==
  ASSUME NEW a \in Seq(Chars), Len(a) < HOST_SIZE, Endpoint(a) # NoUrl,
         NEW p \in Seq(Clean), p # <<>>, Head(p) = "/", Len(p) < PATH_SIZE
  PROVE  CleanUrl([Endpoint(a) EXCEPT !.path = p])
<1> DEFINE site == Upto(a, {":"})
           digits == From(a, {":"})
           port == IF digits = <<>> THEN PORT ELSE PortOf(Tail(digits))
           e == [host |-> site, port |-> port, path |-> <<>>]
<1>1. /\ site # <<>> /\ ToSet(site) \subseteq Plain
      /\ digits = <<>> \/ IsPort(Tail(digits))
      /\ Endpoint(a) = e
  BY DEF Endpoint, Plain
<1>2. site \in Seq(Chars) /\ Len(site) <= Len(a)
  <2>1. site \in Seq(Chars \ {":"}) /\ Len(site) <= Len(a)
    BY UptoIs
  <2>2. Chars \ {":"} \subseteq Chars
    OBVIOUS
  <2> HIDE DEF site
  <2>3. QED
    BY <2>1, <2>2, SeqMonotonic
<1>3. port \in 1..PORT_MAX
  BY <1>1, UrlAssumption DEF IsPort
<1>4. Len(site) < HOST_SIZE
  <2>1. Len(site) \in Nat /\ Len(a) \in Nat
    BY <1>2, LenProperties
  <2> HIDE DEF site
  <2>2. QED
    BY <1>2, <2>1, UrlAssumption, SMT
<1> HIDE DEF site, port
<1>5. [e EXCEPT !.path = p] = [host |-> site, port |-> port, path |-> p]
  BY SMT
<1> DEFINE u == [host |-> site, port |-> port, path |-> p]
<1>6. u.host = site /\ u.port = port /\ u.path = p
  OBVIOUS
<1>7. u \in [host : Seq(Chars), port : 1..PORT_MAX, path : Seq(Clean)]
  BY <1>2, <1>3
<1> HIDE DEF u
<1>8. CleanUrl(u)
  BY <1>1, <1>4, <1>6, <1>7 DEF CleanUrl
<1>9. QED
  BY <1>1, <1>5, <1>8 DEF u

(* Four bytes of room are enough for three and the end of the text. *)
LEMMA LessBy ==
  ASSUME NEW a \in Nat, NEW b \in Nat, a <= b + 3, NEW size \in Nat
  PROVE  /\ b + 4 <= size => a < size
         /\ (1 + b) + 4 <= size => 1 + a < size
BY SMT

(* What is not at least a size is below it. *)
LEMMA AtMost ==
  ASSUME NEW a \in Nat, NEW b \in Nat
  PROVE  ~(a >= b) => a < b
BY SMT

(* Whatever text there is, what url_parse takes of it is clean. *)
LEMMA ParseIs ==
  ASSUME NEW s \in Seq(Chars), UrlParse(s) # NoUrl
  PROVE  CleanUrl(UrlParse(s))
<1> DEFINE E == Chars \ {"_"}
           rest == SubSeq(s, Len(Scheme) + 1, Len(s))
           authority == Upto(rest, Ends)
           tail == From(rest, Ends)
           root == IF tail # <<>> /\ Head(tail) = "/" THEN <<>> ELSE <<"/">>
           target == Upto(tail, {"#"})
           end == Endpoint(authority)
           path == root \o Encoded(target)
<1>1. /\ ~Contains(s, "_") /\ ~(Len(authority) >= HOST_SIZE) /\ end # NoUrl
      /\ target # <<>> => Room(root \o Encoded(Front(target)))
      /\ UrlParse(s) = [end EXCEPT !.path = path]
  BY DEF UrlParse
<1>2. s \in Seq(E)
  <2>1. Len(s) \in Nat /\ \A i \in 1..Len(s) : s[i] \in Chars
    BY LenProperties, ElementOfSeq
  <2>2. \A i \in 1..Len(s) : s[i] \in E
    BY <1>1, <2>1 DEF Contains
  <2>3. SubSeq(s, 1, Len(s)) \in Seq(E)
    <3>1. 1 \in Int /\ Len(s) \in Int
      BY <2>1, SMT
    <3> HIDE DEF E
    <3>2. QED
      BY <2>2, <3>1, SubSeqProperties
  <2>4. QED
    BY <2>3, SubSeqFull
<1>3. rest \in Seq(E)
  <2>1. Len(Scheme) \in Nat
    BY TextIs DEF Scheme
  <2>2. Len(s) \in Nat
    BY LenProperties
  <2>3. Len(Scheme) + 1 \in Nat /\ Len(Scheme) + 1 > 0 /\ Len(s) \in 0..Len(s)
    BY <2>1, <2>2, SMT
  <2> HIDE DEF E
  <2>4. QED
    BY <1>2, <2>3, CutIs
<1> HIDE DEF rest
<1>4. authority \in Seq(Chars) /\ Len(authority) < HOST_SIZE /\ tail \in Seq(E)
  <2>1. authority \in Seq(E \ Ends)
    BY <1>3, UptoIs
  <2>2. E \ Ends \subseteq Chars
    OBVIOUS
  <2>3. tail \in Seq(E)
    BY <1>3, FromIs
  <2> HIDE DEF authority, tail, E
  <2>4. authority \in Seq(Chars)
    BY <2>1, <2>2, SeqMonotonic
  <2>5. Len(authority) \in Nat
    BY <2>4, LenProperties
  <2>6. Len(authority) < HOST_SIZE
    BY <1>1, <2>5, AtMost, UrlAssumption
  <2>7. QED
    BY <2>3, <2>4, <2>6
<1> HIDE DEF authority, tail
<1>5. target \in Seq(Written)
  <2>1. target \in Seq(E \ {"#"})
    BY <1>4, UptoIs
  <2>2. E \ {"#"} = Written
    BY DEF Written
  <2> HIDE DEF target, E
  <2>3. QED
    BY <2>1, <2>2
<1>6. tail # <<>> /\ Head(tail) = "/" => target # <<>> /\ target[1] = "/"
  <2> SUFFICES ASSUME tail # <<>>, Head(tail) = "/"
               PROVE  target # <<>> /\ target[1] = "/"
    OBVIOUS
  <2>1. tail[1] = "/" /\ tail[1] \notin {"#"}
    BY <1>4, HeadIs
  <2> HIDE DEF E
  <2>2. QED
    BY <1>4, <2>1, UptoIs
<1> HIDE DEF target, end, E
<1>7. Encoded(target) \in Seq(Clean)
  BY <1>5, EncodedIs
<1>8. CASE tail # <<>> /\ Head(tail) = "/"
  <2>1. root = <<>>
    BY <1>8
  <2>2. path = Encoded(target)
    <3> HIDE DEF root
    <3>1. QED
      BY <1>7, <2>1, ConcatEmptySeq
  <2>3. Encoded(target) # <<>> /\ Head(Encoded(target)) = "/"
    BY <1>5, <1>6, <1>8, EncodedIs
  <2>4. Len(Encoded(target)) < PATH_SIZE
    <3>1. /\ Encoded(Front(target)) \in Seq(Clean)
          /\ Len(Encoded(target)) <= Len(Encoded(Front(target))) + 3
      BY <1>5, <1>6, <1>8, EncodedIs
    <3>2. <<>> \o Encoded(Front(target)) = Encoded(Front(target))
      BY <3>1, ConcatEmptySeq
    <3>3. Len(Encoded(Front(target))) + 4 <= PATH_SIZE
      BY <1>1, <1>6, <1>8, <2>1, <3>2 DEF Room
    <3>4. Len(Encoded(Front(target))) \in Nat /\ Len(Encoded(target)) \in Nat
      BY <1>7, <3>1, LenProperties
    <3>5. QED
      BY <3>1, <3>3, <3>4, LessBy, UrlAssumption
  <2>5. CleanUrl([end EXCEPT !.path = Encoded(target)])
    BY <1>1, <1>4, <1>7, <2>3, <2>4, EndpointIs DEF end
  <2>6. QED
    BY <1>1, <2>2, <2>5
<1>9. CASE ~(tail # <<>> /\ Head(tail) = "/")
  <2>1. root = <<"/">> /\ "/" \in Clean
    BY <1>9 DEF Clean, Written, Chars
  <2>2. root \in Seq(Clean) /\ Len(root) = 1 /\ root # <<>> /\ Head(root) = "/"
    BY <2>1, TextIs
  <2> HIDE DEF root
  <2>3. path \in Seq(Clean) /\ Len(path) = 1 + Len(Encoded(target)) /\ path # <<>> /\ Head(path) = "/"
    BY <1>7, <2>2, HeadOfConcat
  <2>4. Len(path) < PATH_SIZE
    <3>1. CASE target = <<>>
      <4>1. Len(Encoded(target)) = 0
        BY <1>5, <3>1, EncodedIs, EmptySeq
      <4>2. QED
        BY <2>3, <4>1, UrlAssumption, SMT
    <3>2. CASE target # <<>>
      <4> DEFINE f == Encoded(Front(target))
      <4>1. f \in Seq(Clean) /\ Len(Encoded(target)) <= Len(f) + 3
        BY <1>5, <3>2, EncodedIs
      <4>2. Len(root \o f) + 4 <= PATH_SIZE
        BY <1>1, <3>2 DEF Room
      <4> HIDE DEF f
      <4>3. Len(root \o f) = 1 + Len(f)
        BY <2>2, <4>1, HeadOfConcat
      <4>4. Len(f) \in Nat /\ Len(Encoded(target)) \in Nat
        BY <1>7, <4>1, LenProperties
      <4>5. QED
        BY <2>3, <4>1, <4>2, <4>3, <4>4, LessBy, UrlAssumption
    <3>3. QED
      BY <3>1, <3>2
  <2>5. CleanUrl([end EXCEPT !.path = path])
    <3> HIDE DEF path
    <3>1. QED
      BY <1>1, <1>4, <2>3, <2>4, EndpointIs DEF end
  <2>6. QED
    BY <1>1, <2>5
<1>10. QED
  BY <1>8, <1>9

(* A host and a port are written in characters there are. *)
LEMMA AuthorityIs ==
  ASSUME NEW u, CleanUrl(u)
  PROVE  Authority(u) \in Seq(Chars)
<1>1. u.host \in Seq(Chars) /\ u.port \in 1..PORT_MAX
  BY DEF CleanUrl
<1>2. PortText(u.port) \in Seq(Chars)
  <2>1. ToSet(Figures) \subseteq Chars
    BY DEF Chars
  <2>2. PortText(u.port) \in Seq(ToSet(Figures))
    BY <1>1, PortWritten
  <2>3. QED
    BY <2>1, <2>2, SeqMonotonic
<1>3. <<":">> \in Seq(Chars)
  <2>1. ":" \in Chars
    BY DEF Chars
  <2>2. QED
    BY <2>1, TextIs
<1>4. <<":">> \o PortText(u.port) \in Seq(Chars) /\ <<>> \in Seq(Chars)
  BY <1>2, <1>3, ConcatProperties, EmptySeq
<1>5. (IF u.port = PORT THEN <<>> ELSE <<":">> \o PortText(u.port)) \in Seq(Chars)
  BY <1>4
<1>6. QED
  BY <1>1, <1>5, ConcatProperties DEF Authority

(* So is what a Location keeps of the path before it. *)
LEMMA KeptIn ==
  ASSUME NEW u, CleanUrl(u), NEW loc
  PROVE  KeptPath(u.path, loc) \in Seq(Chars)
<1>1. u.path \in Seq(Chars)
  <2>1. u.path \in Seq(Clean) /\ Clean \subseteq Chars
    BY DEF CleanUrl, Clean, Written
  <2>2. QED
    BY <2>1, SeqMonotonic
<1>2. Upto(u.path, {"?"}) \in Seq(Chars)
  <2>1. Upto(u.path, {"?"}) \in Seq(Chars \ {"?"}) /\ Chars \ {"?"} \subseteq Chars
    BY <1>1, UptoIs
  <2>2. QED
    BY <2>1, SeqMonotonic
<1>3. Directory(Upto(u.path, {"?"})) \in Seq(Chars) /\ <<>> \in Seq(Chars)
  BY <1>2, DirectoryIs, EmptySeq
<1>4. QED
  BY <1>1, <1>2, <1>3 DEF KeptPath

(* The text that is parsed again is one of characters. *)
LEMMA AbsoluteIs ==
  ASSUME NEW u, CleanUrl(u), NEW loc \in Seq(Chars)
  PROVE  Absolute(u, loc) \in Seq(Chars)
<1>1. KeptPath(u.path, loc) \in Seq(Chars)
  BY KeptIn
<1>2. {"https", ":", "/"} \subseteq Chars
  BY DEF Chars, Letters
<1>3. Scheme \in Seq(Chars) /\ <<"https", ":">> \in Seq(Chars)
  BY <1>2, TextIs DEF Scheme
<1>4. Scheme \o Authority(u) \in Seq(Chars)
  BY <1>3, AuthorityIs, ConcatProperties
<1>5. (Scheme \o Authority(u)) \o KeptPath(u.path, loc) \in Seq(Chars)
  BY <1>1, <1>4, ConcatProperties
<1>6. ((Scheme \o Authority(u)) \o KeptPath(u.path, loc)) \o loc \in Seq(Chars)
  BY <1>5, ConcatProperties
<1>7. <<"https", ":">> \o loc \in Seq(Chars)
  BY <1>3, ConcatProperties
<1>8. QED
  BY <1>6, <1>7 DEF Absolute

(* So is what an application or a server writes. *)
LEMMA TextsAre ==
  ASSUME NEW n \in Nat
  PROVE  Texts(n) \subseteq Seq(Chars)
<1>1. Pieces \subseteq Seq(Chars)
  <2>1. {"https", "a", ":", "/", "?", "#", "_", "x", "9"} \subseteq Chars
    BY FiguresAre DEF Chars, Letters
  <2>2. Scheme \in Seq(Chars)
    BY <2>1, TextIs DEF Scheme
  <2>3. \A c \in Chars : <<c>> \in Seq(Chars)
    BY TextIs
  <2>4. /\ <<"/">> \in Seq(Chars) /\ <<"?">> \in Seq(Chars) /\ <<"#">> \in Seq(Chars)
        /\ <<":">> \in Seq(Chars) /\ <<"a">> \in Seq(Chars) /\ <<"9">> \in Seq(Chars)
        /\ <<"x">> \in Seq(Chars) /\ <<"_">> \in Seq(Chars)
    BY <2>1, <2>3
  <2>5. QED
    BY <2>2, <2>4 DEF Pieces
<1>2. ASSUME NEW s \in BoundedSeq(Pieces, n)
      PROVE  FlattenSeq(s) \in Seq(Chars)
  <2>1. PICK m \in 0..n : s \in [1..m -> Pieces]
    BY DEF BoundedSeq, SeqOf
  <2>2. m \in Nat
    BY SMT
  <2>3. s \in [1..m -> Seq(Chars)]
    BY <1>1, <2>1
  <2>4. s \in Seq(Seq(Chars))
    BY <2>2, <2>3, MapIs
  <2>5. QED
    BY <2>4, Flattened
<1>3. QED
  BY <1>2 DEF Texts

(* Every address is a clean one: what is parsed is clean, and what is parsed
   after a redirect is a text too. *)
LEMMA UrlInvHolds == UrlSpec => []UrlInv
<1>1. UrlInit => UrlInv
  BY DEF UrlInit, UrlInv
<1>2. UrlInv /\ [UrlNext]_urlVars => UrlInv'
  <2> SUFFICES ASSUME UrlInv, [UrlNext]_urlVars
               PROVE  UrlInv'
    OBVIOUS
  <2>1. ASSUME NEW text \in Openings, Open(text)
        PROVE  UrlInv'
    <3>1. text \in Seq(Chars)
      BY TextsAre, UrlAssumption DEF Openings
    <3>2. url' = UrlParse(text)
      BY <2>1 DEF Open
    <3>3. QED
      BY <3>1, <3>2, ParseIs DEF UrlInv, CleanUrl
  <2>2. ASSUME NEW loc \in Locations, Redirect(loc)
        PROVE  UrlInv'
    <3>1. loc \in Seq(Chars) /\ CleanUrl(url)
      BY <2>2, TextsAre, UrlAssumption DEF Locations, Redirect, UrlInv
    <3>2. url' = UrlResolve(url, loc)
      BY <2>2 DEF Redirect
    <3>3. CASE url' = NoUrl
      BY <3>3 DEF UrlInv
    <3>4. CASE url' # NoUrl
      <4>1. url' = UrlParse(Absolute(url, loc))
        BY <3>2, <3>4 DEF UrlResolve
      <4>2. CleanUrl(UrlParse(Absolute(url, loc)))
        BY <3>1, <3>4, <4>1, AbsoluteIs, ParseIs
      <4>3. QED
        BY <4>1, <4>2 DEF UrlInv, CleanUrl
    <3>5. QED
      BY <3>3, <3>4
  <2>3. CASE UNCHANGED urlVars
    BY <2>3 DEF UrlInv, CleanUrl, urlVars
  <2>4. QED
    BY <2>1, <2>2, <2>3 DEF UrlNext
<1>3. QED
  BY <1>1, <1>2, PTL DEF UrlSpec

(* What goes into a request line and a Host header is clean, for every size of
   the buffers, every port and texts and Locations of every length, along every
   chain of redirects. *)
THEOREM UrlCleanHolds == UrlSpec => []UrlClean
<1>1. UrlInv => UrlClean
  <2> SUFFICES ASSUME UrlInv, url # NoUrl
               PROVE  UrlClean
    BY DEF UrlClean
  <2>1. CleanUrl(url)
    BY DEF UrlInv
  <2>2. ToSet(url.path) \cap {"#", "_", "x"} = {}
    <3>1. url.path \in Seq(Clean)
      BY <2>1 DEF CleanUrl
    <3>2. DOMAIN url.path = 1..Len(url.path) /\ \A i \in 1..Len(url.path) : url.path[i] \in Clean
      BY <3>1, LenProperties, ElementOfSeq
    <3>3. ToSet(url.path) \subseteq Clean
      BY <3>2 DEF ToSet
    <3>4. Clean \cap {"#", "_", "x"} = {}
      BY DEF Clean, Written
    <3>5. QED
      BY <3>3, <3>4
  <2>3. QED
    BY <2>1, <2>2 DEF UrlClean, CleanUrl, Plain
<1>2. QED
  BY <1>1, UrlInvHolds, PTL

-----------------------------------------------------------------------------
(* Texts that are built and taken to pieces again *)

(* No character of a host is one of the others. *)
LEMMA PlainIs ==
  /\ Plain \subseteq Chars
  /\ Plain \cap {":", "/", "?", "#", "_", "x"} = {}
<1>1. DOMAIN Figures = 1..10
  BY SMT DEF Figures
<1>2. \A i \in 1..10 : Figures[i] \in {"0", "1", "2", "3", "4", "5", "6", "7", "8", "9"}
  BY SMT DEF Figures
<1>3. DOMAIN Worth = ToSet(Figures)
  BY DEF Worth
<1>4. \A c \in ToSet(Figures) : \E i \in 1..10 : c = Figures[i]
  BY <1>1 DEF ToSet
<1> HIDE DEF Figures
<1>5. ToSet(Figures) \cap {":", "/", "?", "#", "_", "x"} = {}
  <2>1. ToSet(Figures) \subseteq {"0", "1", "2", "3", "4", "5", "6", "7", "8", "9"}
    BY <1>2, <1>4
  <2>2. QED
    BY <2>1, Zenon
<1>6. QED
  BY <1>3, <1>5 DEF Plain, Chars, Letters

(* A host as it was taken is taken again, with its port. *)
LEMMA AuthorityKept ==
  ASSUME NEW u, CleanUrl(u)
  PROVE  /\ Authority(u) \in Seq(Plain \cup {":"})
         /\ Endpoint(Authority(u)) = [host |-> u.host, path |-> <<>>, port |-> u.port]
<1> DEFINE R == Plain \cup {":"}
<1>1. /\ u.host \in Seq(Chars) /\ u.host # <<>> /\ ToSet(u.host) \subseteq Plain
      /\ u.port \in 1..PORT_MAX
  BY DEF CleanUrl
<1>2. u.host \in Seq(Plain)
  <2>1. \A i \in 1..Len(u.host) : u.host[i] \in Plain
    BY <1>1, LenProperties DEF ToSet
  <2>2. QED
    BY <1>1, <2>1, InSeq
<1>3. u.host \in Seq(R) /\ u.host \in Seq(R \ {":"})
  <2>1. Plain \subseteq R /\ Plain \subseteq R \ {":"}
    BY PlainIs
  <2> HIDE DEF R
  <2>2. QED
    BY <1>2, <2>1, SeqMonotonic
<1>4. CASE u.port = PORT
  <2>1. <<>> \in Seq(R)
    BY EmptySeq
  <2>2. Authority(u) = u.host \o <<>>
    BY <1>4 DEF Authority
  <2>3. Upto(u.host \o <<>>, {":"}) = u.host /\ From(u.host \o <<>>, {":"}) = <<>>
    <3> HIDE DEF R
    <3>1. QED
      BY <1>3, <2>1, SplitIs
  <2>4. u.host \o <<>> = u.host
    BY <1>3, ConcatEmptySeq
  <2>5. Endpoint(Authority(u)) = [host |-> u.host, path |-> <<>>, port |-> PORT]
    BY <1>1, <2>2, <2>3 DEF Endpoint, Plain
  <2>6. QED
    BY <1>3, <1>4, <2>2, <2>4, <2>5
<1>5. CASE u.port # PORT
  <2> DEFINE d == PortText(u.port)
             y == <<":">> \o d
  <2>1. d \in Seq(ToSet(Figures)) /\ d # <<>> /\ PortOf(d) = u.port
    BY <1>1, PortWritten
  <2>2. ToSet(d) \subseteq DOMAIN Worth
    <3>1. \A i \in 1..Len(d) : d[i] \in ToSet(Figures)
      BY <2>1, ElementOfSeq
    <3>2. DOMAIN d = 1..Len(d)
      BY <2>1, LenProperties
    <3> HIDE DEF d
    <3>3. QED
      BY <3>1, <3>2 DEF ToSet, Worth
  <2>3. IsPort(d)
    BY <1>1, <2>1, <2>2 DEF IsPort
  <2>4. d \in Seq(R) /\ ":" \in R
    <3>1. ToSet(Figures) \subseteq R
      BY DEF Plain, Worth
    <3> HIDE DEF d
    <3>2. QED
      BY <2>1, <3>1, SeqMonotonic
  <2>5. y \in Seq(R) /\ y # <<>> /\ y[1] = ":" /\ Tail(y) = d
    <3> HIDE DEF d, R
    <3>1. QED
      BY <2>4, ConsIs
  <2>6. Authority(u) = u.host \o y
    BY <1>5 DEF Authority
  <2> HIDE DEF y, d
  <2>7. Upto(u.host \o y, {":"}) = u.host /\ From(u.host \o y, {":"}) = y
    <3>1. y[1] \in {":"}
      BY <2>5
    <3> HIDE DEF R
    <3>2. QED
      BY <1>3, <2>5, <3>1, SplitIs
  <2>8. Endpoint(Authority(u)) = [host |-> u.host, path |-> <<>>, port |-> u.port]
    BY <1>1, <2>1, <2>3, <2>5, <2>6, <2>7 DEF Endpoint, Plain
  <2>9. u.host \o y \in Seq(R)
    <3> HIDE DEF R
    <3>1. QED
      BY <1>3, <2>5, FirstIs
  <2>10. QED
    BY <2>6, <2>8, <2>9
<1>6. QED
  BY <1>4, <1>5

(* A text after its scheme, taken to pieces: authority, path, query, fragment *)
Pieced(r, a, p, q, f) ==
  /\ a \in Seq(Chars \ Ends)
  /\ p \in Seq(Chars \ {"?", "#"}) /\ (p = <<>> \/ p[1] = "/")
  /\ q \in Seq(Chars \ {"#"}) /\ (q = <<>> \/ q[1] = "?")
  /\ f \in Seq(Chars) /\ (f = <<>> \/ f[1] = "#")
  /\ r = a \o (p \o (q \o f))

(* The pieces are texts. *)
LEMMA PiecesIn ==
  ASSUME NEW r, NEW a, NEW p, NEW q, NEW f, Pieced(r, a, p, q, f)
  PROVE  /\ a \in Seq(Chars \ Ends) /\ a \in Seq(Chars)
         /\ p \in Seq(Chars \ {"?", "#"}) /\ p \in Seq(Chars) /\ p \in Seq(Chars \ {"#"})
         /\ p = <<>> \/ p[1] = "/"
         /\ q \in Seq(Chars \ {"#"}) /\ q \in Seq(Chars) /\ (q = <<>> \/ q[1] = "?")
         /\ f \in Seq(Chars) /\ (f = <<>> \/ f[1] = "#")
<1>1. /\ Chars \ Ends \subseteq Chars /\ Chars \ {"#"} \subseteq Chars
      /\ Chars \ {"?", "#"} \subseteq Chars /\ Chars \ {"?", "#"} \subseteq Chars \ {"#"}
  OBVIOUS
<1>2. QED
  BY <1>1, SeqMonotonic DEF Pieced

(* The authority ends where the first of the marks is. *)
LEMMA PiecesCut ==
  ASSUME NEW r, NEW a, NEW p, NEW q, NEW f, Pieced(r, a, p, q, f),
         NEW t, t = p \o (q \o f)
  PROVE  /\ t \in Seq(Chars) /\ (t = <<>> \/ t[1] \in Ends)
         /\ p # <<>> => t # <<>> /\ t[1] = "/"
         /\ p = <<>> /\ t # <<>> => t[1] # "/"
         /\ Upto(r, Ends) = a /\ From(r, Ends) = t
<1> DEFINE tail == p \o (q \o f)
<1>1. /\ a \in Seq(Chars \ Ends) /\ a \in Seq(Chars)
      /\ p \in Seq(Chars) /\ (p = <<>> \/ p[1] = "/")
      /\ q \in Seq(Chars) /\ (q = <<>> \/ q[1] = "?")
      /\ f \in Seq(Chars) /\ (f = <<>> \/ f[1] = "#")
  BY PiecesIn
<1>0. r = a \o tail
  BY DEF Pieced
<1>2. tail \in Seq(Chars) /\ (tail = <<>> \/ tail[1] \in Ends)
      /\ (p # <<>> => tail # <<>> /\ tail[1] = "/")
      /\ (p = <<>> /\ tail # <<>> => tail[1] # "/")
  <2> DEFINE x == q \o f
  <2>1. /\ x \in Seq(Chars)
        /\ (q = <<>> => x = f) /\ (q # <<>> => x # <<>> /\ x[1] = q[1])
    BY <1>1, FirstIs
  <2>2. x = <<>> \/ (x[1] \in Ends /\ x[1] # "/")
    BY <1>1, <2>1 DEF Ends
  <2> HIDE DEF x
  <2>3. /\ p \o x \in Seq(Chars)
        /\ (p = <<>> => p \o x = x) /\ (p # <<>> => p \o x # <<>> /\ (p \o x)[1] = p[1])
    <3>1. p \in Seq(Chars)
      BY <1>1
    <3>2. QED
      BY <2>1, <3>1, FirstIs
  <2> DEFINE y == p \o x
  <2>4. y \in Seq(Chars) /\ (p = <<>> => y = x) /\ (p # <<>> => y # <<>> /\ y[1] = p[1])
    BY <2>3
  <2> HIDE DEF y
  <2>5. /\ y \in Seq(Chars) /\ (y = <<>> \/ y[1] \in Ends)
        /\ (p # <<>> => y # <<>> /\ y[1] = "/") /\ (p = <<>> /\ y # <<>> => y[1] # "/")
    BY <1>1, <2>2, <2>4 DEF Ends
  <2>6. QED
    BY <2>5 DEF x, y
<1>3. Upto(r, Ends) = a /\ From(r, Ends) = tail
  <2> HIDE DEF tail
  <2>1. QED
    BY <1>0, <1>1, <1>2, SplitIs
<1>4. QED
  BY <1>2, <1>3

(* The path a request line gets *)
Path(p, q) == (IF p = <<>> THEN <<"/">> ELSE Encoded(p)) \o Encoded(q)

(* The characters of a text that is not refused for a blank *)
Unblank == Chars \ {"_"}

(* url_parse takes a text to its pieces: nothing when the authority has no host or
   no port, and otherwise the path encoded, unless they are too long. *)
LEMMA ParsePieces ==
  ASSUME NEW r \in Seq(Unblank), NEW a, NEW p, NEW q, NEW f, Pieced(r, a, p, q, f)
  PROVE  /\ Endpoint(a) = NoUrl => UrlParse(Scheme \o r) = NoUrl
         /\ Endpoint(a) # NoUrl =>
              \/ UrlParse(Scheme \o r) = [Endpoint(a) EXCEPT !.path = Path(p, q)]
              \/ /\ UrlParse(Scheme \o r) = NoUrl
                 /\ Len(a) >= HOST_SIZE \/ Len(Path(p, q)) + 3 > PATH_SIZE
<1> DEFINE s == Scheme \o r
           rest == SubSeq(s, Len(Scheme) + 1, Len(s))
           tail == p \o (q \o f)
           root == IF p # <<>> THEN <<>> ELSE <<"/">>
           target == p \o q
<1>1. Scheme \in Seq(Unblank) /\ Len(Scheme) = 4
  <2>1. {"https", ":", "/"} \subseteq Unblank
    BY DEF Chars, Letters, Unblank
  <2>2. QED
    BY <2>1, TextIs DEF Scheme
<1>2. IsPrefix(Scheme, s) /\ rest = r /\ s \in Seq(Unblank)
  <2>1. SubSeq(s, 1, Len(Scheme)) = Scheme /\ rest = r /\ s \in Seq(Unblank) /\ Len(s) = Len(Scheme) + Len(r)
    BY <1>1, ConcatHalves, ConcatProperties
  <2>2. SubSeq(Scheme, 1, Len(Scheme)) = Scheme
    BY <1>1, SubSeqFull
  <2>3. Len(Scheme) <= Len(s)
    <3>1. Len(r) \in Nat
      BY LenProperties
    <3> DEFINE m == Len(Scheme)
               n == Len(r)
    <3>2. m \in Nat /\ n \in Nat
      BY <1>1, <3>1, SMT
    <3> HIDE DEF m, n
    <3>3. m <= m + n
      BY <3>2, SMT
    <3>4. QED
      BY <2>1, <3>3 DEF m, n
  <2>4. QED
    BY <2>1, <2>2, <2>3 DEF IsPrefix
<1>3. ~Contains(s, "_")
  <2>1. \A i \in 1..Len(s) : s[i] \in Unblank
    BY <1>2, ElementOfSeq
  <2> HIDE DEF s
  <2>2. QED
    BY <2>1 DEF Contains, Unblank
<1>4. /\ a \in Seq(Chars \ Ends) /\ a \in Seq(Chars)
      /\ p \in Seq(Chars \ {"?", "#"}) /\ p \in Seq(Chars) /\ p \in Seq(Chars \ {"#"})
      /\ (p = <<>> \/ p[1] = "/")
      /\ q \in Seq(Chars \ {"#"}) /\ q \in Seq(Chars) /\ (q = <<>> \/ q[1] = "?")
      /\ f \in Seq(Chars) /\ (f = <<>> \/ f[1] = "#")
  BY PiecesIn
<1>5. /\ tail \in Seq(Chars) /\ (tail = <<>> \/ tail[1] \in Ends)
      /\ (p # <<>> => tail # <<>> /\ tail[1] = "/")
      /\ (p = <<>> /\ tail # <<>> => tail[1] # "/")
      /\ Upto(r, Ends) = a /\ From(r, Ends) = tail
  BY PiecesCut
<1>6. Upto(r, Ends) = a /\ From(r, Ends) = tail
  BY <1>5
<1>7. tail = target \o f /\ target \in Seq(Chars \ {"#"})
  <2>1. Joins(p, q, f)
    BY <1>4, Joined
  <2> DEFINE xy == p \o q
             yz == q \o f
  <2>2. xy \o f = p \o yz
    <3>1. xy = p \o q /\ yz = q \o f
      OBVIOUS
    <3> HIDE DEF xy, yz
    <3>2. QED
      BY <2>1, <3>1 DEF Joins
  <2>3. xy \in Seq(Chars \ {"#"})
    BY <1>4, FirstIs
  <2>4. QED
    BY <2>2, <2>3
<1>8. Upto(tail, {"#"}) = target
  <2>1. f = <<>> \/ f[1] \in {"#"}
    BY <1>4
  <2> HIDE DEF target, tail
  <2>2. Upto(target \o f, {"#"}) = target
    BY <1>4, <1>7, <2>1, SplitIs
  <2>3. QED
    BY <1>7, <2>2
<1>9. target \in Seq(Written) /\ p \in Seq(Written) /\ q \in Seq(Written)
  <2>1. From(r, Ends) \in Seq(Unblank)
    BY FromIs
  <2>2. tail \in Seq(Unblank)
    BY <1>6, <2>1
  <2>3. Unblank \ {"#"} = Written
    BY DEF Unblank, Written
  <2>4. Upto(tail, {"#"}) \in Seq(Unblank \ {"#"})
    <3> HIDE DEF tail
    <3>1. QED
      BY <2>2, UptoIs
  <2>5. target \in Seq(Written)
    <3> HIDE DEF tail, target
    <3>1. QED
      BY <1>8, <2>3, <2>4
  <2>6. QED
    BY <1>4, <2>5, PartsIn
<1>10. (IF tail # <<>> /\ Head(tail) = "/" THEN <<>> ELSE <<"/">>) = root
  <2> HIDE DEF tail
  <2>1. tail # <<>> => Head(tail) = tail[1]
    BY <1>5, HeadIs
  <2>2. QED
    BY <1>5, <2>1
<1>11. root \o Encoded(target) = Path(p, q)
  <2>1. CASE p = <<>>
    <3>1. target = q
      BY <1>4, <2>1, ConcatEmptySeq
    <3> HIDE DEF target
    <3>2. QED
      BY <2>1, <3>1 DEF Path
  <2>2. CASE p # <<>>
    <3>1. Encoded(target) = Encoded(p) \o Encoded(q)
      BY <1>9, EncodedConcat
    <3>2. Encoded(target) \in Seq(Clean)
      BY <1>9, EncodedIs
    <3> HIDE DEF target
    <3>3. root \o Encoded(target) = Encoded(target)
      BY <2>2, <3>2, ConcatEmptySeq
    <3>4. QED
      BY <2>2, <3>1, <3>3 DEF Path
  <2>3. QED
    BY <2>1, <2>2
<1>12. root \in Seq(Clean)
  <2>1. "/" \in Clean
    BY DEF Clean, Written, Chars
  <2>2. <<"/">> \in Seq(Clean) /\ <<>> \in Seq(Clean)
    BY <2>1, TextIs, EmptySeq
  <2>3. QED
    BY <2>2
<1> HIDE DEF root, target, tail, rest, s
<1>13. target # <<>> /\ ~Room(root \o Encoded(Front(target))) => Len(Path(p, q)) + 3 > PATH_SIZE
  <2> SUFFICES ASSUME target # <<>>, ~Room(root \o Encoded(Front(target)))
               PROVE  Len(Path(p, q)) + 3 > PATH_SIZE
    OBVIOUS
  <2> DEFINE e == Encoded(target)
             g == Encoded(Front(target))
  <2>1. e \in Seq(Clean) /\ g \in Seq(Clean) /\ Len(g) + 1 <= Len(e)
    BY <1>9, EncodedIs
  <2>2. ~(Len(root \o g) + 4 <= PATH_SIZE)
    BY DEF Room
  <2>3. Path(p, q) = root \o e
    BY <1>11
  <2> HIDE DEF e, g
  <2>4. Len(root \o g) = Len(root) + Len(g) /\ Len(root \o e) = Len(root) + Len(e)
    BY <1>12, <2>1, ConcatProperties
  <2>5. Len(root) \in Nat /\ Len(g) \in Nat /\ Len(e) \in Nat
    BY <1>12, <2>1, LenProperties
  <2>6. ASSUME NEW k \in Nat, NEW m \in Nat, NEW n \in Nat, m + 1 <= n, NEW size \in Nat,
               ~((k + m) + 4 <= size)
        PROVE  (k + n) + 3 > size
    BY <2>6, SMT
  <2>7. QED
    BY <2>1, <2>2, <2>3, <2>4, <2>5, <2>6, UrlAssumption
<1>14. UrlParse(s) =
         IF \/ ~IsPrefix(Scheme, s) \/ Contains(s, "_")
            \/ Len(a) >= HOST_SIZE \/ Endpoint(a) = NoUrl
            \/ target # <<>> /\ ~Room(root \o Encoded(Front(target)))
         THEN NoUrl
         ELSE [Endpoint(a) EXCEPT !.path = root \o Encoded(target)]
  <2>1. SubSeq(s, Len(Scheme) + 1, Len(s)) = r
    BY <1>2 DEF rest
  <2>2. QED
    BY <1>6, <1>8, <1>10, <2>1 DEF UrlParse
<1>15. QED
  BY <1>2, <1>3, <1>11, <1>13, <1>14 DEF s

(* What each piece of a text may be *)
Hierarchy == Chars \ {"?", "#"}

(* A query and a fragment *)
Tailed(q, f) ==
  /\ q \in Seq(Chars \ {"#"}) /\ (q = <<>> \/ q[1] = "?")
  /\ f \in Seq(Chars) /\ (f = <<>> \/ f[1] = "#")

(* They begin with their marks. *)
LEMMA TailIs ==
  ASSUME NEW q, NEW f, Tailed(q, f)
  PROVE  /\ q \in Seq(Chars) /\ f \in Seq(Chars) /\ q \o f \in Seq(Chars)
         /\ q \o f = <<>> \/ (q \o f)[1] \in {"?", "#"}
         /\ q = <<>> => q \o f = f
         /\ q # <<>> => q \o f # <<>> /\ (q \o f)[1] = "?"
<1>1. q \in Seq(Chars) /\ f \in Seq(Chars)
  <2>1. Chars \ {"#"} \subseteq Chars
    OBVIOUS
  <2>2. QED
    BY <2>1, SeqMonotonic DEF Tailed
<1>2. /\ q \o f \in Seq(Chars) /\ (q = <<>> => q \o f = f)
      /\ q # <<>> => q \o f # <<>> /\ (q \o f)[1] = q[1]
  BY <1>1, FirstIs
<1>3. QED
  BY <1>1, <1>2 DEF Tailed

(* The characters before them *)
LEMMA HierarchyIs ==
  /\ Hierarchy \subseteq Chars /\ Hierarchy \subseteq Chars \ {"#"}
  /\ (Chars \ {"#"}) \ {"?"} = Hierarchy
  /\ Hierarchy \ {"/"} = Chars \ Ends
  /\ Chars \ Ends \subseteq Hierarchy
BY DEF Hierarchy, Ends

(* There is one way to take a text to pieces. *)
LEMMA HierIs ==
  ASSUME NEW h \in Seq(Hierarchy), NEW q, NEW f, Tailed(q, f)
  PROVE  Hier(h \o (q \o f)) = h /\ Query(h \o (q \o f)) = q
<1> DEFINE loc == h \o (q \o f)
           b == h \o q
<1>1. h \in Seq(Chars) /\ h \in Seq(Chars \ {"#"}) /\ h \in Seq((Chars \ {"#"}) \ {"?"})
  BY HierarchyIs, SeqMonotonic
<1>2. /\ q \in Seq(Chars) /\ q \in Seq(Chars \ {"#"}) /\ f \in Seq(Chars)
      /\ (q = <<>> \/ q[1] \in {"?"}) /\ (f = <<>> \/ f[1] \in {"#"})
  BY TailIs DEF Tailed
<1>3. loc = b \o f
  <2>1. Joins(h, q, f)
    BY <1>1, <1>2, Joined
  <2> DEFINE y == q \o f
  <2>2. b = h \o q /\ y = q \o f
    OBVIOUS
  <2>3. b \o f = h \o y
    <3> HIDE DEF b, y
    <3>1. QED
      BY <2>1, <2>2 DEF Joins
  <2>4. QED
    BY <2>3
<1>4. b \in Seq(Chars \ {"#"})
  BY <1>1, <1>2, FirstIs
<1>5. Upto(b, {"?"}) = h /\ From(b, {"?"}) = q
  <2> DEFINE E == Chars \ {"#"}
  <2>1. h \in Seq(E \ {"?"}) /\ q \in Seq(E) /\ (q = <<>> \/ q[1] \in {"?"})
    BY <1>1, <1>2
  <2> HIDE DEF E
  <2>2. QED
    BY <2>1, SplitIs
<1> HIDE DEF b, loc
<1>6. Upto(loc, {"#"}) = b
  BY <1>2, <1>3, <1>4, SplitIs
<1>7. QED
  BY <1>5, <1>6 DEF Hier, Query, loc

(* Every Location comes to pieces. *)
LEMMA LocIs ==
  ASSUME NEW loc \in Seq(Chars)
  PROVE  /\ Hier(loc) \in Seq(Hierarchy) /\ Hier(loc) \in Seq(Chars)
         /\ Tailed(Query(loc), From(loc, {"#"}))
         /\ loc = Hier(loc) \o (Query(loc) \o From(loc, {"#"}))
<1> DEFINE b == Upto(loc, {"#"})
           f == From(loc, {"#"})
           h == Upto(b, {"?"})
           q == From(b, {"?"})
<1>1. /\ b \in Seq(Chars \ {"#"}) /\ f \in Seq(Chars) /\ b \o f = loc
      /\ f = <<>> \/ f[1] \in {"#"}
  BY SplitExists
<1> HIDE DEF b, f
<1>2. /\ h \in Seq((Chars \ {"#"}) \ {"?"}) /\ q \in Seq(Chars \ {"#"}) /\ h \o q = b
      /\ q = <<>> \/ q[1] \in {"?"}
  BY <1>1, SplitExists
<1> HIDE DEF h, q
<1>3. h \in Seq(Hierarchy)
  BY <1>2, HierarchyIs
<1>4. h \in Seq(Chars)
  BY <1>3, HierarchyIs, SeqMonotonic
<1>5. Tailed(q, f)
  BY <1>1, <1>2 DEF Tailed
<1>6. loc = h \o (q \o f)
  <2>1. Joins(h, q, f)
    BY <1>4, <1>5, TailIs, Joined
  <2> DEFINE y == q \o f
  <2>2. b = h \o q /\ y = q \o f
    BY <1>2
  <2>3. b \o f = h \o y
    <3> HIDE DEF y
    <3>1. QED
      BY <2>1, <2>2 DEF Joins
  <2>4. QED
    BY <1>1, <2>3
<1>7. Hier(loc) = h /\ Query(loc) = q
  BY DEF Hier, Query, h, q, b
<1>8. QED
  BY <1>3, <1>4, <1>5, <1>6, <1>7 DEF f

(* What is before the query comes apart at its first slash. *)
LEMMA HierPieced ==
  ASSUME NEW h \in Seq(Hierarchy), NEW q, NEW f, Tailed(q, f)
  PROVE  Pieced(h \o (q \o f), Upto(h, {"/"}), From(h, {"/"}), q, f)
<1> DEFINE a == Upto(h, {"/"})
           p == From(h, {"/"})
           t == q \o f
<1>1. /\ a \in Seq(Hierarchy \ {"/"}) /\ a \in Seq(Hierarchy) /\ p \in Seq(Hierarchy)
      /\ a \o p = h /\ (p = <<>> \/ p[1] \in {"/"})
  BY SplitExists
<1>2. a \in Seq(Chars \ Ends)
  BY <1>1, HierarchyIs
<1>3. h \o t = a \o (p \o t)
  <2> HIDE DEF a, p
  <2>1. a \in Seq(Chars) /\ p \in Seq(Chars) /\ t \in Seq(Chars)
    BY <1>1, HierarchyIs, SeqMonotonic, TailIs
  <2>2. Joins(a, p, t)
    <3> HIDE DEF t
    <3>1. QED
      BY <2>1, Joined
  <2> DEFINE y == p \o t
  <2>3. h = a \o p /\ y = p \o t
    BY <1>1
  <2>4. h \o t = a \o y
    <3> HIDE DEF y, t
    <3>1. QED
      BY <2>2, <2>3 DEF Joins
  <2>5. QED
    BY <2>4
<1>4. p \in Seq(Chars \ {"?", "#"})
  BY <1>1 DEF Hierarchy
<1> HIDE DEF a, p
<1>5. Pieced(h \o t, a, p, q, f)
  BY <1>1, <1>2, <1>3, <1>4 DEF Pieced, Tailed
<1>6. QED
  BY <1>5 DEF a, p, t

(* A text begins as its hierarchy does. *)
LEMMA PrefixHier ==
  ASSUME NEW loc \in Seq(Chars), NEW x \in Seq(Hierarchy)
  PROVE  IsPrefix(x, loc) <=> IsPrefix(x, Hier(loc))
<1>0. x \in Seq(Chars)
  BY HierarchyIs, SeqMonotonic
<1>1. ASSUME IsPrefix(x, loc)
      PROVE  IsPrefix(x, Hier(loc))
  <2> DEFINE w == SubSeq(loc, Len(x) + 1, Len(loc))
             h == Hier(w)
             q == Query(w)
             f == From(w, {"#"})
             t == q \o f
  <2>1. w \in Seq(Chars) /\ loc = x \o w
    BY <1>0, <1>1, PrefixIs
  <2> HIDE DEF w
  <2>2. h \in Seq(Hierarchy) /\ h \in Seq(Chars) /\ Tailed(q, f) /\ w = h \o t
    BY <2>1, LocIs
  <2> HIDE DEF h, q, f
  <2>3. t \in Seq(Chars)
    BY <2>2, TailIs
  <2>4. Joins(x, h, t)
    <3> HIDE DEF t
    <3>1. QED
      BY <1>0, <2>2, <2>3, Joined
  <2> DEFINE z == x \o h
  <2>5. z \in Seq(Hierarchy)
    BY <2>2, FirstIs
  <2>6. loc = z \o t
    <3>1. z = x \o h
      OBVIOUS
    <3> HIDE DEF z, t
    <3>2. z \o t = x \o w
      BY <2>2, <2>4, <3>1 DEF Joins
    <3>3. QED
      BY <2>1, <3>2
  <2> HIDE DEF z
  <2>7. Hier(z \o (q \o f)) = z
    BY <2>2, <2>5, HierIs
  <2>8. Hier(loc) = z
    BY <2>6, <2>7
  <2>9. QED
    BY <1>0, <2>2, <2>8, PrefixIs DEF z
<1>2. ASSUME IsPrefix(x, Hier(loc))
      PROVE  IsPrefix(x, loc)
  <2> DEFINE h == Hier(loc)
             w == SubSeq(h, Len(x) + 1, Len(h))
             t == Query(loc) \o From(loc, {"#"})
             z == w \o t
  <2>1. h \in Seq(Chars) /\ t \in Seq(Chars) /\ loc = h \o t
    BY LocIs, TailIs
  <2> HIDE DEF h, t
  <2>2. w \in Seq(Chars) /\ h = x \o w
    BY <1>0, <1>2, <2>1, PrefixIs DEF h
  <2> HIDE DEF w
  <2>3. Joins(x, w, t)
    BY <1>0, <2>1, <2>2, Joined
  <2>4. z \in Seq(Chars) /\ loc = x \o z
    <3>1. z = w \o t
      OBVIOUS
    <3>2. z \in Seq(Chars)
      BY <2>1, <2>2, FirstIs
    <3> HIDE DEF z
    <3>3. h \o t = x \o z
      BY <2>2, <2>3, <3>1 DEF Joins
    <3>4. QED
      BY <2>1, <3>2, <3>3
  <2> HIDE DEF z
  <2>5. QED
    BY <1>0, <2>4, PrefixIs
<1>3. QED
  BY <1>1, <1>2

(* The first of the marks ends what is before the first slash: where the code
   looks for the colon of a scheme, the standard does. *)
LEMMA EndsAre ==
  ASSUME NEW loc \in Seq(Chars)
  PROVE  Upto(loc, Ends) = Upto(Hier(loc), {"/"})
<1> DEFINE h == Hier(loc)
           q == Query(loc)
           f == From(loc, {"#"})
           t == From(h, {"/"}) \o (q \o f)
<1>1. h \in Seq(Hierarchy) /\ Tailed(q, f) /\ loc = h \o (q \o f)
  BY LocIs
<1> HIDE DEF h, q, f
<1>2. Pieced(h \o (q \o f), Upto(h, {"/"}), From(h, {"/"}), q, f)
  BY <1>1, HierPieced
<1>3. Pieced(loc, Upto(h, {"/"}), From(h, {"/"}), q, f)
  BY <1>1, <1>2
<1>4. Upto(loc, Ends) = Upto(h, {"/"})
  BY <1>3, PiecesCut
<1>5. QED
  BY <1>4 DEF h

Slashes == <<"/", "/">>

(* What the code writes before a Location *)
LEMMA MarksIn ==
  /\ Scheme \in Seq(Hierarchy) /\ Slashes \in Seq(Hierarchy) /\ <<"https", ":">> \in Seq(Hierarchy)
  /\ <<"https">> \in Seq(Hierarchy \ {":"}) /\ <<":">> \in Seq(Hierarchy)
  /\ ":" \in Hierarchy /\ "/" \in Hierarchy /\ "https" \in Hierarchy
  /\ Len(Slashes) = 2 /\ Slashes # <<>> /\ Slashes[1] = "/"
<1>1. {"https", ":", "/"} \subseteq Hierarchy /\ "https" \in Hierarchy \ {":"}
  BY DEF Chars, Letters, Hierarchy
<1> HIDE DEF Hierarchy
<1>2. Len(Slashes) = 2 /\ Slashes # <<>> /\ Slashes[1] = "/"
  BY SMT DEF Slashes
<1>3. QED
  BY <1>1, <1>2, TextIs DEF Scheme, Slashes

(* The scheme, the colon and the slashes, however they are joined *)
LEMMA SchemeParts ==
  ASSUME NEW y \in Seq(Chars)
  PROVE  /\ <<"https", ":">> \o (Slashes \o y) = Scheme \o y
         /\ Scheme \o y = <<"https">> \o (<<":">> \o (Slashes \o y))
<1>1. "https" \in Chars /\ ":" \in Chars /\ "/" \in Chars
  BY DEF Chars, Letters
<1> HIDE DEF Chars
<1>2. QED
  BY <1>1, SMT DEF Scheme, Slashes

(* A Location that begins with two slashes has no scheme. *)
LEMMA SlashesSay ==
  ASSUME NEW loc \in Seq(Chars)
  PROVE  /\ Slashes = <<"/", "/">>
         /\ IsPrefix(Slashes, loc) => ~HasScheme(loc)
         /\ IsPrefix(Slashes, loc) <=> IsPrefix(Slashes, Hier(loc))
         /\ HasScheme(loc) <=> Contains(Upto(loc, Ends), ":")
<1>1. IsPrefix(Slashes, loc) <=> IsPrefix(Slashes, Hier(loc))
  BY MarksIn, PrefixHier
<1>2. HasScheme(loc) <=> Contains(Upto(loc, Ends), ":")
  BY EndsAre DEF HasScheme
<1>3. ASSUME IsPrefix(Slashes, loc)
      PROVE  ~HasScheme(loc)
  <2> DEFINE w == SubSeq(loc, Len(Slashes) + 1, Len(loc))
             v == Slashes \o w
  <2>1. Slashes \in Seq(Chars)
    BY MarksIn, HierarchyIs, SeqMonotonic
  <2>2. w \in Seq(Chars) /\ loc = Slashes \o w
    BY <1>3, <2>1, PrefixIs
  <2> HIDE DEF w
  <2>3. v \in Seq(Chars) /\ v[1] = "/"
    BY <2>1, <2>2, MarksIn, FirstIs
  <2>4. <<>> \in Seq(Chars \ Ends) /\ v[1] \in Ends
    BY <2>3, EmptySeq DEF Ends
  <2> HIDE DEF v
  <2>5. Upto(<<>> \o v, Ends) = <<>> /\ <<>> \o v = v
    BY <2>3, <2>4, SplitIs, ConcatEmptySeq
  <2>6. Upto(loc, Ends) = <<>>
    BY <2>2, <2>5 DEF v
  <2>7. ~Contains(<<>>, ":")
    <3>1. Len(<<>>) = 0 /\ ~(\E i \in 1..0 : TRUE)
      BY EmptySeq, SMT
    <3>2. QED
      BY <3>1 DEF Contains
  <2>8. QED
    BY <1>2, <2>6, <2>7
<1>4. QED
  BY <1>1, <1>2, <1>3 DEF Slashes

(* The text url_resolve parses, by the shape of the Location *)
LEMMA TextParsed ==
  ASSUME NEW u, NEW loc \in Seq(Chars)
  PROVE  /\ HasScheme(loc) => Absolute(u, loc) = loc
         /\ IsPrefix(Slashes, loc) => Absolute(u, loc) = <<"https", ":">> \o loc
         /\ ~HasScheme(loc) /\ ~IsPrefix(Slashes, loc) =>
              Absolute(u, loc) = Scheme \o Authority(u) \o KeptPath(u.path, loc) \o loc
<1> DEFINE x == <<"https", ":">> \o loc
           z == Scheme \o Authority(u) \o KeptPath(u.path, loc) \o loc
<1>1. Absolute(u, loc) =
        CASE IsPrefix(Slashes, loc) -> x [] HasScheme(loc) -> loc [] OTHER -> z
  BY SlashesSay DEF Absolute, Slashes
<1> HIDE DEF x, z
<1>2. IsPrefix(Slashes, loc) => ~HasScheme(loc)
  BY SlashesSay
<1>3. QED
  BY <1>1, <1>2 DEF x, z

(* What url_parse may make of a text: what the pieces say, or nothing when
   they are too long *)
Comes(s, end, p, q, size) ==
  IF end = NoUrl THEN UrlParse(s) = NoUrl
  ELSE \/ UrlParse(s) = [end EXCEPT !.path = Path(p, q)]
       \/ UrlParse(s) = NoUrl /\ (size >= HOST_SIZE \/ Len(Path(p, q)) + 3 > PATH_SIZE)

(* A Location with an authority of its own: the text that is parsed is the scheme
   and what the Location says, whether it had the scheme or not. *)
LEMMA GivenComes ==
  ASSUME NEW u, NEW loc \in Seq(Unblank), HasAuthority(loc),
         HasScheme(loc) => Upto(Hier(loc), {":"}) = <<"https">>
  PROVE  LET a == Upto(Given(loc), {"/"})
         IN Comes(Absolute(u, loc), Endpoint(a), From(Given(loc), {"/"}), Query(loc), Len(a))
<1> DEFINE h == Hier(loc)
           g == Given(loc)
           q == Query(loc)
           f == From(loc, {"#"})
           t == q \o f
           r == g \o t
           rest == Rest(loc)
<1>1. loc \in Seq(Chars)
  <2>1. Unblank \subseteq Chars
    BY DEF Unblank
  <2>2. QED
    BY <2>1, SeqMonotonic
<1>2. h \in Seq(Hierarchy) /\ h \in Seq(Chars) /\ Tailed(q, f) /\ loc = h \o t
  BY <1>1, LocIs
<1>3. t \in Seq(Chars)
  BY <1>2, TailIs
<1>4. rest \in Seq(Hierarchy) /\ (HasScheme(loc) => h = <<"https">> \o (<<":">> \o rest))
  <2>1. CASE ~HasScheme(loc)
    BY <1>2, <2>1 DEF Rest
  <2>2. CASE HasScheme(loc)
    <3> DEFINE w == From(h, {":"})
    <3>1. Upto(h, {":"}) = <<"https">>
      BY <2>2
    <3>2. /\ w \in Seq(Hierarchy) /\ Upto(h, {":"}) \o w = h
          /\ w = <<>> \/ w[1] \in {":"}
      <4> HIDE DEF h
      <4>1. QED
        BY <1>2, SplitExists
    <3>3. w # <<>>
      <4> SUFFICES ASSUME w = <<>>
                   PROVE  FALSE
        OBVIOUS
      <4>1. h = <<"https">>
        <5>1. <<"https">> \in Seq(Hierarchy)
          BY MarksIn, TextIs
        <5>2. <<"https">> \o w = <<"https">>
          <6> HIDE DEF w
          <6>1. QED
            BY <5>1, ConcatEmptySeq
        <5>3. QED
          BY <3>1, <3>2, <5>2
      <4>2. PICK i \in 1..Len(Upto(h, {"/"})) : Upto(h, {"/"})[i] = ":"
        BY <2>2 DEF HasScheme, Contains
      <4>3. Upto(h, {"/"}) \o From(h, {"/"}) = h /\ Upto(h, {"/"}) \in Seq(Hierarchy) /\ From(h, {"/"}) \in Seq(Hierarchy)
        <5> HIDE DEF h
        <5>1. QED
          BY <1>2, SplitExists
      <4>4. Contains(h, ":")
        <5> DEFINE x == Upto(h, {"/"})
                   y == From(h, {"/"})
        <5>1. Len(x) \in Nat /\ Len(y) \in Nat
          BY <4>3, LenProperties
        <5>2. i \in 1..(Len(x) + Len(y)) /\ i <= Len(x)
          <6> HIDE DEF x, y
          <6>1. i \in 1..Len(x)
            BY DEF x
          <6>2. QED
            BY <5>1, <6>1, SMT
        <5>3. Len(x \o y) = Len(x) + Len(y) /\ (x \o y)[i] = x[i]
          <6> HIDE DEF x, y
          <6>1. x \in Seq(Hierarchy) /\ y \in Seq(Hierarchy)
            BY <4>3 DEF x, y
          <6>2. QED
            BY <5>2, <6>1, ConcatProperties
        <5>4. QED
          BY <4>2, <4>3, <5>2, <5>3 DEF Contains
      <4>5. Len(<<"https">>) = 1 /\ (\A j \in 1..1 : <<"https">>[j] = "https") /\ "https" # ":"
        BY SMT
      <4>6. QED
        BY <4>1, <4>4, <4>5 DEF Contains
    <3>4. PICK v \in Seq(Hierarchy) : w = <<":">> \o v
      <4>1. w[1] = ":" /\ w = <<w[1]>> \o Tail(w) /\ Tail(w) \in Seq(Hierarchy)
        <5>1. w[1] = ":" /\ w \in Seq(Hierarchy) /\ w # <<>>
          BY <3>2, <3>3
        <5> HIDE DEF w
        <5>2. w = <<w[1]>> \o Tail(w) /\ Tail(w) \in Seq(Hierarchy)
          BY <5>1, SMT
        <5>3. QED
          BY <5>1, <5>2
      <4>2. QED
        BY <4>1
    <3>5. Tail(w) = v
      BY <3>4, MarksIn, ConsIs
    <3>6. rest = v
      BY <2>2, <3>5 DEF Rest
    <3>7. QED
      BY <3>1, <3>2, <3>4, <3>6
  <2>3. QED
    BY <2>1, <2>2
<1>5. g \in Seq(Hierarchy) /\ rest = Slashes \o g
  <2>1. IsPrefix(Slashes, rest)
    BY DEF HasAuthority, Slashes
  <2>2. g = SubSeq(rest, Len(Slashes) + 1, Len(rest))
    <3>1. Len(Slashes) + 1 = 3
      <4>1. 2 + 1 = 3
        BY SMT
      <4>2. QED
        BY <4>1, MarksIn
    <3>2. QED
      BY <3>1 DEF Given
  <2> HIDE DEF rest, g
  <2>3. QED
    BY <1>4, <2>1, <2>2, MarksIn, PrefixIs
<1> HIDE DEF h, q, f, g, rest
<1>6. g \in Seq(Chars) /\ r \in Seq(Chars) /\ Slashes \in Seq(Chars)
  <2>1. g \in Seq(Chars) /\ Slashes \in Seq(Chars)
    BY <1>5, MarksIn, HierarchyIs, SeqMonotonic
  <2> HIDE DEF t
  <2>2. QED
    BY <1>3, <2>1, FirstIs
<1>7. (Slashes \o g) \o t = Slashes \o r
  <2>1. Joins(Slashes, g, t)
    <3> HIDE DEF t
    <3>1. QED
      BY <1>3, <1>6, Joined
  <2>2. r = g \o t
    OBVIOUS
  <2> HIDE DEF r, t
  <2>3. QED
    BY <2>1, <2>2 DEF Joins
<1>8. Absolute(u, loc) = Scheme \o r /\ r \in Seq(Unblank)
  <2>1. CASE ~HasScheme(loc)
    <3>1. rest = h
      BY <2>1 DEF Rest, rest, h
    <3>2. loc = Slashes \o r
      BY <1>2, <1>5, <1>7, <3>1
    <3>3. IsPrefix(Slashes, loc)
      <4> HIDE DEF r
      <4>1. QED
        BY <1>6, <3>2, PrefixIs
    <3>4. Absolute(u, loc) = <<"https", ":">> \o loc
      BY <1>1, <3>3, TextParsed
    <3>5. Absolute(u, loc) = Scheme \o r
      <4> HIDE DEF r
      <4>1. QED
        BY <1>6, <3>2, <3>4, SchemeParts
    <3>6. r \in Seq(Unblank)
      <4>1. Slashes \o r \in Seq(Unblank)
        BY <3>2
      <4> HIDE DEF r
      <4>2. QED
        BY <1>6, <4>1, PartsIn
    <3>7. QED
      BY <3>5, <3>6
  <2>2. CASE HasScheme(loc)
    <3>1. h = Scheme \o g
      <4>1. h = <<"https">> \o (<<":">> \o (Slashes \o g))
        BY <1>4, <1>5, <2>2
      <4>2. QED
        BY <1>6, <4>1, SchemeParts
    <3>2. Scheme \in Seq(Chars)
      BY MarksIn, HierarchyIs, SeqMonotonic
    <3>3. loc = Scheme \o r
      <4>1. Joins(Scheme, g, t)
        <5> HIDE DEF t
        <5>1. QED
          BY <1>3, <1>6, <3>2, Joined
      <4>2. r = g \o t
        OBVIOUS
      <4> HIDE DEF r, t
      <4>3. h \o t = Scheme \o r
        BY <3>1, <4>1, <4>2 DEF Joins
      <4>4. QED
        BY <1>2, <4>3 DEF t
    <3>4. Absolute(u, loc) = loc
      BY <1>1, <2>2, TextParsed
    <3>5. r \in Seq(Unblank)
      <4>1. Scheme \o r \in Seq(Unblank)
        BY <3>3
      <4> HIDE DEF r
      <4>2. QED
        BY <1>6, <3>2, <4>1, PartsIn
    <3>6. QED
      BY <3>3, <3>4, <3>5
  <2>3. QED
    BY <2>1, <2>2
<1>9. Pieced(r, Upto(g, {"/"}), From(g, {"/"}), q, f)
  BY <1>2, <1>5, HierPieced
<1> DEFINE a == Upto(g, {"/"})
           p == From(g, {"/"})
<1>10. /\ Endpoint(a) = NoUrl => UrlParse(Scheme \o r) = NoUrl
       /\ Endpoint(a) # NoUrl =>
            \/ UrlParse(Scheme \o r) = [Endpoint(a) EXCEPT !.path = Path(p, q)]
            \/ /\ UrlParse(Scheme \o r) = NoUrl
               /\ Len(a) >= HOST_SIZE \/ Len(Path(p, q)) + 3 > PATH_SIZE
  <2>1. Pieced(r, a, p, q, f)
    BY <1>9
  <2> HIDE DEF a, p, r
  <2>2. QED
    BY <1>8, <2>1, ParsePieces
<1> HIDE DEF r, a, p
<1>11. Comes(Absolute(u, loc), Endpoint(a), p, q, Len(a))
  BY <1>8, <1>10 DEF Comes
<1>12. QED
  BY <1>11 DEF a, p, g, q

(* A scheme that is not https, or one no authority follows, is no address. *)
LEMMA ForeignIs ==
  ASSUME NEW loc \in Seq(Chars),
         Upto(Hier(loc), {":"}) # <<"https">> \/ ~HasAuthority(loc), HasScheme(loc)
  PROVE  UrlParse(loc) = NoUrl
<1> DEFINE h == Hier(loc)
           w == SubSeq(h, Len(Scheme) + 1, Len(h))
           z == Slashes \o w
           y == <<":">> \o z
<1>1. ~IsPrefix(Scheme, loc)
  <2> SUFFICES ASSUME IsPrefix(Scheme, loc)
               PROVE  FALSE
    OBVIOUS
  <2>1. IsPrefix(Scheme, h)
    BY MarksIn, PrefixHier
  <2>2. h \in Seq(Hierarchy)
    BY LocIs
  <2> HIDE DEF h
  <2>3. w \in Seq(Hierarchy) /\ h = Scheme \o w
    BY <2>1, <2>2, MarksIn, PrefixIs
  <2> HIDE DEF w
  <2>4. w \in Seq(Chars)
    BY <2>3, HierarchyIs, SeqMonotonic
  <2>5. h = <<"https">> \o y
    BY <2>3, <2>4, SchemeParts
  <2>6. z \in Seq(Hierarchy)
    BY <2>3, MarksIn, FirstIs
  <2>7. IsPrefix(Slashes, z)
    BY <2>3, MarksIn, PrefixIs
  <2> HIDE DEF z
  <2>8. y \in Seq(Hierarchy) /\ y # <<>> /\ y[1] = ":" /\ Tail(y) = z
    BY <2>6, MarksIn, ConsIs
  <2>9. y[1] \in {":"}
    BY <2>8
  <2> HIDE DEF y
  <2>10. Upto(<<"https">> \o y, {":"}) = <<"https">> /\ From(<<"https">> \o y, {":"}) = y
    BY <2>8, <2>9, MarksIn, SplitIs
  <2>11. Rest(loc) = z
    BY <2>5, <2>8, <2>10 DEF Rest, h
  <2>12. QED
    BY <2>5, <2>7, <2>10, <2>11 DEF HasAuthority, Slashes, h
<1>2. QED
  BY <1>1 DEF UrlParse

(* The path an address keeps, and what a Location puts after it *)
LEMMA KeptIs ==
  ASSUME NEW u, CleanUrl(u), NEW loc \in Seq(Chars)
  PROVE  LET h == Hier(loc)
             q == Query(loc)
             f == From(loc, {"#"})
             path == Upto(u.path, {"?"})
             p == IF h = <<>> THEN path
                  ELSE IF Head(h) = "/" THEN h ELSE Directory(path) \o h
             s == IF h = <<>> /\ q = <<>> THEN From(u.path, {"?"}) ELSE q
         IN  /\ p \in Seq(Hierarchy) /\ p # <<>> /\ p[1] = "/" /\ Tailed(s, f)
             /\ KeptPath(u.path, loc) \o loc = p \o (s \o f)
<1> DEFINE h == Hier(loc)
           q == Query(loc)
           f == From(loc, {"#"})
           path == Upto(u.path, {"?"})
           v == From(u.path, {"?"})
           d == Directory(path)
           t == q \o f
           kept == KeptPath(u.path, loc)
<1>1. h \in Seq(Hierarchy) /\ h \in Seq(Chars) /\ Tailed(q, f) /\ loc = h \o t
  BY LocIs
<1>2. /\ t \in Seq(Chars) /\ q \in Seq(Chars) /\ f \in Seq(Chars)
      /\ (q = <<>> => t = f) /\ (q # <<>> => t # <<>> /\ t[1] = "?")
      /\ (f = <<>> \/ f[1] = "#")
  BY <1>1, TailIs DEF Tailed
<1>3. /\ path \in Seq(Hierarchy) /\ path \in Seq(Chars) /\ path # <<>> /\ path[1] = "/"
      /\ v \in Seq(Chars) /\ v \in Seq(Chars \ {"#"}) /\ (v = <<>> \/ v[1] = "?")
      /\ path \o v = u.path
  <2>1. u.path \in Seq(Clean) /\ u.path # <<>> /\ u.path[1] = "/"
    BY HeadIs DEF CleanUrl
  <2>2. /\ path \in Seq(Clean \ {"?"}) /\ v \in Seq(Clean) /\ path \o v = u.path
        /\ v = <<>> \/ v[1] \in {"?"}
    BY <2>1, SplitExists
  <2>3. path # <<>> /\ path[1] = "/"
    <3>1. u.path[1] \notin {"?"}
      BY <2>1
    <3>2. QED
      BY <2>1, <3>1, UptoIs
  <2>4. Clean \ {"?"} \subseteq Hierarchy /\ Clean \subseteq Chars /\ Clean \subseteq Chars \ {"#"}
    BY DEF Clean, Written, Hierarchy
  <2>5. path \in Seq(Hierarchy) /\ v \in Seq(Chars) /\ v \in Seq(Chars \ {"#"})
    <3> HIDE DEF path, v
    <3>1. QED
      BY <2>2, <2>4, SeqMonotonic
  <2>6. path \in Seq(Chars)
    <3> HIDE DEF path
    <3>1. QED
      BY <2>5, HierarchyIs, SeqMonotonic
  <2>7. QED
    BY <2>2, <2>3, <2>5, <2>6
<1>4. d \in Seq(Hierarchy) /\ d # <<>> /\ d[1] = "/"
  <2> HIDE DEF path
  <2>1. QED
    BY <1>3, DirectoryIs
<1>5. d \in Seq(Chars)
  <2> HIDE DEF d
  <2>1. QED
    BY <1>4, HierarchyIs, SeqMonotonic
<1>6. loc # <<>> => Head(loc) = loc[1]
  BY HeadIs
<1>7. h # <<>> => loc # <<>> /\ loc[1] = h[1] /\ Head(h) = h[1] /\ h[1] \notin {"?", "#"}
  <2> SUFFICES ASSUME h # <<>>
               PROVE  loc # <<>> /\ loc[1] = h[1] /\ Head(h) = h[1] /\ h[1] \notin {"?", "#"}
    OBVIOUS
  <2>1. loc # <<>> /\ loc[1] = h[1] /\ Head(h) = h[1]
    <3> HIDE DEF h, t
    <3>1. QED
      BY <1>1, <1>2, FirstIs, HeadIs
  <2>2. h[1] \in Hierarchy
    <3> HIDE DEF h
    <3>1. Len(h) \in Nat /\ Len(h) # 0
      BY <1>1, LenProperties, EmptySeq
    <3>2. 1 \in 1..Len(h)
      <4> DEFINE n == Len(h)
      <4>1. n \in Nat /\ n # 0
        BY <3>1
      <4> HIDE DEF n
      <4>2. 1 \in 1..n
        BY <4>1, SMT
      <4>3. QED
        BY <4>2 DEF n
    <3>3. QED
      BY <1>1, <3>2, ElementOfSeq
  <2>3. QED
    BY <2>1, <2>2 DEF Hierarchy
<1>8. h = <<>> => loc = t
  <2> HIDE DEF h, t
  <2>1. QED
    BY <1>1, <1>2, ConcatEmptySeq
<1>9. kept = IF loc = <<>> \/ Head(loc) = "#" THEN u.path
             ELSE CASE Head(loc) = "/" -> <<>> [] Head(loc) = "?" -> path [] OTHER -> d
  BY DEF KeptPath
<1> HIDE DEF kept, d, v, path, t, h, q, f
<1>10. CASE h = <<>> /\ q = <<>>
  <2>1. loc = f /\ (loc = <<>> \/ Head(loc) = "#")
    BY <1>2, <1>6, <1>8, <1>10
  <2>2. kept = u.path
    BY <1>9, <2>1
  <2>3. Tailed(v, f)
    BY <1>2, <1>3 DEF Tailed
  <2> DEFINE y == v \o f
  <2>4. Joins(path, v, f)
    BY <1>2, <1>3, Joined
  <2>5. u.path = path \o v /\ y = v \o f
    BY <1>3
  <2>6. u.path \o f = path \o y
    <3> HIDE DEF y
    <3>1. QED
      BY <2>4, <2>5 DEF Joins
  <2>7. kept \o loc = path \o (v \o f)
    BY <2>1, <2>2, <2>6
  <2>8. QED
    BY <1>3, <1>10, <2>3, <2>7 DEF path, v, h, q, f, kept
<1>11. CASE h = <<>> /\ q # <<>>
  <2>1. loc = t /\ loc # <<>> /\ Head(loc) = "?"
    BY <1>2, <1>6, <1>8, <1>11
  <2>2. kept = path
    BY <1>9, <2>1
  <2>3. kept \o loc = path \o (q \o f)
    BY <2>1, <2>2 DEF t
  <2>4. QED
    BY <1>1, <1>3, <1>11, <2>3 DEF path, h, q, f, kept
<1>12. CASE h # <<>> /\ Head(h) = "/"
  <2>1. loc # <<>> /\ Head(loc) = "/"
    BY <1>6, <1>7, <1>12
  <2>2. kept = <<>>
    BY <1>9, <2>1
  <2>3. kept \o loc = h \o (q \o f)
    <3>1. <<>> \o loc = loc
      BY ConcatEmptySeq
    <3>2. QED
      BY <1>1, <2>2, <3>1 DEF t
  <2>4. h[1] = "/"
    BY <1>7, <1>12
  <2>5. QED
    BY <1>1, <1>12, <2>3, <2>4 DEF h, q, f, kept
<1>13. CASE h # <<>> /\ Head(h) # "/"
  <2>1. loc # <<>> /\ Head(loc) \notin {"/", "?", "#"}
    BY <1>6, <1>7, <1>13
  <2>2. kept = d
    BY <1>9, <2>1
  <2> DEFINE p == d \o h
  <2>3. p \in Seq(Hierarchy) /\ p # <<>> /\ p[1] = "/"
    BY <1>1, <1>4, FirstIs
  <2>4. Joins(d, h, t)
    BY <1>1, <1>2, <1>5, Joined
  <2>5. p = d \o h /\ loc = h \o t
    BY <1>1
  <2>6. p \o t = d \o loc
    <3> HIDE DEF p
    <3>1. QED
      BY <2>4, <2>5 DEF Joins
  <2>7. kept \o loc = p \o (q \o f)
    BY <2>2, <2>6 DEF t
  <2>8. QED
    BY <1>1, <1>13, <2>3, <2>7 DEF path, d, h, q, f, kept
<1>14. QED
  BY <1>10, <1>11, <1>12, <1>13

(* A Location without one: the text is built from the address before it. *)
LEMMA KeptComes ==
  ASSUME NEW u, CleanUrl(u), NEW loc \in Seq(Unblank), ~HasScheme(loc), ~HasAuthority(loc)
  PROVE  LET to == Reference(u, loc)
         IN \/ UrlParse(Absolute(u, loc)) = to
            \/ /\ UrlParse(Absolute(u, loc)) = NoUrl
               /\ Len(Authority(u)) >= HOST_SIZE \/ Len(to.path) + 3 > PATH_SIZE
<1> DEFINE h == Hier(loc)
           q == Query(loc)
           f == From(loc, {"#"})
           path == Upto(u.path, {"?"})
           p == IF h = <<>> THEN path
                ELSE IF Head(h) = "/" THEN h ELSE Directory(path) \o h
           s == IF h = <<>> /\ q = <<>> THEN From(u.path, {"?"}) ELSE q
           k == KeptPath(u.path, loc)
           a == Authority(u)
           t == p \o (s \o f)
           r == a \o t
           to == Reference(u, loc)
<1>1. loc \in Seq(Chars) /\ ~Contains(loc, "_")
  <2>1. Unblank \subseteq Chars
    BY DEF Unblank
  <2>2. \A i \in 1..Len(loc) : loc[i] \in Unblank
    BY ElementOfSeq
  <2>3. QED
    BY <2>1, <2>2, SeqMonotonic DEF Contains, Unblank
<1>2. to = [u EXCEPT !.path = Path(p, s)]
  BY <1>1 DEF Reference, Path
<1>3. p \in Seq(Hierarchy) /\ p # <<>> /\ p[1] = "/" /\ Tailed(s, f) /\ k \o loc = t
  BY <1>1, KeptIs
<1>4. /\ a \in Seq(Chars \ Ends) /\ a \in Seq(Unblank) /\ a \in Seq(Chars)
      /\ Endpoint(a) = [host |-> u.host, path |-> <<>>, port |-> u.port]
  <2>1. /\ a \in Seq(Plain \cup {":"})
        /\ Endpoint(a) = [host |-> u.host, path |-> <<>>, port |-> u.port]
    BY AuthorityKept
  <2>2. /\ Plain \cup {":"} \subseteq Chars \ Ends /\ Plain \cup {":"} \subseteq Unblank
        /\ Plain \cup {":"} \subseteq Chars
    <3>1. ":" \in Chars
      BY DEF Chars
    <3>2. QED
      BY <3>1, PlainIs DEF Ends, Unblank
  <2> HIDE DEF a
  <2>3. QED
    BY <2>1, <2>2, SeqMonotonic
<1>5. u = [host |-> u.host, port |-> u.port, path |-> u.path] /\ u.host # <<>>
  BY DEF CleanUrl
<1>6. k \in Seq(Unblank)
  <2>1. path \in Seq(Clean \ {"?"}) /\ u.path \in Seq(Clean)
    BY UptoIs DEF CleanUrl
  <2>2. Clean \ {"?"} \subseteq Clean /\ Clean \subseteq Unblank
    BY DEF Clean, Written, Unblank
  <2>3. path \in Seq(Clean)
    <3> HIDE DEF path
    <3>1. QED
      BY <2>1, <2>2, SeqMonotonic
  <2>4. Directory(path) \in Seq(Clean) /\ <<>> \in Seq(Clean)
    <3> HIDE DEF path
    <3>1. QED
      BY <2>3, DirectoryIs, EmptySeq
  <2>5. k \in Seq(Clean)
    BY <2>1, <2>3, <2>4 DEF KeptPath
  <2> HIDE DEF k
  <2>6. QED
    BY <2>2, <2>5, SeqMonotonic
<1> HIDE DEF k, p, s, f, a
<1>7. t \in Seq(Unblank) /\ r \in Seq(Unblank)
  <2>1. t \in Seq(Unblank)
    <3>1. k \o loc \in Seq(Unblank)
      BY <1>6, FirstIs
    <3>2. QED
      BY <1>3, <3>1
  <2> HIDE DEF t
  <2>2. QED
    BY <1>4, <2>1, FirstIs
<1>8. Absolute(u, loc) = Scheme \o r
  <2>1. ~IsPrefix(Slashes, loc)
    BY <1>1, SlashesSay DEF HasAuthority, Rest
  <2>2. Absolute(u, loc) = ((Scheme \o a) \o k) \o loc
    BY <1>1, <2>1, TextParsed DEF a, k
  <2>3. Unblank \subseteq Chars
    BY DEF Unblank
  <2>4. Scheme \in Seq(Chars) /\ k \in Seq(Chars) /\ t \in Seq(Chars)
    <3> HIDE DEF t
    <3>1. QED
      BY <1>6, <1>7, <2>3, MarksIn, HierarchyIs, SeqMonotonic
  <2> DEFINE sa == Scheme \o a
             sk == sa \o k
  <2>5. sa = Scheme \o a /\ sk = sa \o k /\ r = a \o t
    OBVIOUS
  <2>6. sa \in Seq(Chars)
    BY <1>4, <2>4, FirstIs
  <2> HIDE DEF sa, sk, t, r
  <2>7. sk \o loc = sa \o t
    <3>1. Joins(sa, k, loc)
      BY <1>1, <2>4, <2>6, Joined
    <3>2. t = k \o loc
      BY <1>3 DEF t
    <3>3. QED
      BY <2>5, <3>1, <3>2 DEF Joins
  <2>8. sa \o t = Scheme \o r
    <3>1. Joins(Scheme, a, t)
      BY <1>4, <2>4, Joined
    <3>2. QED
      BY <2>5, <3>1 DEF Joins
  <2>9. QED
    BY <2>2, <2>7, <2>8 DEF sa, sk
<1>9. Pieced(r, a, p, s, f)
  <2>1. p \in Seq(Chars \ {"?", "#"})
    BY <1>3 DEF Hierarchy
  <2>2. QED
    BY <1>3, <1>4, <2>1 DEF Pieced, Tailed
<1>10. Endpoint(a) # NoUrl
  BY <1>4, <1>5 DEF NoUrl
<1>11. \/ UrlParse(Scheme \o r) = [Endpoint(a) EXCEPT !.path = Path(p, s)]
       \/ /\ UrlParse(Scheme \o r) = NoUrl
          /\ Len(a) >= HOST_SIZE \/ Len(Path(p, s)) + 3 > PATH_SIZE
  <2> HIDE DEF r
  <2>1. QED
    BY <1>7, <1>9, <1>10, ParsePieces
<1>12. [Endpoint(a) EXCEPT !.path = Path(p, s)] = to
  <2> DEFINE w == Path(p, s)
  <2> HIDE DEF w
  <2>1. [Endpoint(a) EXCEPT !.path = w] = [host |-> u.host, path |-> w, port |-> u.port]
    BY <1>4
  <2>2. [u EXCEPT !.path = w] = [host |-> u.host, path |-> w, port |-> u.port]
    BY <1>5
  <2>3. QED
    BY <1>2, <2>1, <2>2 DEF w
<1>13. to.path = Path(p, s)
  BY <1>2, <1>5
<1>14. QED
  BY <1>8, <1>11, <1>12, <1>13 DEF a

(* Every address and every Location, of whatever length *)
LEMMA Resolved ==
  ASSUME NEW u, CleanUrl(u), NEW loc \in Seq(Chars)
  PROVE  \/ UrlResolve(u, loc) = Reference(u, loc)
         \/ UrlResolve(u, loc) = NoUrl /\ TooLong(u, loc)
<1> DEFINE s == Absolute(u, loc)
           to == Reference(u, loc)
           authority == Upto(Given(loc), {"/"})
<1>1. CASE Contains(loc, "_")
  <2>1. to = NoUrl
    BY <1>1 DEF Reference
  <2>2. Contains(s, "_")
    <3>1. /\ Scheme \in Seq(Chars) /\ <<"https", ":">> \in Seq(Chars)
          /\ Authority(u) \in Seq(Chars) /\ KeptPath(u.path, loc) \in Seq(Chars)
      <4>1. Scheme \in Seq(Chars) /\ <<"https", ":">> \in Seq(Chars)
        BY MarksIn, HierarchyIs, SeqMonotonic
      <4>2. Authority(u) \in Seq(Chars) /\ KeptPath(u.path, loc) \in Seq(Chars)
        BY AuthorityIs, KeptIn
      <4>3. QED
        BY <4>1, <4>2
    <3> DEFINE x == <<"https", ":">>
               y == (Scheme \o Authority(u)) \o KeptPath(u.path, loc)
    <3>2. x \in Seq(Chars) /\ y \in Seq(Chars)
      <4>1. Scheme \o Authority(u) \in Seq(Chars)
        BY <3>1, ConcatProperties
      <4>2. QED
        BY <3>1, <4>1, ConcatProperties
    <3>3. s = x \o loc \/ s = y \o loc \/ s = loc
      BY TextParsed
    <3> HIDE DEF x, y, s
    <3>4. Contains(x \o loc, "_") /\ Contains(y \o loc, "_")
      BY <1>1, <3>2, BlankKept
    <3>5. QED
      BY <1>1, <3>3, <3>4
  <2>3. UrlParse(s) = NoUrl
    BY <2>2 DEF UrlParse
  <2>4. UrlResolve(u, loc) = NoUrl
    BY <2>3 DEF UrlResolve
  <2>5. QED
    BY <2>1, <2>4
<1>2. CASE ~Contains(loc, "_")
  <2>1. loc \in Seq(Unblank)
    <3>1. \A i \in 1..Len(loc) : loc[i] \in Unblank
      BY <1>2, ElementOfSeq DEF Contains, Unblank
    <3>2. QED
      BY <3>1, InSeq
  <2>2. UrlParse(s) = to \/ (UrlParse(s) = NoUrl /\ TooLong(u, loc))
    <3>1. CASE HasScheme(loc) /\ (Upto(Hier(loc), {":"}) # <<"https">> \/ ~HasAuthority(loc))
      <4>1. to = NoUrl
        BY <3>1 DEF Reference
      <4>2. s = loc
        BY <3>1, TextParsed
      <4>3. UrlParse(loc) = NoUrl
        BY <3>1, ForeignIs
      <4>4. QED
        BY <4>1, <4>2, <4>3
    <3>2. CASE HasAuthority(loc) /\ (HasScheme(loc) => Upto(Hier(loc), {":"}) = <<"https">>)
      <4> DEFINE p == From(Given(loc), {"/"})
                 q == Query(loc)
                 end == Endpoint(authority)
      <4>1. Comes(s, end, p, q, Len(authority))
        BY <2>1, <3>2, GivenComes
      <4>2. to = IF end = NoUrl THEN NoUrl ELSE [end EXCEPT !.path = Path(p, q)]
        BY <1>2, <3>2 DEF Reference, Path
      <4>3. end # NoUrl =>
              end = [host |-> end.host, path |-> end.path, port |-> end.port]
        BY DEF Endpoint
      <4>4. TooLong(u, loc) <=>
              \/ Len(loc) >= LOC_SIZE
              \/ ~HasScheme(loc) /\ Len(s) >= ABSOLUTE_SIZE
              \/ Len(authority) >= HOST_SIZE
              \/ Len(to.path) + 3 > PATH_SIZE
        BY <3>2 DEF TooLong
      <4> HIDE DEF end, p, q, authority, s, to
      <4>5. end # NoUrl => to.path = Path(p, q)
        BY <4>2, <4>3
      <4>6. QED
        BY <4>1, <4>2, <4>4, <4>5 DEF Comes
    <3>3. CASE ~HasScheme(loc) /\ ~HasAuthority(loc)
      <4>1. UrlParse(s) = to
            \/ /\ UrlParse(s) = NoUrl
               /\ Len(Authority(u)) >= HOST_SIZE \/ Len(to.path) + 3 > PATH_SIZE
        BY <2>1, <3>3, KeptComes
      <4>2. QED
        BY <3>3, <4>1 DEF TooLong
    <3>4. QED
      BY <3>1, <3>2, <3>3
  <2>3. HasScheme(loc) => s = loc
    BY TextParsed
  <2>4. QED
    BY <2>2, <2>3 DEF UrlResolve, TooLong
<1>3. QED
  BY <1>1, <1>2

(* A redirect leads where the standard says, for every size of the buffers,
   every port and Locations of every length, along every chain of redirects:
   only a Location that does not fit is refused. *)
THEOREM ResolvesAsReferencesHolds == UrlSpec => []ResolvesAsReferences
<1>1. UrlInv => ResolvesAsReferences
  <2> SUFFICES ASSUME UrlInv, url # NoUrl, NEW loc \in Locations
               PROVE  \/ UrlResolve(url, loc) = Reference(url, loc)
                      \/ UrlResolve(url, loc) = NoUrl /\ TooLong(url, loc)
    BY DEF ResolvesAsReferences
  <2>1. CleanUrl(url) /\ loc \in Seq(Chars)
    BY TextsAre, UrlAssumption DEF UrlInv, Locations
  <2>2. QED
    BY <2>1, Resolved
<1>2. QED
  BY <1>1, UrlInvHolds, PTL
=============================================================================
