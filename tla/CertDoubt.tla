----------------------------- MODULE CertDoubt -----------------------------
(***************************************************************************)
(* The certificate question of src/https.c: the verify callback of a       *)
(* handshake turns a doubtful chain down and leaves the doubt, the person  *)
(* is asked about it and may accept the host, and later handshakes with    *)
(* that host pass.  Handshakes run on the workers' threads, one at a time  *)
(* under g_handshake_lock; the question is asked on another.               *)
(***************************************************************************)
EXTENDS Integers, Sequences, SequencesExt

CONSTANTS
  Workers, NoWorker,
  Hosts, NoHost,
  TrustedMax,   \* TRUSTED_MAX
  MaxWord       \* bound of the model: hosts taken on the person's word in a run

ASSUME DoubtAssumption == NoWorker \notin Workers /\ NoHost \notin Hosts
ASSUME RingAssumption == TrustedMax \in Nat \ {0} /\ MaxWord \in Nat

VARIABLES
  pc,         \* idle, lock, shake or doubt
  host,       \* the host each worker wants
  shaker,     \* holder of g_handshake_lock
  verifyHost, doubtHost, doubt, asked, trusted, trustedNext,  \* g_ of these names
  shown,      \* the host the person was last asked about and has not answered on
  word,       \* the hosts the person has vouched for since the last disconnect,
              \* without those vouched for while still among the last TrustedMax
  met         \* history: what was amiss with the certificates that a worker's
              \* latest handshake let pass

handshake == <<pc, host, shaker, verifyHost, met>>
question == <<doubtHost, doubt, asked, shown>>
answers == <<trusted, trustedNext, word>>
vars == <<handshake, question, answers>>

Kinds == {"expired", "issuer"}

(* wolfSSL's errors as the callback tells them apart, ASN_BEFORE_DATE_E to
   ASN_SELF_SIGNED_E; every other one is "other". *)
Errors == {"before", "after", "nosigner", "selfsigned", "other"}
Flaws == {"ranout", "stranger", "wrong"}
Slots == 0..(TrustedMax - 1)

TypeOK ==
  /\ pc \in [Workers -> {"idle", "lock", "shake"} \cup Kinds]
  /\ host \in [Workers -> Hosts \cup {NoHost}]
  /\ shaker \in Workers \cup {NoWorker}
  /\ {verifyHost, doubtHost, asked, shown} \subseteq Hosts \cup {NoHost}
  /\ doubt \in Kinds \cup {"none"}
  /\ trusted \in [Slots -> Hosts \cup {NoHost}] /\ trustedNext \in Nat
  /\ word \in Seq(Hosts)
  /\ met \in [Workers -> SUBSET Flaws]

Init ==
  /\ pc = [w \in Workers |-> "idle"] /\ host = [w \in Workers |-> NoHost]
  /\ shaker = NoWorker /\ verifyHost = NoHost /\ met = [w \in Workers |-> {}]
  /\ doubtHost = NoHost /\ doubt = "none" /\ asked = NoHost /\ shown = NoHost
  /\ trusted = [i \in Slots |-> NoHost] /\ trustedNext = 0 /\ word = <<>>

Trusted(h) == \E i \in Slots : trusted[i] = h

(* The last n of s *)
LastOf(s, n) == SubSeq(s, IF Len(s) > n THEN Len(s) - n + 1 ELSE 1, Len(s))
-----------------------------------------------------------------------------
(* The handshake *)

Request(w, h) ==
  /\ pc[w] = "idle"
  /\ pc' = [pc EXCEPT ![w] = "lock"]
  /\ host' = [host EXCEPT ![w] = h]
  /\ met' = [met EXCEPT ![w] = {}]
  /\ UNCHANGED <<shaker, verifyHost, question, answers>>

LockUnheld(w) == shaker' = w                                        \* mutant
Lock(w) == shaker = NoWorker /\ shaker' = w

LockHandshake(w) ==
  /\ pc[w] = "lock"
  /\ Lock(w)
  /\ verifyHost' = host[w]
  /\ pc' = [pc EXCEPT ![w] = "shake"]
  /\ UNCHANGED <<host, met, question, answers>>

Unlock(w) == shaker' = IF shaker = w THEN NoWorker ELSE shaker

(* The handshake is over: it stood, or the network, another host's name or
   an abort ended it. *)
Shaken(w) ==
  /\ pc[w] = "shake"
  /\ pc' = [pc EXCEPT ![w] = "idle"]
  /\ Unlock(w)
  /\ UNCHANGED <<host, verifyHost, met, question, answers>>

(* What is amiss with a certificate that raised an error, and had run out
   before the build or not. *)
Amiss(err, ranOut) ==
  {f \in Flaws : \/ f = "ranout" /\ ranOut
                 \/ f = "stranger" /\ err \in {"nosigner", "selfsigned"}
                 \/ f = "wrong" /\ err = "other"}

(* verify_ignoring_dates: "pass", "refuse", or the kind of doubt *)
JudgeNoFloor(err, ranOut) ==                                        \* mutant
  CASE err \in {"before", "after"} -> "pass"
    [] err \in {"nosigner", "selfsigned"} -> "issuer"
    [] OTHER -> "refuse"

Judge(err, ranOut) ==
  CASE err \in {"before", "after"} -> IF ranOut THEN "expired" ELSE "pass"
    [] err \in {"nosigner", "selfsigned"} -> "issuer"
    [] OTHER -> "refuse"

(* One certificate of the chain with an error.  A doubt passes on the
   person's word, or begins to be left. *)
Verify(w, err, ranOut) ==
  /\ pc[w] = "shake"
  /\ LET verdict == Judge(err, ranOut)
         passes == verdict = "pass" \/ (verdict \in Kinds /\ Trusted(verifyHost))
     IN /\ met' = IF passes THEN [met EXCEPT ![w] = @ \cup Amiss(err, ranOut)] ELSE met
        /\ pc' = [pc EXCEPT ![w] = IF passes THEN @
                                   ELSE IF verdict = "refuse" THEN "idle" ELSE verdict]
        /\ IF verdict = "refuse" THEN Unlock(w) ELSE UNCHANGED shaker
  /\ UNCHANGED <<host, verifyHost, question, answers>>

(* doubt's second half: the question is left, and the handshake fails. *)
Doubt(w) ==
  /\ pc[w] \in Kinds
  /\ doubtHost' = verifyHost
  /\ doubt' = pc[w]
  /\ pc' = [pc EXCEPT ![w] = "idle"]
  /\ Unlock(w)
  /\ UNCHANGED <<host, verifyHost, met, asked, shown, answers>>
-----------------------------------------------------------------------------
(* The question *)

(* https_doubt_take, by the one owner of the questions *)
Take ==
  /\ doubt # "none"
  /\ asked' = doubtHost
  /\ shown' = doubtHost
  /\ doubt' = "none"
  /\ UNCHANGED <<doubtHost, handshake, answers>>

(* https_doubt_accept *)
AcceptLatest == doubtHost                                           \* mutant
Accepted == asked

Known(h) == Trusted(h)

Accept ==
  /\ Len(word) < MaxWord
  /\ IF asked # NoHost /\ ~Known(Accepted)
     THEN /\ trusted' = [trusted EXCEPT ![trustedNext % TrustedMax] = Accepted]
          /\ trustedNext' = trustedNext + 1
     ELSE UNCHANGED <<trusted, trustedNext>>
  /\ asked' = NoHost
  /\ shown' = NoHost
  /\ word' = IF shown # NoHost /\ ~Contains(LastOf(word, TrustedMax), shown)
             THEN Append(word, shown) ELSE word
  /\ UNCHANGED <<doubtHost, doubt, handshake>>

(* What https_net_disconnect forgets, with no request running *)
Disconnect ==
  /\ \A w \in Workers : pc[w] = "idle"
  /\ trusted' = [i \in Slots |-> NoHost] /\ trustedNext' = 0
  /\ doubt' = "none" /\ asked' = NoHost
  /\ shown' = NoHost /\ word' = <<>>
  /\ met' = [w \in Workers |-> {}]
  /\ UNCHANGED <<pc, host, shaker, verifyHost, doubtHost>>

Step(w) ==
  \/ \E h \in Hosts : Request(w, h)
  \/ LockHandshake(w) \/ Shaken(w) \/ Doubt(w)
  \/ \E err \in Errors, ranOut \in BOOLEAN : Verify(w, err, ranOut)

Next == Take \/ Accept \/ Disconnect \/ \E w \in Workers : Step(w)

Spec == Init /\ [][Next]_vars
-----------------------------------------------------------------------------
(* Properties *)

(* The ring holds the last TrustedMax hosts the person vouched for, each     *)
(* once and none twice over: a host is trusted for the answer to the         *)
(* question that was shown, whatever other doubts came in meanwhile, and the *)
(* ninth answer costs the oldest one, not another.                           *)
RingIsWord ==
  LET last == LastOf(word, TrustedMax)
      used == {i \in Slots : trusted[i] # NoHost}
  IN /\ {trusted[i] : i \in used} = ToSet(last)
     /\ \A i, j \in used : trusted[i] = trusted[j] => i = j

(* A chain that has an issuer nobody carries, or had run out before the
   build, passes only for a host the person vouched for in this run, and that
   is the host of the handshake: two requests at once never lend each other
   their answers.  One that is wrong in another way never passes. *)
NoBlankCheque ==
  \A w \in Workers : /\ "wrong" \notin met[w]
                     /\ met[w] # {} => Contains(word, host[w])
=============================================================================
