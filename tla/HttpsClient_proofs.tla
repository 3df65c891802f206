------------------------- MODULE HttpsClient_proofs -------------------------
(***************************************************************************)
(* Proofs about HttpsClient, for any number of workers, hosts, addresses   *)
(* and slots and any budgets.                                              *)
(***************************************************************************)
EXTENDS HttpsClient, FiniteSetTheorems, TLAPS

USE SentinelAssumption, SizeAssumption

(* Before its body begins a request has passed nothing on, and it never      *)
(* passes on more than the length announced.                                 *)
BodyInBounds ==
  \A w \in Workers :
    /\ req[w].ret = "fail" /\ pc[w] \in PCs \ {"idle", "start", "out", "after"} => req[w].got = 0
    /\ req[w].sized => req[w].got <= req[w].want

(* A request has its struct connection exactly from calloc or take_idle on to *)
(* its out label.                                                            *)
Connecting == {"connect", "setup", "lock", "shake", "send", "top", "read", "out"}
ConnHeld == \A w \in Workers : conn[w] # NoConn <=> pc[w] \in Connecting

TypeInv == TypeOK /\ BodyInBounds /\ ConnHeld

(* The variables every action changes in the same few ways *)
SharedOK ==
  /\ slots \in [Index -> Conns \cup {NoConn}]
  /\ peer \in [Conns -> Hosts \cup {NoHost}]
  /\ idleAge \in [Conns -> Nat]
  /\ owed \in SUBSET Conns
-----------------------------------------------------------------------------
(* Records of locals, updated field by field *)

LEMMA FreshReqType == FreshReq \in ReqLocals
  BY DEF FreshReq, ReqLocals, Rets

LEMMA FreshReqEmpty == FreshReq.ret = "fail" /\ FreshReq.got = 0 /\ FreshReq.sized = FALSE
  BY DEF FreshReq

LEMMA EndedType == \A o \in Outcomes : Ended(o) \in GetLocals
  BY DEF Ended, GetLocals, Outcomes

LEMMA SetWait == \A r \in ReqLocals, n \in Nat : [r EXCEPT !.wait = n] \in ReqLocals
  BY DEF ReqLocals

LEMMA SetReused ==
  \A r \in ReqLocals, b \in BOOLEAN :
    LET q == [r EXCEPT !.reused = b]
    IN q \in ReqLocals /\ q.ret = r.ret /\ q.got = r.got /\ q.sized = r.sized /\ q.want = r.want
  BY DEF ReqLocals

LEMMA SetUrl == \A g \in GetLocals, h \in Hosts \cup {NoHost} : [g EXCEPT !.url = h] \in GetLocals
  BY DEF GetLocals

(* A request that keeps its length and its count, and does not go back to     *)
(* ret = "fail", stays in bounds.                                            *)
LEMMA BoundsKept ==
  ASSUME BodyInBounds, NEW w \in Workers,
         \A v \in Workers \ {w} : pc'[v] = pc[v] /\ req'[v] = req[v],
         req'[w].ret = "fail" /\ pc'[w] \in PCs \ {"idle", "start", "out", "after"} => req'[w].got = 0,
         req'[w].sized => req'[w].got <= req'[w].want
  PROVE  BodyInBounds'
  BY DEF BodyInBounds
-----------------------------------------------------------------------------
(* The idle pool *)

LEMMA FreeAllType ==
  ASSUME SharedOK, NEW S, FreeAll(S)
  PROVE  peer' \in [Conns -> Hosts \cup {NoHost}] /\ owed' \in SUBSET Conns
  BY DEF SharedOK, FreeAll

LEMMA TakeIdleType ==
  ASSUME SharedOK, conn \in [Workers -> Conns \cup {NoConn}],
         NEW w \in Workers, NEW u, TakeIdle(w, u)
  PROVE  SharedOK' /\ conn' \in [Workers -> Conns \cup {NoConn}]
<1>1. slots' \in [Index -> Conns \cup {NoConn}]
  BY DEF TakeIdle, SharedOK
<1>2. conn' \in [Workers -> Conns \cup {NoConn}]
  BY DEF TakeIdle, SharedOK
<1>3. PICK S : FreeAll(S)
  BY DEF TakeIdle
<1>4. idleAge' \in [Conns -> Nat]
  BY DEF TakeIdle, SharedOK
<1> QED
  BY <1>1, <1>2, <1>3, <1>4, FreeAllType DEF SharedOK

LEMMA SaveIdleType ==
  ASSUME SharedOK, NEW w \in Workers, conn[w] \in Conns \cup {NoConn}, SaveIdle(w)
  PROVE  SharedOK'
<1>1. PICK i \in Index :
        /\ slots' = [slots EXCEPT ![i] = conn[w]]
        /\ FreeAll({slots[i]})
        /\ idleAge' = [c \in Conns |-> IF c \in {slots[i], conn[w]} THEN 0 ELSE idleAge[c]]
  BY DEF SaveIdle
<1> QED
  BY <1>1, FreeAllType DEF SharedOK
-----------------------------------------------------------------------------
LEMMA TypeInit == Init => TypeInv
<1> SUFFICES ASSUME Init PROVE TypeInv
  OBVIOUS
<1>1. TypeOK
  BY FreshReqType, EndedType DEF Init, TypeOK, PCs, Outcomes
<1>2. BodyInBounds
  BY DEF Init, BodyInBounds, FreshReq
<1>3. ConnHeld
  BY DEF Init, ConnHeld, Connecting
<1> QED
  BY <1>1, <1>2, <1>3 DEF TypeInv

LEMMA TypeTick == ASSUME TypeInv, Tick PROVE TypeInv'
<1> USE DEF TypeInv, TypeOK, Tick
<1>1. \A t, b \in Nat : Advance(t, b) \in Nat
  BY DEF Advance
<1>2. \A w \in Workers : Budget(w) \in Nat
  BY DEF Budget
<1>3. \A w \in Workers : [req[w] EXCEPT !.wait = Advance(@, Budget(w))] \in ReqLocals
  <2> TAKE w \in Workers
  <2>1. req[w].wait \in Nat
    BY DEF ReqLocals
  <2> QED
    BY <1>1, <1>2, <2>1, SetWait
<1>4. req' \in [Workers -> ReqLocals]
  BY <1>3
<1>5. idleAge' \in [Conns -> Nat]
  BY <1>1
<1>6. spent' \in Nat
  BY SizeAssumption
<1>7. TypeOK'
  BY <1>4, <1>5, <1>6
<1>8. \A v \in Workers : /\ req'[v].ret = req[v].ret /\ req'[v].got = req[v].got
                         /\ req'[v].sized = req[v].sized /\ req'[v].want = req[v].want
  BY DEF ReqLocals
<1>9. BodyInBounds' /\ ConnHeld'
  BY <1>8 DEF BodyInBounds, ConnHeld
<1> QED
  BY <1>7, <1>9

LEMMA TypeShared ==
  ASSUME TypeInv, CloseIdle \/ Abort \/ SetTimeLimit \/ UNCHANGED vars
  PROVE  TypeInv'
<1> USE DEF TypeInv, TypeOK, ownership
<1>1. CASE CloseIdle
  BY <1>1 DEF CloseIdle, FreeAll, BodyInBounds, ConnHeld
<1>2. CASE Abort
  BY <1>2 DEF Abort, BodyInBounds, ConnHeld
<1>3. CASE SetTimeLimit
  BY <1>3 DEF SetTimeLimit, BodyInBounds, ConnHeld
<1>4. CASE UNCHANGED vars
  BY <1>4 DEF vars, BodyInBounds, ConnHeld
<1> QED
  BY <1>1, <1>2, <1>3, <1>4

LEMMA TypeGet == ASSUME TypeInv, NEW w \in Workers, NEW u \in Hosts, Get(w, u) PROVE TypeInv'
<1> USE DEF TypeInv
<1>1. PICK ok \in BOOLEAN :
        /\ get' = [get EXCEPT ![w] = IF ok THEN [Ended("none") EXCEPT !.url = u] ELSE Ended("failed")]
        /\ pc' = [pc EXCEPT ![w] = IF ok THEN "start" ELSE "idle"]
  BY DEF Get
<1>2. get' \in [Workers -> GetLocals]
  <2>1. [Ended("none") EXCEPT !.url = u] \in GetLocals
    BY EndedType, SetUrl DEF Outcomes
  <2>2. Ended("failed") \in GetLocals
    BY EndedType DEF Outcomes
  <2> QED
    BY <1>1, <2>1, <2>2 DEF TypeOK
<1>3. pc' \in [Workers -> PCs]
  BY <1>1 DEF TypeOK, PCs
<1>4. req' = [req EXCEPT ![w] = FreshReq] /\ req' \in [Workers -> ReqLocals]
  BY FreshReqType DEF Get, TypeOK
<1>5. TypeOK'
  BY <1>2, <1>3, <1>4 DEF Get, TypeOK, ownership
<1>6. BodyInBounds'
  BY <1>1, <1>4 DEF Get, TypeOK, BodyInBounds, FreshReq
<1>7. ConnHeld'
  BY <1>1 DEF Get, TypeOK, ConnHeld, Connecting, ownership
<1> QED
  BY <1>5, <1>6, <1>7

LEMMA TypeAttempt == ASSUME TypeInv, NEW w \in Workers, Attempt(w) PROVE TypeInv'
<1> USE DEF TypeInv
<1>1. SharedOK' /\ conn' \in [Workers -> Conns \cup {NoConn}]
  <2>1. CASE UNCHANGED ownership
    BY <2>1 DEF ownership, SharedOK, TypeOK
  <2>2. CASE TakeIdle(w, get[w].url)
    BY <2>2, TakeIdleType DEF SharedOK, TypeOK
  <2> QED
    BY <2>1, <2>2 DEF Attempt
<1>2. PICK p \in PCs, r \in ReqLocals :
        /\ pc' = [pc EXCEPT ![w] = p]
        /\ req' = [req EXCEPT ![w] = r]
        /\ r.ret = "fail" /\ r.got = 0 /\ r.sized = FALSE
  <2>1. \A b \in BOOLEAN : LET r == [FreshReq EXCEPT !.reused = b]
                         IN r \in ReqLocals /\ r.ret = "fail" /\ r.got = 0 /\ r.sized = FALSE
    BY SetReused, FreshReqType, FreshReqEmpty
  <2>2. CASE req' = [req EXCEPT ![w] = FreshReq] /\ pc' = [pc EXCEPT ![w] = "after"]
    BY <2>2, FreshReqType, FreshReqEmpty DEF PCs
  <2>3. CASE \E b \in BOOLEAN, p \in {"send", "dns"} :
               /\ req' = [req EXCEPT ![w] = [FreshReq EXCEPT !.reused = b]]
               /\ pc' = [pc EXCEPT ![w] = p]
    BY <2>1, <2>3 DEF PCs
  <2> DEFINE hit == conn'[w] # NoConn
  <2>4. hit \in BOOLEAN /\ (IF hit THEN "send" ELSE "dns") \in {"send", "dns"}
    OBVIOUS
  <2>5. \/ req' = [req EXCEPT ![w] = FreshReq] /\ pc' = [pc EXCEPT ![w] = "after"]
        \/ /\ req' = [req EXCEPT ![w] = [FreshReq EXCEPT !.reused = hit]]
           /\ pc' = [pc EXCEPT ![w] = IF hit THEN "send" ELSE "dns"]
    BY Zenon DEF Attempt
  <2> HIDE DEF hit
  <2> QED
    BY <2>2, <2>3, <2>4, <2>5
<1>3. TypeOK'
  BY <1>1, <1>2 DEF TypeOK, Attempt, SharedOK
<1>4. BodyInBounds'
  BY <1>2, BoundsKept DEF TypeOK
<1>5. ConnHeld'
  <2>1. pc[w] = "start" /\ conn[w] = NoConn
    BY DEF Attempt, ConnHeld, Connecting
  <2>2. \A v \in Workers \ {w} : conn'[v] = conn[v] /\ pc'[v] = pc[v]
    BY <1>2 DEF Attempt, TakeIdle, ownership, TypeOK
  <2>3. conn'[w] # NoConn <=> pc'[w] \in Connecting
    BY <2>1 DEF Attempt, ownership, Connecting, TypeOK
  <2> QED
    BY <2>2, <2>3 DEF ConnHeld
<1> QED
  BY <1>3, <1>4, <1>5

LEMMA TypeDial == ASSUME TypeInv, NEW w \in Workers, Dial(w) PROVE TypeInv'
<1> USE DEF TypeInv
<1>1. get[w].url \in Hosts \cup {NoHost}
  BY DEF TypeOK, GetLocals
<1>2. PICK p \in PCs : pc' = [pc EXCEPT ![w] = p]
  BY DEF Dial, PCs
<1>3. peer' \in [Conns -> Hosts \cup {NoHost}] /\ conn' \in [Workers -> Conns \cup {NoConn}]
  BY <1>1 DEF TypeOK, Dial
<1>4. TypeOK'
  BY <1>2, <1>3 DEF TypeOK, Dial
<1>5. BodyInBounds'
  BY <1>2 DEF TypeOK, Dial, BodyInBounds, PCs
<1>6. ConnHeld'
  BY DEF TypeOK, Dial, ConnHeld, Connecting
<1> QED
  BY <1>4, <1>5, <1>6

LEMMA TypeConnect ==
  ASSUME TypeInv, NEW w \in Workers, Connected(w) \/ Setup(w) \/ LockHandshake(w) \/ Shake(w)
  PROVE  TypeInv'
<1> USE DEF TypeInv
<1>1. PICK p \in PCs : pc' = [pc EXCEPT ![w] = p]
  BY DEF Connected, Setup, LockHandshake, Shake, GoOut, PCs
<1>2. PICK n \in Nat : req' = [req EXCEPT ![w] = [@ EXCEPT !.wait = n]]
  <2>1. req = [req EXCEPT ![w] = [@ EXCEPT !.wait = req[w].wait]] /\ req[w].wait \in Nat
    BY DEF TypeOK, ReqLocals
  <2> QED
    BY <2>1 DEF Connected, Setup, LockHandshake, Shake
<1>3. req' \in [Workers -> ReqLocals]
  BY <1>2, SetWait DEF TypeOK
<1>4. shaker' \in Workers \cup {NoWorker} /\ verifyHost' \in Hosts \cup {NoHost}
  BY DEF Connected, Setup, LockHandshake, Shake, TypeOK, GetLocals
<1>5. TypeOK'
  BY <1>1, <1>3, <1>4 DEF Connected, Setup, LockHandshake, Shake, TypeOK, ownership
<1>6. pc[w] \in PCs \ {"idle", "start", "out", "after"}
  BY DEF Connected, Setup, LockHandshake, Shake, PCs
<1>7. BodyInBounds'
  BY <1>1, <1>2, <1>6 DEF TypeOK, BodyInBounds, ReqLocals
<1>8. ConnHeld'
  BY DEF Connected, Setup, LockHandshake, Shake, GoOut, TypeOK, ConnHeld, Connecting, ownership
<1> QED
  BY <1>5, <1>7, <1>8

(* What a step of worker w does to its request: r takes its place, and the    *)
(* fields the properties read are those of r.                                *)
Puts(w, r) == r \in ReqLocals /\ req' = [req EXCEPT ![w] = r]

LEMMA SendEffect ==
  ASSUME TypeInv, NEW w \in Workers, Send(w)
  PROVE  /\ \E r : /\ Puts(w, r) /\ r.ret = req[w].ret /\ r.got = req[w].got
                   /\ r.sized = req[w].sized /\ r.want = req[w].want
         /\ \E p \in {"top", "out"} : pc' = [pc EXCEPT ![w] = p]
         /\ owed' = owed \/ owed' = owed \cup {conn[w]}
<1>1. req[w] \in ReqLocals
  BY DEF TypeInv, TypeOK
<1>2. CASE req' = [req EXCEPT ![w].wait = 0]
  <2> DEFINE r == [req[w] EXCEPT !.wait = 0]
  <2>1. r \in ReqLocals /\ r.ret = req[w].ret /\ r.got = req[w].got /\ r.sized = req[w].sized
        /\ r.want = req[w].want
    BY <1>1 DEF ReqLocals
  <2>2. req' = [req EXCEPT ![w] = r]
    BY <1>2
  <2> HIDE DEF r
  <2> QED
    BY <2>1, <2>2 DEF Send, GoOut, Puts
<1>3. ASSUME NEW broken \in BOOLEAN,
             req' = [req EXCEPT ![w] = [@ EXCEPT !.stale = broken /\ req[w].reused, !.wait = 0]]
      PROVE  \E r : /\ Puts(w, r) /\ r.ret = req[w].ret /\ r.got = req[w].got
                    /\ r.sized = req[w].sized /\ r.want = req[w].want
  <2> DEFINE b == broken /\ req[w].reused
             r == [req[w] EXCEPT !.stale = b, !.wait = 0]
  <2>1. b \in BOOLEAN /\ req' = [req EXCEPT ![w] = r]
    BY <1>3, Zenon
  <2> HIDE DEF b
  <2>2. r \in ReqLocals /\ r.ret = req[w].ret /\ r.got = req[w].got /\ r.sized = req[w].sized
        /\ r.want = req[w].want
    BY <1>1, <2>1 DEF ReqLocals
  <2> HIDE DEF r
  <2> QED
    BY <2>1, <2>2 DEF Puts
<1> QED
  BY <1>2, <1>3 DEF Send, GoOut

LEMMA TypeSend == ASSUME TypeInv, NEW w \in Workers, Send(w) PROVE TypeInv'
<1>1. pc[w] = "send" /\ conn[w] \in Conns /\ owed \in SUBSET Conns
  BY DEF Send, TypeInv, TypeOK, ConnHeld, Connecting
<1>2. PICK r : /\ Puts(w, r) /\ r.ret = req[w].ret /\ r.got = req[w].got
               /\ r.sized = req[w].sized /\ r.want = req[w].want
  BY SendEffect
<1>3. PICK p \in {"top", "out"} : pc' = [pc EXCEPT ![w] = p]
  BY SendEffect
<1>4. TypeOK'
  <2>1. req' \in [Workers -> ReqLocals] /\ pc' \in [Workers -> PCs]
    BY <1>2, <1>3 DEF TypeInv, TypeOK, PCs, Puts
  <2>2. owed' = owed \/ owed' = owed \cup {conn[w]}
    BY SendEffect
  <2>3. owed' \in SUBSET Conns
    BY <1>1, <2>2
  <2> QED
    BY <2>1, <2>3 DEF TypeInv, TypeOK, Send
<1>5. BodyInBounds'
  <2>1. /\ req[w].ret = "fail" => req[w].got = 0
        /\ req[w].sized => req[w].got <= req[w].want
    BY <1>1 DEF TypeInv, BodyInBounds, PCs
  <2>2. req'[w] = r /\ \A v \in Workers \ {w} : pc'[v] = pc[v] /\ req'[v] = req[v]
    BY <1>2, <1>3 DEF TypeInv, TypeOK, Puts
  <2> QED
    BY <1>2, <2>1, <2>2, BoundsKept DEF TypeInv
<1>6. ConnHeld'
  BY <1>1, <1>3 DEF TypeInv, TypeOK, Send, ConnHeld, Connecting
<1> QED
  BY <1>4, <1>5, <1>6 DEF TypeInv

LEMMA TypeGiveUp == ASSUME TypeInv, NEW w \in Workers, GiveUp(w) PROVE TypeInv'
<1> USE DEF TypeInv
<1>1. pc' = [pc EXCEPT ![w] = "out"] /\ req' = [req EXCEPT ![w].wait = 0] /\ UNCHANGED ownership
      /\ pc[w] \in Connecting
  BY DEF GiveUp, GoOut, Connecting
<1>2. req' \in [Workers -> ReqLocals]
  BY <1>1, SetWait DEF TypeOK
<1>3. saw' \in [Workers -> BOOLEAN]
  <2>1. (saw[w] \/ abort) \in BOOLEAN
    BY Zenon
  <2>2. \E b \in BOOLEAN : saw' = [saw EXCEPT ![w] = b]
    BY <2>1, Zenon DEF GiveUp
  <2> QED
    BY <2>2 DEF TypeOK
<1>4. TypeOK'
  BY <1>1, <1>2, <1>3 DEF TypeOK, GiveUp, PCs, ownership
<1>5. BodyInBounds'
  BY <1>1 DEF TypeOK, BodyInBounds, ReqLocals
<1>6. ConnHeld'
  BY <1>1 DEF TypeOK, ConnHeld, Connecting, ownership
<1> QED
  BY <1>4, <1>5, <1>6

LEMMA TypeReadOn == ASSUME TypeInv, NEW w \in Workers, ReadOn(w) PROVE TypeInv'
<1> USE DEF TypeInv
<1>1. PICK p \in {"top", "read"} : pc' = [pc EXCEPT ![w] = p]
  BY DEF ReadOn
<1>2. TypeOK'
  BY <1>1 DEF TypeOK, ReadOn, PCs, ownership
<1>3. BodyInBounds'
  BY DEF TypeOK, ReadOn, BodyInBounds, PCs
<1>4. ConnHeld'
  BY DEF TypeOK, ReadOn, ConnHeld, Connecting, ownership
<1> QED
  BY <1>2, <1>3, <1>4

LEMMA HeadPartEffect ==
  ASSUME TypeInv, NEW w \in Workers, NEW more \in BOOLEAN, HeadPart(w, more)
  PROVE  /\ \E r : Puts(w, r) /\ r.ret = req[w].ret /\ r.got = req[w].got
         /\ pc' = [pc EXCEPT ![w] = IF more THEN "top" ELSE "out"]
         /\ UNCHANGED <<get, owed, saw>>
<1>1. req[w] \in ReqLocals
  BY DEF TypeInv, TypeOK
<1>2. HeadGrown(w) \in ReqLocals /\ HeadGrown(w).got = req[w].got /\ HeadGrown(w).ret = req[w].ret
  BY <1>1 DEF HeadGrown, ReqLocals
<1> QED
  BY <1>2 DEF HeadPart, Puts

LEMMA HeadRedirectEffect ==
  ASSUME TypeInv, NEW w \in Workers, NEW h \in Hosts, NEW keep \in BOOLEAN, HeadRedirect(w, h, keep)
  PROVE  /\ \E r : Puts(w, r) /\ r.ret = "redirect" /\ r.got = req[w].got
         /\ get' = [get EXCEPT ![w].next = h] /\ get' \in [Workers -> GetLocals]
         /\ pc' = [pc EXCEPT ![w] = "out"]
         /\ UNCHANGED <<owed, saw>>
<1> DEFINE r == [req[w] EXCEPT !.head = TRUE, !.ret = "redirect", !.keep = keep]
<1>1. req[w] \in ReqLocals
  BY DEF TypeInv, TypeOK
<1>2. r \in ReqLocals /\ r.ret = "redirect" /\ r.got = req[w].got
  BY <1>1 DEF ReqLocals, Rets
<1>3. req' = [req EXCEPT ![w] = r]
  BY DEF HeadRedirect
<1> HIDE DEF r
<1>4. \E q : Puts(w, q) /\ q.ret = "redirect" /\ q.got = req[w].got
  BY <1>2, <1>3 DEF Puts
<1>5. get' = [get EXCEPT ![w].next = h] /\ get' \in [Workers -> GetLocals]
  BY DEF HeadRedirect, TypeInv, TypeOK, GetLocals
<1> QED
  BY <1>4, <1>5 DEF HeadRedirect, GoOut

(* A body of length 0 is an answer that has arrived whole. *)
LEMMA HeadOfBodyEffect ==
  ASSUME TypeInv, NEW w \in Workers, NEW sized \in BOOLEAN, NEW keep \in BOOLEAN,
         NEW n \in 0..MaxBody, NEW past \in 0..1,
         HeadOfBody(w, sized, keep, n, past)
  PROVE  /\ \E r : /\ Puts(w, r) /\ r.got = req[w].got /\ r.sized = sized /\ r.want = n
                   /\ \/ r.ret = "body" /\ owed' = owed
                      \/ /\ r.ret = "done" /\ owed' \in {owed, owed \ {conn[w]}}
                         /\ r.keep => owed' = owed \ {conn[w]}
                         /\ sized /\ n = 0
         /\ \E p \in {"top", "out"} : pc' = [pc EXCEPT ![w] = p]
         /\ pc'[w] = "top" => owed' = owed /\ req'[w].ret = "body"
         /\ saw' \in [Workers -> BOOLEAN]
         /\ UNCHANGED get
<1> DEFINE whole == sized /\ n = 0 /\ ~abort
           over == abort \/ whole
           t == IF whole THEN "done" ELSE "body"
           p == IF over THEN "out" ELSE "top"
           b == saw[w] \/ abort
           fits == keep /\ past <= 0
           r == [req[w] EXCEPT !.head = TRUE, !.sized = sized, !.want = n, !.wait = 0,
                               !.keep = fits, !.ret = t]
<1>0. req[w] \in ReqLocals
  BY DEF TypeInv, TypeOK
<1>1. /\ req' = [req EXCEPT ![w] = r] /\ pc' = [pc EXCEPT ![w] = p] /\ saw' = [saw EXCEPT ![w] = b]
      /\ owed' = IF whole /\ past = 0 THEN owed \ {conn[w]} ELSE owed
      /\ get' = get
  BY Zenon DEF HeadOfBody, Fits
<1>2. b \in BOOLEAN /\ fits \in BOOLEAN /\ (whole => sized /\ n = 0) /\ (whole => over)
  BY Zenon
<1>3. fits => past = 0
  OBVIOUS
<1> HIDE DEF whole, over, b, fits
<1>4. t \in Rets /\ p \in {"top", "out"} /\ (p = "top" => t = "body" /\ ~whole)
  BY <1>2 DEF Rets
<1>5. t = (IF whole THEN "done" ELSE "body")
  OBVIOUS
<1> HIDE DEF t, p
<1>6. /\ r \in ReqLocals /\ r.got = req[w].got /\ r.sized = sized /\ r.want = n /\ r.ret = t
      /\ r.keep = fits
  BY <1>0, <1>2, <1>4 DEF ReqLocals
<1> HIDE DEF r
<1>7. saw' \in [Workers -> BOOLEAN]
  BY <1>1, <1>2 DEF TypeInv, TypeOK
<1>8. \/ t = "body" /\ owed' = owed
      \/ /\ t = "done" /\ owed' \in {owed, owed \ {conn[w]}}
         /\ r.keep => owed' = owed \ {conn[w]}
         /\ sized /\ n = 0
  BY <1>1, <1>2, <1>3, <1>5, <1>6
<1>9. pc'[w] = p /\ req'[w] = r
  BY <1>1 DEF TypeInv, TypeOK
<1>10. pc'[w] = "top" => owed' = owed /\ req'[w].ret = "body"
  BY <1>1, <1>4, <1>6, <1>9
<1> QED
  BY <1>1, <1>4, <1>6, <1>7, <1>8, <1>10 DEF Puts

LEMMA TypeReadHead == ASSUME TypeInv, NEW w \in Workers, ReadHead(w) PROVE TypeInv'
<1>1. req[w] \in ReqLocals /\ req[w].got = 0 /\ pc[w] = "read" /\ conn[w] \in Conns
  BY DEF ReadHead, TypeInv, TypeOK, BodyInBounds, ConnHeld, Connecting, PCs
<1> DEFINE Goal == /\ \E p \in {"top", "out"} : pc' = [pc EXCEPT ![w] = p]
                   /\ \E r : Puts(w, r) /\ r.got = 0
                   /\ get' \in [Workers -> GetLocals]
                   /\ owed' \in SUBSET Conns
                   /\ saw' \in [Workers -> BOOLEAN]
<1>2. ASSUME NEW more \in BOOLEAN, HeadPart(w, more) PROVE Goal
  BY <1>1, <1>2, HeadPartEffect DEF TypeInv, TypeOK
<1>3. ASSUME NEW h \in Hosts, NEW keep \in BOOLEAN, HeadRedirect(w, h, keep) PROVE Goal
  BY <1>1, <1>3, HeadRedirectEffect DEF TypeInv, TypeOK
<1>4. ASSUME NEW sized \in BOOLEAN, NEW keep \in BOOLEAN, NEW n \in 0..MaxBody,
             NEW past \in 0..1, HeadOfBody(w, sized, keep, n, past)
      PROVE  Goal
  <2>1. owed \in SUBSET Conns /\ get \in [Workers -> GetLocals]
    BY DEF TypeInv, TypeOK
  <2>2. PICK r : /\ Puts(w, r) /\ r.got = req[w].got
                 /\ owed' = owed \/ owed' = owed \ {conn[w]}
    BY <1>4, HeadOfBodyEffect
  <2>3. /\ \E p \in {"top", "out"} : pc' = [pc EXCEPT ![w] = p]
        /\ saw' \in [Workers -> BOOLEAN] /\ get' = get
    BY <1>4, HeadOfBodyEffect
  <2>4. owed' \in SUBSET Conns
    BY <2>1, <2>2
  <2> QED
    BY <1>1, <2>1, <2>2, <2>3, <2>4
<1>5. Goal
  <2> HIDE DEF Goal
  <2> QED
    BY <1>2, <1>3, <1>4, Zenon DEF ReadHead
<1>6. PICK p \in {"top", "out"} : pc' = [pc EXCEPT ![w] = p]
  BY <1>5
<1>7. PICK r : Puts(w, r) /\ r.got = 0
  BY <1>5
<1>8. TypeOK'
  <2>1. req' \in [Workers -> ReqLocals] /\ pc' \in [Workers -> PCs]
    BY <1>6, <1>7 DEF TypeInv, TypeOK, PCs, Puts
  <2> QED
    BY <1>5, <2>1 DEF TypeInv, TypeOK, ReadHead
<1>9. BodyInBounds'
  <2>1. r.want \in 0..MaxBody
    BY <1>7 DEF Puts, ReqLocals
  <2>2. req'[w] = r /\ \A v \in Workers \ {w} : pc'[v] = pc[v] /\ req'[v] = req[v]
    BY <1>6, <1>7 DEF TypeInv, TypeOK, Puts
  <2> QED
    BY <1>7, <2>1, <2>2, BoundsKept DEF TypeInv
<1>10. ConnHeld'
  BY <1>1, <1>6 DEF TypeInv, TypeOK, ReadHead, ConnHeld, Connecting
<1> QED
  BY <1>8, <1>9, <1>10 DEF TypeInv

(* A piece of body goes to the sink and onto the count alike, never past the *)
(* announced length, and the answer is whole when the count reaches that.    *)
LEMMA ReadBodyEffect ==
  ASSUME TypeInv, NEW w \in Workers, ReadBody(w)
  PROVE  /\ \E r : /\ Puts(w, r) /\ r.sized = req[w].sized /\ r.want = req[w].want
                   /\ req[w].sized => r.got <= req[w].want
                   /\ \E n \in Nat : r.got = req[w].got + n /\ sunk' = [sunk EXCEPT ![w] = @ + n]
                   /\ \/ r.ret = "body" /\ owed' = owed
                      \/ /\ r.ret = "done" /\ owed' \in {owed, owed \ {conn[w]}}
                         /\ r.keep => owed' = owed \ {conn[w]}
                         /\ req[w].sized /\ r.got = req[w].want
         /\ \E p \in {"top", "out"} : pc' = [pc EXCEPT ![w] = p]
         /\ pc'[w] = "top" => owed' = owed /\ req'[w].ret = "body"
         /\ saw' \in [Workers -> BOOLEAN]
<1>1. /\ req[w] \in ReqLocals /\ req[w].ret = "body"
      /\ req[w].sized => req[w].got <= req[w].want
  BY DEF ReadBody, TypeInv, TypeOK, BodyInBounds
<1>2. PICK k \in 1..(MaxBody + 1), taken \in BOOLEAN : BodyPiece(w, k, taken)
  BY DEF ReadBody
<1>3. Left(w) \in 0..MaxBody
  BY <1>1 DEF Left, ReqLocals
<1> DEFINE n == IF k <= Left(w) THEN k ELSE Left(w)
           whole == req[w].sized /\ n = Left(w)
           done == taken /\ whole /\ ~abort
           fits == req[w].keep /\ k <= Left(w)
           total == IF taken THEN req[w].got + n ELSE req[w].got
           t == IF done THEN "done" ELSE req[w].ret
           r == [req[w] EXCEPT !.wait = 0, !.keep = fits, !.got = total, !.ret = t]
           more == taken /\ ~abort /\ ~whole
           p == IF more THEN "top" ELSE "out"
           b == saw[w] \/ (taken /\ abort)
<1>4. /\ req' = [req EXCEPT ![w] = r] /\ pc' = [pc EXCEPT ![w] = p] /\ saw' = [saw EXCEPT ![w] = b]
      /\ sunk' = [sunk EXCEPT ![w] = IF taken THEN @ + n ELSE @]
      /\ owed' = IF done /\ k <= Left(w) THEN owed \ {conn[w]} ELSE owed
  BY <1>2, Zenon DEF BodyPiece, Fits
<1>5. n \in 0..MaxBody /\ n <= Left(w)
  BY <1>3
<1>6. /\ b \in BOOLEAN /\ fits \in BOOLEAN /\ (fits => k <= Left(w))
      /\ done => taken /\ req[w].sized /\ n = Left(w) /\ ~more
  BY Zenon
<1> HIDE DEF n
<1>7. total \in 0..MaxBody /\ (req[w].sized => total <= req[w].want)
  BY <1>1, <1>5 DEF Left, ReqLocals
<1>8. \E m \in Nat : total = req[w].got + m /\ sunk' = [sunk EXCEPT ![w] = @ + m]
  <2>1. sunk[w] \in Nat /\ req[w].got \in Nat /\ sunk \in [Workers -> Nat] /\ n \in Nat
    BY <1>1, <1>5 DEF TypeInv, TypeOK, ReqLocals
  <2>2. CASE taken
    <3>1. total = req[w].got + n /\ sunk' = [sunk EXCEPT ![w] = @ + n]
      BY <1>4, <2>2
    <3> QED
      BY <2>1, <3>1
  <2>3. CASE ~taken
    <3>1. total = req[w].got /\ sunk' = [sunk EXCEPT ![w] = @]
      BY <1>4, <2>3
    <3>2. req[w].got = req[w].got + 0 /\ sunk[w] + 0 = sunk[w]
      BY <2>1
    <3> HIDE DEF total
    <3> QED
      BY <3>1, <3>2
  <2> QED
    BY <2>2, <2>3
<1>9. done => req[w].sized /\ total = req[w].want
  BY <1>1, <1>6 DEF Left, ReqLocals
<1> HIDE DEF whole, done, fits, total, more, b
<1>10. /\ t \in {"body", "done"} /\ p \in {"top", "out"}
       /\ t = "done" <=> done
       /\ p = "top" => ~done
  BY <1>1, <1>6
<1> HIDE DEF t, p
<1>11. /\ r \in ReqLocals /\ r.ret = t /\ r.got = total
       /\ r.sized = req[w].sized /\ r.want = req[w].want /\ r.keep = fits
  BY <1>1, <1>6, <1>7, <1>10 DEF ReqLocals, Rets
<1> HIDE DEF r
<1>12. saw' \in [Workers -> BOOLEAN]
  BY <1>4, <1>6 DEF TypeInv, TypeOK
<1>13. pc'[w] = p /\ req'[w] = r
  BY <1>4 DEF TypeInv, TypeOK
<1>14. pc'[w] = "top" => owed' = owed /\ req'[w].ret = "body"
  BY <1>4, <1>10, <1>11, <1>13
<1>15. \/ r.ret = "body" /\ owed' = owed
       \/ /\ r.ret = "done" /\ owed' \in {owed, owed \ {conn[w]}}
          /\ r.keep => owed' = owed \ {conn[w]}
          /\ req[w].sized /\ r.got = req[w].want
  BY <1>4, <1>6, <1>9, <1>10, <1>11
<1>16. \E m \in Nat : r.got = req[w].got + m /\ sunk' = [sunk EXCEPT ![w] = @ + m]
  BY <1>8, <1>11
<1>17. /\ Puts(w, r) /\ r.sized = req[w].sized /\ r.want = req[w].want
       /\ req[w].sized => r.got <= req[w].want
  BY <1>4, <1>7, <1>11 DEF Puts
<1>18. \E q \in {"top", "out"} : pc' = [pc EXCEPT ![w] = q]
  BY <1>4, <1>10
<1> QED
  BY <1>12, <1>14, <1>15, <1>16, <1>17, <1>18

LEMMA TypeReadBody == ASSUME TypeInv, NEW w \in Workers, ReadBody(w) PROVE TypeInv'
<1>1. pc[w] = "read" /\ owed \in SUBSET Conns /\ sunk \in [Workers -> Nat]
  BY DEF ReadBody, TypeInv, TypeOK
<1>2. PICK r : /\ Puts(w, r) /\ r.sized = req[w].sized /\ r.want = req[w].want
               /\ req[w].sized => r.got <= req[w].want
               /\ \E n \in Nat : r.got = req[w].got + n /\ sunk' = [sunk EXCEPT ![w] = @ + n]
               /\ r.ret # "fail" /\ (owed' = owed \/ owed' = owed \ {conn[w]})
  BY ReadBodyEffect
<1>3. /\ \E p \in {"top", "out"} : pc' = [pc EXCEPT ![w] = p]
      /\ saw' \in [Workers -> BOOLEAN]
  BY ReadBodyEffect
<1>4. req' \in [Workers -> ReqLocals] /\ pc' \in [Workers -> PCs] /\ owed' \in SUBSET Conns
      /\ sunk' \in [Workers -> Nat]
  BY <1>1, <1>2, <1>3 DEF TypeInv, TypeOK, PCs, Puts
<1>5. TypeOK'
  BY <1>3, <1>4 DEF TypeInv, TypeOK, ReadBody
<1>6. BodyInBounds'
  <2>1. req'[w] = r /\ \A v \in Workers \ {w} : pc'[v] = pc[v] /\ req'[v] = req[v]
    BY <1>2, <1>3 DEF TypeInv, TypeOK, Puts
  <2> QED
    BY <1>2, <2>1, BoundsKept DEF TypeInv
<1>7. ConnHeld'
  BY <1>1, <1>3 DEF TypeInv, TypeOK, ReadBody, ConnHeld, Connecting
<1> QED
  BY <1>5, <1>6, <1>7 DEF TypeInv

(* A close makes an answer whole only where its head announced no length.    *)
LEMMA ReadEndEffect ==
  ASSUME TypeInv, NEW w \in Workers, ReadEnd(w)
  PROVE  /\ pc' = [pc EXCEPT ![w] = "out"]
         /\ \E r : /\ Puts(w, r) /\ r.got = req[w].got /\ r.sized = req[w].sized
                   /\ r.want = req[w].want
                   /\ \/ r.ret = req[w].ret /\ owed' = owed
                      \/ /\ r.ret = "done" /\ owed' = owed \ {conn[w]}
                         /\ req[w].ret = "body"
                         /\ ~req[w].sized \/ req[w].got >= req[w].want
<1>1. req[w] \in ReqLocals
  BY DEF TypeInv, TypeOK
<1>2. PICK clean \in BOOLEAN : Closed(w, clean)
  BY DEF ReadEnd
<1> DEFINE begun == req[w].ret = "body"
           done == clean /\ begun /\ WholeAtClose(w)
           stale == clean /\ ~begun /\ req[w].reused
           t == IF done THEN "done" ELSE req[w].ret
           r == [req[w] EXCEPT !.wait = 0, !.ret = t, !.stale = stale]
<1>3. req' = [req EXCEPT ![w] = r] /\ owed' = IF done THEN owed \ {conn[w]} ELSE owed
  BY <1>2, Zenon DEF Closed
<1>4. stale \in BOOLEAN
  BY Zenon
<1>5. done => req[w].ret = "body" /\ (~req[w].sized \/ req[w].got >= req[w].want)
  BY Zenon DEF WholeAtClose
<1> HIDE DEF stale, done
<1>6. t \in Rets /\ t = (IF done THEN "done" ELSE req[w].ret)
  BY <1>1 DEF ReqLocals, Rets
<1> HIDE DEF t
<1>7. /\ r \in ReqLocals /\ r.ret = t /\ r.got = req[w].got
      /\ r.sized = req[w].sized /\ r.want = req[w].want
  BY <1>1, <1>4, <1>6 DEF ReqLocals
<1> HIDE DEF r
<1>8. Puts(w, r)
  BY <1>3, <1>7 DEF Puts
<1>9. \/ r.ret = req[w].ret /\ owed' = owed
      \/ /\ r.ret = "done" /\ owed' = owed \ {conn[w]} /\ req[w].ret = "body"
         /\ ~req[w].sized \/ req[w].got >= req[w].want
  BY <1>3, <1>5, <1>6, <1>7
<1> QED
  BY <1>7, <1>8, <1>9 DEF ReadEnd, GoOut

LEMMA TypeReadEnd == ASSUME TypeInv, NEW w \in Workers, ReadEnd(w) PROVE TypeInv'
<1>1. pc[w] = "read" /\ pc' = [pc EXCEPT ![w] = "out"] /\ owed \in SUBSET Conns
  BY ReadEndEffect DEF ReadEnd, TypeInv, TypeOK
<1>2. PICK r : /\ Puts(w, r) /\ r.got = req[w].got /\ r.sized = req[w].sized /\ r.want = req[w].want
               /\ owed' = owed \/ owed' = owed \ {conn[w]}
  BY ReadEndEffect
<1>3. TypeOK'
  <2>1. req' \in [Workers -> ReqLocals] /\ owed' \in SUBSET Conns
    BY <1>1, <1>2 DEF TypeInv, TypeOK, Puts
  <2> QED
    BY <1>1, <2>1 DEF TypeInv, TypeOK, ReadEnd, PCs
<1>4. BodyInBounds'
  <2>1. /\ req'[w] = r /\ pc'[w] = "out"
        /\ \A v \in Workers \ {w} : pc'[v] = pc[v] /\ req'[v] = req[v]
    BY <1>1, <1>2 DEF TypeInv, TypeOK, Puts
  <2>2. req[w].sized => req[w].got <= req[w].want
    BY DEF TypeInv, BodyInBounds
  <2> QED
    BY <1>2, <2>1, <2>2, BoundsKept DEF TypeInv
<1>5. ConnHeld'
  BY <1>1 DEF TypeInv, TypeOK, ReadEnd, ConnHeld, Connecting
<1> QED
  BY <1>3, <1>4, <1>5 DEF TypeInv

LEMMA FinishEffect ==
  ASSUME TypeInv, NEW w \in Workers, Finish(w)
  PROVE  /\ pc' = [pc EXCEPT ![w] = "after"]
         /\ \E r : /\ Puts(w, r) /\ r.ret = req[w].ret /\ r.got = req[w].got
                   /\ r.sized = req[w].sized /\ r.want = req[w].want
<1> DEFINE stale == \/ req[w].stale
                    \/ req[w].reused /\ req[w].ret = "fail" /\ req[w].got = 0 /\ ~req[w].head
           r == [req[w] EXCEPT !.head = FALSE, !.keep = FALSE, !.stale = stale]
<1>1. req' = [req EXCEPT ![w] = r]
  BY Zenon DEF Finish
<1>2. stale \in BOOLEAN /\ req[w] \in ReqLocals
  BY Zenon DEF TypeInv, TypeOK
<1> HIDE DEF stale
<1>3. /\ r \in ReqLocals /\ r.ret = req[w].ret /\ r.got = req[w].got
      /\ r.sized = req[w].sized /\ r.want = req[w].want
  BY <1>2 DEF ReqLocals
<1> HIDE DEF r
<1> QED
  BY <1>1, <1>3 DEF Puts, Finish

LEMMA TypeFinish == ASSUME TypeInv, NEW w \in Workers, Finish(w) PROVE TypeInv'
<1>1. pc[w] = "out" /\ pc' = [pc EXCEPT ![w] = "after"]
  BY FinishEffect DEF Finish
<1>2. PICK r : Puts(w, r) /\ r.got = req[w].got /\ r.sized = req[w].sized /\ r.want = req[w].want
  BY FinishEffect
<1>3. SharedOK'
  <2>1. CASE SaveIdle(w)
    BY <2>1, SaveIdleType DEF SharedOK, TypeInv, TypeOK
  <2>2. CASE FreeAll({conn[w]}) /\ UNCHANGED <<slots, idleAge>>
    BY <2>2, FreeAllType DEF SharedOK, TypeInv, TypeOK
  <2> QED
    BY <2>1, <2>2 DEF Finish
<1>4. TypeOK'
  <2>1. req' \in [Workers -> ReqLocals] /\ shaker' \in Workers \cup {NoWorker}
    BY <1>2 DEF Finish, LockAfter, TypeInv, TypeOK, Puts
  <2> QED
    BY <1>1, <1>3, <2>1 DEF TypeInv, TypeOK, Finish, PCs, SharedOK
<1>5. BodyInBounds'
  <2>1. /\ req'[w] = r /\ pc'[w] = "after"
        /\ \A v \in Workers \ {w} : pc'[v] = pc[v] /\ req'[v] = req[v]
    BY <1>1, <1>2 DEF TypeInv, TypeOK, Puts
  <2>2. req[w].sized => req[w].got <= req[w].want
    BY DEF TypeInv, BodyInBounds
  <2> QED
    BY <1>2, <2>1, <2>2, BoundsKept DEF TypeInv
<1>6. ConnHeld'
  BY <1>1 DEF TypeInv, TypeOK, Finish, ConnHeld, Connecting
<1> QED
  BY <1>4, <1>5, <1>6 DEF TypeInv

LEMMA TypeDecide == ASSUME TypeInv, NEW w \in Workers, Decide(w) PROVE TypeInv'
<1> USE DEF TypeInv
<1>1. req[w] \in ReqLocals /\ get[w] \in GetLocals /\ pc[w] = "after"
  BY DEF Decide, TypeOK
<1>2. PICK p \in {"start", "idle"} : pc' = [pc EXCEPT ![w] = p]
  BY DEF Decide
<1>3. get' \in [Workers -> GetLocals]
  <2>1. CASE Repeat(w)
    <3>1. [get[w] EXCEPT !.again = TRUE] \in GetLocals
      BY <1>1 DEF GetLocals
    <3> QED
      BY <2>1, <3>1 DEF Decide, TypeOK
  <2>2. CASE ~Repeat(w) /\ Follow(w)
    <3>1. get[w].hops + 1 \in 0..MaxRedirects
      BY <1>1, <2>2 DEF Follow, GetLocals
    <3>2. NextHop(w) \in GetLocals
      BY <1>1, <3>1 DEF NextHop, GetLocals
    <3> QED
      BY <2>2, <3>2 DEF Decide, TypeOK
  <2>3. CASE ~Repeat(w) /\ ~Follow(w)
    <3>1. Ended(OutcomeOf(w)) \in GetLocals
      BY EndedType DEF OutcomeOf, Outcomes
    <3> QED
      BY <2>3, <3>1 DEF Decide, TypeOK
  <2> QED
    BY <2>1, <2>2, <2>3
<1> DEFINE r == [FreshReq EXCEPT !.sized = req[w].sized, !.want = req[w].want, !.got = req[w].got]
<1>4. r \in ReqLocals /\ r.got = req[w].got /\ r.sized = req[w].sized /\ r.want = req[w].want
  BY <1>1, FreshReqType DEF ReqLocals
<1>5. req' = [req EXCEPT ![w] = r]
  BY DEF Decide
<1> HIDE DEF r
<1>6. saw' \in [Workers -> BOOLEAN]
  <2> DEFINE b == saw[w] /\ (Repeat(w) \/ Follow(w))
  <2>1. b \in BOOLEAN /\ saw' = [saw EXCEPT ![w] = b]
    BY Zenon DEF Decide
  <2> HIDE DEF b
  <2> QED
    BY <2>1 DEF TypeOK
<1>7. TypeOK'
  <2>1. req' \in [Workers -> ReqLocals] /\ pc' \in [Workers -> PCs]
    BY <1>2, <1>4, <1>5 DEF TypeOK, PCs
  <2> QED
    BY <1>3, <1>6, <2>1 DEF TypeOK, Decide, ownership
<1>8. BodyInBounds'
  <2>1. /\ req'[w] = r /\ pc'[w] = p
        /\ \A v \in Workers \ {w} : pc'[v] = pc[v] /\ req'[v] = req[v]
    BY <1>2, <1>5 DEF TypeOK
  <2>2. req[w].sized => req[w].got <= req[w].want
    BY DEF BodyInBounds
  <2> QED
    BY <1>4, <2>1, <2>2, BoundsKept
<1>9. ConnHeld'
  BY <1>1, <1>2 DEF TypeOK, Decide, ConnHeld, Connecting, ownership
<1> QED
  BY <1>7, <1>8, <1>9
-----------------------------------------------------------------------------
LEMMA TypeStep == TypeInv /\ [Next]_vars => TypeInv'
<1> SUFFICES ASSUME TypeInv, [Next]_vars PROVE TypeInv'
  OBVIOUS
<1>1. ASSUME NEW w \in Workers, Step(w) PROVE TypeInv'
  BY <1>1, TypeGet, TypeAttempt, TypeDial, TypeConnect, TypeSend, TypeGiveUp, TypeReadHead,
     TypeReadBody, TypeReadEnd, TypeReadOn, TypeFinish, TypeDecide DEF Step
<1> QED
  BY <1>1, TypeTick, TypeShared DEF Next

(* Every variable of the request engine keeps its type. *)
THEOREM TypeCorrect == Spec => []TypeOK
<1>1. TypeInv => TypeOK
  BY DEF TypeInv
<1> QED
  BY <1>1, TypeInit, TypeStep, PTL DEF Spec
-----------------------------------------------------------------------------
(* Who owns what: every connection once, the handshake lock by the one
   handshake, and an idle connection by nobody's answer; what the sink saw of
   a get; and what a lone worker may count on in the pool *)

(* A worker past https_get's URL check knows the host it is for. *)
HostInv ==
  \A w \in Workers : /\ Busy(w) => get[w].url \in Hosts
                     /\ req[w].ret = "redirect" => get[w].next \in Hosts

(* OneOwner, connection by connection *)
Owned(c) == (\E i \in Index : slots[i] = c) \/ (\E w \in Workers : conn[w] = c)
OwnerInv ==
  /\ \A i, j \in Index : slots[i] = slots[j] /\ slots[i] # NoConn => i = j
  /\ \A v, w \in Workers : conn[v] = conn[w] /\ conn[w] # NoConn => v = w
  /\ \A w \in Workers, i \in Index : conn[w] = slots[i] => conn[w] = NoConn
  /\ \A c \in Conns : peer[c] # NoHost <=> Owned(c)

(* A request keeps its connection only with an answer that has arrived whole *)
(* and nothing seen past it.                                                 *)
RetSound ==
  \A w \in Workers :
    /\ pc[w] \in (Connecting \ {"out"}) \cup {"dns"} => req[w].ret \in {"fail", "body"}
    /\ pc[w] = "out" /\ Kept(w) => conn[w] \notin owed
-----------------------------------------------------------------------------
LEMMA OwnerInvIsOneOwner == TypeOK => (OwnerInv <=> OneOwner)
<1> SUFFICES ASSUME TypeOK PROVE OwnerInv <=> OneOwner
  OBVIOUS
<1>1. (\A w \in Workers : conn[w] \notin Idle)
        <=> (\A w \in Workers, i \in Index : conn[w] = slots[i] => conn[w] = NoConn)
  BY DEF Idle
<1>2. (Live = Idle \cup ({conn[w] : w \in Workers} \ {NoConn}))
        <=> (\A c \in Conns : peer[c] # NoHost <=> Owned(c))
  <2>1. \A c \in Conns : c \in Live <=> peer[c] # NoHost
    BY DEF Live
  <2>2. \A c \in Conns : c \in Idle \cup ({conn[w] : w \in Workers} \ {NoConn}) <=> Owned(c)
    BY DEF Idle, Owned
  <2>3. Live \subseteq Conns /\ Idle \cup ({conn[w] : w \in Workers} \ {NoConn}) \subseteq Conns
    BY DEF Live, Idle, TypeOK
  <2> QED
    BY <2>1, <2>2, <2>3
<1> QED
  BY <1>1, <1>2 DEF OwnerInv, OneOwner

(* What leaves slots, conn and peer alone leaves the owners alone. *)
LEMMA OwnersKept ==
  ASSUME OwnerInv, UNCHANGED <<slots, conn, peer>>
  PROVE  OwnerInv'
  BY DEF OwnerInv, Owned

LEMMA OwnersDial ==
  ASSUME TypeInv, HostInv, OwnerInv, NEW w \in Workers, Dial(w)
  PROVE  OwnerInv'
<1>1. CASE UNCHANGED <<peer, conn>>
  BY <1>1, OwnersKept DEF Dial
<1>2. ASSUME NEW c \in Conns \ Live, peer' = [peer EXCEPT ![c] = get[w].url],
             conn' = [conn EXCEPT ![w] = c]
      PROVE  OwnerInv'
  <2>1. conn[w] = NoConn /\ get[w].url \in Hosts
    BY DEF TypeInv, ConnHeld, Connecting, Dial, HostInv, Busy
  <2>2. peer[c] = NoHost /\ ~Owned(c)
    BY <1>2 DEF Live, OwnerInv
  <2>3. \A v \in Workers : conn'[v] = IF v = w THEN c ELSE conn[v]
    BY <1>2 DEF TypeInv, TypeOK
  <2>4. \A d \in Conns : peer'[d] = IF d = c THEN get[w].url ELSE peer[d]
    BY <1>2 DEF TypeInv, TypeOK
  <2>5. UNCHANGED slots
    BY DEF Dial
  <2> QED
    <3>1. \A j, k \in Index : slots'[j] = slots'[k] /\ slots'[j] # NoConn => j = k
      BY <2>1, <2>2, <2>3, <2>4, <2>5 DEF OwnerInv, Owned
    <3>2. \A v, u \in Workers : conn'[v] = conn'[u] /\ conn'[v] # NoConn => v = u
      BY <2>1, <2>2, <2>3, <2>4, <2>5 DEF OwnerInv, Owned
    <3>3. \A v \in Workers, j \in Index : conn'[v] = slots'[j] => conn'[v] = NoConn
      BY <2>1, <2>2, <2>3, <2>4, <2>5 DEF OwnerInv, Owned
    <3>4. \A d \in Conns : peer'[d] # NoHost <=> Owned(d)'
      BY <2>1, <2>2, <2>3, <2>4, <2>5 DEF OwnerInv, Owned
    <3> QED
      BY <3>1, <3>2, <3>3, <3>4 DEF OwnerInv
<1> QED
  BY <1>1, <1>2 DEF Dial

LEMMA OwnersFreeOne ==
  ASSUME TypeInv, OwnerInv, NEW w \in Workers, conn[w] # NoConn,
         FreeAll({conn[w]}), UNCHANGED slots, conn' = [conn EXCEPT ![w] = NoConn]
  PROVE  OwnerInv'
<1>1. \A v \in Workers : conn'[v] = IF v = w THEN NoConn ELSE conn[v]
  BY DEF TypeInv, TypeOK
<1>2. \A d \in Conns : peer'[d] = IF d = conn[w] THEN NoHost ELSE peer[d]
  BY DEF FreeAll
<1> QED
  <2>1. \A j, k \in Index : slots'[j] = slots'[k] /\ slots'[j] # NoConn => j = k
    BY <1>1, <1>2 DEF OwnerInv, Owned
  <2>2. \A v, u \in Workers : conn'[v] = conn'[u] /\ conn'[v] # NoConn => v = u
    BY <1>1, <1>2 DEF OwnerInv, Owned
  <2>3. \A v \in Workers, j \in Index : conn'[v] = slots'[j] => conn'[v] = NoConn
    BY <1>1, <1>2 DEF OwnerInv, Owned
  <2>4. \A d \in Conns : peer'[d] # NoHost <=> Owned(d)'
    BY <1>1, <1>2 DEF OwnerInv, Owned
  <2> QED
    BY <2>1, <2>2, <2>3, <2>4 DEF OwnerInv

LEMMA OwnersSave ==
  ASSUME TypeInv, OwnerInv, NEW w \in Workers, conn[w] # NoConn,
         SaveIdle(w), conn' = [conn EXCEPT ![w] = NoConn]
  PROVE  OwnerInv'
<1>1. PICK i \in Index : slots' = [slots EXCEPT ![i] = conn[w]] /\ FreeAll({slots[i]})
  BY DEF SaveIdle
<1>2. \A v \in Workers : conn'[v] = IF v = w THEN NoConn ELSE conn[v]
  BY DEF TypeInv, TypeOK
<1>3. \A j \in Index : slots'[j] = IF j = i THEN conn[w] ELSE slots[j]
  BY <1>1 DEF TypeInv, TypeOK
<1>4. \A d \in Conns : peer'[d] = IF d = slots[i] THEN NoHost ELSE peer[d]
  BY <1>1 DEF FreeAll
<1>5. conn[w] \in Conns
  BY DEF TypeInv, TypeOK
<1> QED
  <2>1. \A j, k \in Index : slots'[j] = slots'[k] /\ slots'[j] # NoConn => j = k
    BY <1>2, <1>3, <1>4, <1>5 DEF OwnerInv, Owned
  <2>2. \A v, u \in Workers : conn'[v] = conn'[u] /\ conn'[v] # NoConn => v = u
    BY <1>2, <1>3, <1>4, <1>5 DEF OwnerInv, Owned
  <2>3. \A v \in Workers, j \in Index : conn'[v] = slots'[j] => conn'[v] = NoConn
    BY <1>2, <1>3, <1>4, <1>5 DEF OwnerInv, Owned
  <2>4. \A d \in Conns : peer'[d] # NoHost <=> Owned(d)'
    BY <1>2, <1>3, <1>4, <1>5 DEF OwnerInv, Owned
  <2> QED
    BY <2>1, <2>2, <2>3, <2>4 DEF OwnerInv

LEMMA OwnersTake ==
  ASSUME TypeInv, OwnerInv, NEW w \in Workers, conn[w] = NoConn, NEW u, TakeIdle(w, u)
  PROVE  OwnerInv' /\ owed' \subseteq owed
<1> DEFINE hits == {i \in Index : Match(i, u)}
           first == {i \in hits : \A j \in hits : i <= j}
           met == {i \in Index : Stale(i) /\ \A j \in hits : i < j}
<1>1. /\ \A i \in met : slots[i] # NoConn /\ i \notin first
      /\ \A i \in first : slots[i] # NoConn
      /\ first \subseteq Index /\ met \subseteq Index
  BY DEF Match, Stale
<1>2. \A i, j \in first : i = j
  BY SizeAssumption DEF Index
<1>3. hits = {} => first = {}
  OBVIOUS
<1>4. /\ slots' = [i \in Index |-> IF i \in met \cup first THEN NoConn ELSE slots[i]]
      /\ IF hits = {} THEN conn' = conn
         ELSE \E i \in first : conn' = [conn EXCEPT ![w] = slots[i]]
      /\ FreeAll({slots[i] : i \in met})
  BY Zenon DEF TakeIdle
<1> HIDE DEF hits, first, met
<1>5. \A d \in Conns : peer'[d] = IF \E i \in met : slots[i] = d THEN NoHost ELSE peer[d]
  BY <1>4 DEF FreeAll
<1>6. owed' \subseteq owed
  BY <1>4 DEF FreeAll
<1>7. CASE hits = {}
  <2>1. first = {} /\ conn' = conn
    BY <1>3, <1>4, <1>7
  <2>2. \A i \in Index : slots'[i] = IF i \in met THEN NoConn ELSE slots[i]
    BY <1>4, <2>1
  <2> QED
    BY <1>1, <1>5, <1>6, <2>1, <2>2 DEF OwnerInv, Owned
<1>8. ASSUME NEW f \in first, conn' = [conn EXCEPT ![w] = slots[f]] PROVE OwnerInv'
  <2>1. \A i \in Index : slots'[i] = IF i \in met \/ i = f THEN NoConn ELSE slots[i]
    BY <1>2, <1>4
  <2>2. \A v \in Workers : conn'[v] = IF v = w THEN slots[f] ELSE conn[v]
    BY <1>8 DEF TypeInv, TypeOK
  <2>3. slots[f] # NoConn /\ slots[f] \in Conns /\ f \in Index /\ f \notin met
    BY <1>1 DEF TypeInv, TypeOK
  <2>4. \A j, k \in Index : slots'[j] = slots'[k] /\ slots'[j] # NoConn => j = k
    BY <2>1 DEF OwnerInv
  <2>5. \A v, x \in Workers : conn'[v] = conn'[x] /\ conn'[v] # NoConn => v = x
    BY <2>2, <2>3 DEF OwnerInv
  <2>6. \A v \in Workers, j \in Index : conn'[v] = slots'[j] => conn'[v] = NoConn
    BY <2>1, <2>2, <2>3 DEF OwnerInv
  <2>7. \A d \in Conns : peer'[d] # NoHost <=> Owned(d)'
    BY <1>1, <1>5, <2>1, <2>2, <2>3 DEF OwnerInv, Owned
  <2> QED
    BY <2>4, <2>5, <2>6, <2>7 DEF OwnerInv
<1> QED
  BY <1>4, <1>6, <1>7, <1>8

LEMMA OwnersClose == ASSUME TypeInv, OwnerInv, CloseIdle PROVE OwnerInv'
<1>1. \A i \in Index : slots'[i] = NoConn
  BY DEF CloseIdle
<1>2. conn' = conn
  BY DEF CloseIdle
<1>3. \A d \in Conns : peer'[d] = IF \E i \in Index : slots[i] = d THEN NoHost ELSE peer[d]
  BY DEF CloseIdle, FreeAll, Idle
<1> QED
  BY <1>1, <1>2, <1>3 DEF OwnerInv, Owned

(* Each step keeps every connection owned once. *)
LEMMA OwnersStep == TypeInv /\ HostInv /\ OwnerInv /\ [Next]_vars => OwnerInv'
<1> SUFFICES ASSUME TypeInv, HostInv, OwnerInv, [Next]_vars PROVE OwnerInv'
  OBVIOUS
<1>1. ASSUME NEW w \in Workers, Step(w) PROVE OwnerInv'
  <2>1. CASE Attempt(w)
    <3>1. conn[w] = NoConn
      BY <2>1 DEF Attempt, TypeInv, ConnHeld, Connecting
    <3> QED
      BY <2>1, <3>1, OwnersTake, OwnersKept DEF Attempt, ownership
  <2>2. CASE Dial(w)
    BY <2>2, OwnersDial
  <2>3. CASE Finish(w)
    <3>1. conn[w] # NoConn
      BY <2>3 DEF Finish, TypeInv, ConnHeld, Connecting
    <3> QED
      BY <2>3, <3>1, OwnersSave, OwnersFreeOne DEF Finish
  <2>4. CASE ~Attempt(w) /\ ~Dial(w) /\ ~Finish(w)
    BY <1>1, <2>4, OwnersKept
       DEF Step, Get, Connected, Setup, LockHandshake, Shake, Send, GiveUp, ReadHead, ReadBody,
           ReadEnd, ReadOn, Decide, ownership
  <2> QED
    BY <2>1, <2>2, <2>3, <2>4
<1>2. CASE SetTimeLimit \/ Abort \/ Tick \/ UNCHANGED vars
  BY <1>2, OwnersKept DEF SetTimeLimit, Abort, Tick, vars, ownership
<1> QED
  BY <1>1, <1>2, OwnersClose DEF Next
-----------------------------------------------------------------------------
(* A worker's step leaves the locals of the others alone. *)
LEMMA OthersStay ==
  ASSUME TypeInv, NEW w \in Workers, Step(w), NEW v \in Workers \ {w}
  PROVE  pc'[v] = pc[v] /\ get'[v] = get[v] /\ req'[v] = req[v] /\ conn'[v] = conn[v]
<1> USE DEF TypeInv, TypeOK, ownership, GoOut
<1>1. CASE (\E u \in Hosts : Get(w, u)) \/ Attempt(w) \/ Dial(w)
  BY <1>1 DEF Get, Attempt, TakeIdle, Dial
<1>2. CASE Connected(w) \/ Setup(w) \/ LockHandshake(w) \/ Shake(w) \/ Send(w) \/ GiveUp(w)
  BY <1>2 DEF Connected, Setup, LockHandshake, Shake, Send, GiveUp
<1>3. CASE ReadHead(w)
  BY <1>3 DEF ReadHead, HeadPart, HeadRedirect, HeadOfBody
<1>4. CASE ReadBody(w)
  BY <1>4 DEF ReadBody, BodyPiece
<1>5. CASE ReadEnd(w) \/ ReadOn(w)
  BY <1>5 DEF ReadEnd, Closed, ReadOn
<1>6. CASE Finish(w) \/ Decide(w)
  BY <1>6 DEF Finish, Decide
<1> HIDE DEF TypeInv, TypeOK, ownership, GoOut
<1> QED
  BY <1>1, <1>2, <1>3, <1>4, <1>5, <1>6 DEF Step

(* The shared steps leave them alone too, but for the stopwatches. *)
LEMMA SharedStay ==
  ASSUME TypeInv, SetTimeLimit \/ Abort \/ CloseIdle \/ Tick \/ UNCHANGED vars
  PROVE  /\ UNCHANGED <<pc, get, conn, shaker, verifyHost>>
         /\ \A v \in Workers : req'[v].ret = req[v].ret /\ req'[v].keep = req[v].keep
         /\ owed' \subseteq owed
<1>1. CASE SetTimeLimit \/ Abort \/ CloseIdle \/ UNCHANGED vars
  BY <1>1 DEF SetTimeLimit, Abort, CloseIdle, FreeAll, vars, ownership
<1>2. CASE Tick
  BY <1>2 DEF Tick, TypeInv, TypeOK, ReqLocals
<1> QED
  BY <1>1, <1>2

LEMMA HostStep == TypeInv /\ HostInv /\ [Next]_vars => HostInv'
<1> SUFFICES ASSUME TypeInv, HostInv, [Next]_vars PROVE HostInv'
  OBVIOUS
<1> DEFINE Known(w) == /\ Busy(w) => get[w].url \in Hosts
                       /\ req[w].ret = "redirect" => get[w].next \in Hosts
<1>1. ASSUME NEW w \in Workers, Step(w) PROVE Known(w)'
  <2> USE DEF TypeInv, TypeOK, HostInv, Busy, ownership, GoOut
  <2>1. ASSUME NEW u \in Hosts, Get(w, u) PROVE Known(w)'
    <3>1. req'[w].ret = "fail"
      BY <2>1, FreshReqEmpty DEF Get
    <3>2. pc'[w] # "idle" => get'[w] = [Ended("none") EXCEPT !.url = u]
      BY <2>1 DEF Get
    <3>3. [Ended("none") EXCEPT !.url = u].url = u
      BY DEF Ended
    <3> QED
      BY <3>1, <3>2, <3>3
  <2>2. CASE Attempt(w)
    <3>1. req'[w].ret = "fail"
      BY <2>2, FreshReqType, FreshReqEmpty DEF Attempt, ReqLocals
    <3> QED
      BY <2>2, <3>1 DEF Attempt
  <2>3. CASE Dial(w) \/ Setup(w) \/ LockHandshake(w) \/ ReadOn(w)
    BY <2>3 DEF Dial, Setup, LockHandshake, ReadOn
  <2>4. CASE Connected(w) \/ Shake(w) \/ GiveUp(w)
    <3>1. req'[w].ret = req[w].ret
      BY <2>4 DEF Connected, Shake, GiveUp, ReqLocals
    <3> QED
      BY <2>4, <3>1 DEF Connected, Shake, GiveUp
  <2>5. CASE Send(w) \/ ReadEnd(w) \/ Finish(w)
    <3>1. req'[w].ret = req[w].ret \/ req'[w].ret = "done"
      BY <2>5, SendEffect, ReadEndEffect, FinishEffect DEF Puts
    <3> QED
      BY <2>5, <3>1 DEF Send, ReadEnd, Finish
  <2>6. CASE ReadHead(w) \/ ReadBody(w)
    <3>1. ASSUME NEW more \in BOOLEAN, HeadPart(w, more), ReadHead(w) PROVE Known(w)'
      <4>1. req'[w].ret = req[w].ret /\ get' = get
        BY <3>1, HeadPartEffect DEF Puts
      <4> QED
        BY <3>1, <4>1 DEF ReadHead
    <3>2. ASSUME NEW h \in Hosts, NEW keep \in BOOLEAN, HeadRedirect(w, h, keep), ReadHead(w)
          PROVE  Known(w)'
      <4>1. get' = [get EXCEPT ![w].next = h]
        BY <3>2, HeadRedirectEffect
      <4>2. get'[w].next = h /\ get'[w].url = get[w].url
        BY <4>1 DEF GetLocals
      <4> QED
        BY <3>2, <4>2 DEF ReadHead
    <3>3. ASSUME NEW sized \in BOOLEAN, NEW keep \in BOOLEAN, NEW n \in 0..MaxBody,
                 NEW past \in 0..1, HeadOfBody(w, sized, keep, n, past), ReadHead(w)
          PROVE  Known(w)'
      <4>1. req'[w].ret \in {"done", "body"} /\ get' = get
        BY <3>3, HeadOfBodyEffect DEF Puts
      <4> QED
        BY <3>3, <4>1 DEF ReadHead
    <3>4. CASE ReadBody(w)
      <4>1. req'[w].ret \in {"done", "body"} /\ get' = get
        BY <3>4, ReadBodyEffect DEF Puts, ReadBody
      <4> QED
        BY <3>4, <4>1 DEF ReadBody
    <3> HIDE DEF Known, TypeInv, TypeOK, HostInv, Busy, ownership, GoOut
    <3>5. CASE ReadHead(w)
      BY <3>1, <3>2, <3>3, <3>5, Zenon DEF ReadHead
    <3> QED
      BY <2>6, <3>4, <3>5
  <2>7. CASE Decide(w)
    <3>1. req'[w].ret = "fail"
      BY <2>7, FreshReqType, FreshReqEmpty DEF Decide, ReqLocals
    <3>2. Repeat(w) => get'[w].url = get[w].url
      BY <2>7 DEF Decide, GetLocals
    <3>3. ~Repeat(w) /\ Follow(w) => get'[w].url = get[w].next /\ req[w].ret = "redirect"
      BY <2>7 DEF Decide, NextHop, Follow, GetLocals
    <3> QED
      BY <2>7, <3>1, <3>2, <3>3 DEF Decide
  <2> HIDE DEF TypeInv, TypeOK, HostInv, Busy, ownership, GoOut
  <2> QED
    BY <1>1, <2>1, <2>2, <2>3, <2>4, <2>5, <2>6, <2>7 DEF Step
<1>2. ASSUME NEW w \in Workers, Step(w) PROVE HostInv'
  BY <1>1, <1>2, OthersStay DEF HostInv, Busy
<1>3. CASE SetTimeLimit \/ Abort \/ CloseIdle \/ Tick \/ UNCHANGED vars
  BY <1>3, SharedStay DEF HostInv, Busy
<1> QED
  BY <1>2, <1>3 DEF Next

LEMMA OwnersInit == Init => HostInv /\ OwnerInv
<1> SUFFICES ASSUME Init PROVE HostInv /\ OwnerInv
  OBVIOUS
<1>1. HostInv
  BY FreshReqEmpty DEF Init, HostInv, Busy
<1>2. OwnerInv
  BY DEF Init, OwnerInv, Owned
<1> QED
  BY <1>1, <1>2

(* No path through the pool and the requests leaks a connection, frees it    *)
(* twice or gives it to two owners.                                          *)
THEOREM OwnedOnce == Spec => []OneOwner
<1>1. TypeInv /\ OwnerInv => OneOwner
  BY OwnerInvIsOneOwner DEF TypeInv
<1> QED
  BY <1>1, TypeInit, TypeStep, OwnersInit, HostStep, OwnersStep, PTL DEF Spec
-----------------------------------------------------------------------------
(* The handshake lock is its holder's until the out label at the latest. *)
LEMMA HandshakeStep == TypeInv /\ OneHandshake /\ [Next]_vars => OneHandshake'
<1> SUFFICES ASSUME TypeInv, OneHandshake, [Next]_vars PROVE OneHandshake'
  OBVIOUS
<1>1. ASSUME NEW w \in Workers, Step(w) PROVE OneHandshake'
  <2> USE DEF TypeInv, TypeOK, OneHandshake, ownership, GoOut
  <2>1. CASE LockHandshake(w)
    BY <2>1 DEF LockHandshake
  <2>2. CASE Shake(w)
    BY <2>2 DEF Shake
  <2>3. CASE Finish(w)
    BY <2>3 DEF Finish, LockAfter
  <2>4. CASE GiveUp(w)
    BY <2>4 DEF GiveUp
  <2> HIDE DEF TypeInv, TypeOK, OneHandshake, ownership, GoOut
  <2>5. CASE ~LockHandshake(w) /\ ~Shake(w) /\ ~Finish(w) /\ ~GiveUp(w)
    <3>1. UNCHANGED <<shaker, verifyHost>>
      BY <1>1, <2>5
         DEF Step, Get, Attempt, Dial, Connected, Setup, Send, ReadHead, ReadBody, ReadEnd, ReadOn,
             Decide
    <3>2. pc[w] # "shake" /\ pc'[w] # "shake"
      <4> USE DEF TypeInv, TypeOK, GoOut
      <4>1. CASE (\E u \in Hosts : Get(w, u)) \/ Attempt(w) \/ Dial(w) \/ Connected(w) \/ Setup(w)
        BY <4>1 DEF Get, Attempt, Dial, Connected, Setup
      <4>2. CASE Send(w) \/ ReadEnd(w) \/ ReadOn(w) \/ Decide(w)
        BY <4>2 DEF Send, ReadEnd, ReadOn, Decide
      <4>3. CASE ReadHead(w) \/ ReadBody(w)
        BY <4>3 DEF ReadHead, HeadPart, HeadRedirect, HeadOfBody, ReadBody, BodyPiece
      <4> HIDE DEF TypeInv, TypeOK, GoOut
      <4> QED
        BY <1>1, <2>5, <4>1, <4>2, <4>3 DEF Step
    <3>3. shaker = w => pc'[w] = "out"
      <4> USE DEF TypeInv, TypeOK, GoOut, OneHandshake
      <4>1. shaker = w => pc[w] = "out"
        BY <3>2
      <4> HIDE DEF TypeInv, TypeOK, GoOut, OneHandshake
      <4>2. pc[w] # "out"
        BY <1>1, <2>5
           DEF Step, Get, Attempt, Dial, Connected, Setup, Send, ReadHead, ReadBody, ReadEnd,
               ReadOn, Decide
      <4> QED
        BY <4>1, <4>2
    <3> QED
      BY <1>1, <3>1, <3>2, <3>3, OthersStay DEF OneHandshake
  <2> QED
    BY <2>1, <2>2, <2>3, <2>4, <2>5
<1>2. CASE SetTimeLimit \/ Abort \/ CloseIdle \/ Tick \/ UNCHANGED vars
  BY <1>2, SharedStay DEF OneHandshake
<1> QED
  BY <1>1, <1>2 DEF Next

(* The name the certificate callback checks is that of the connection being  *)
(* set up, whichever other workers shake, fail or give up meanwhile.         *)
THEOREM HandshakeIsolated == Spec => []OneHandshake
<1>1. Init => OneHandshake
  BY SentinelAssumption DEF Init, OneHandshake
<1> QED
  BY <1>1, TypeInit, TypeStep, HandshakeStep, PTL DEF Spec
-----------------------------------------------------------------------------
LEMMA RetStep == TypeInv /\ OwnerInv /\ RetSound /\ [Next]_vars => RetSound'
<1> SUFFICES ASSUME TypeInv, OwnerInv, RetSound, [Next]_vars PROVE RetSound'
  OBVIOUS
<1> DEFINE Early == (Connecting \ {"out"}) \cup {"dns"}
           Sound(w) == /\ pc[w] \in Early => req[w].ret \in {"fail", "body"}
                       /\ pc[w] = "out" /\ Kept(w) => conn[w] \notin owed
<1>1. ASSUME NEW w \in Workers, Step(w) PROVE Sound(w)'
  <2> USE DEF Connecting, Kept
  <2>1. ASSUME NEW u \in Hosts, Get(w, u) PROVE Sound(w)'
    BY <2>1 DEF Get, TypeInv, TypeOK
  <2>2. CASE Attempt(w)
    <3>1. req'[w].ret = "fail"
      BY <2>2, FreshReqType, FreshReqEmpty DEF Attempt, ReqLocals, TypeInv, TypeOK
    <3> QED
      BY <3>1
  <2>3. CASE Dial(w) \/ Setup(w) \/ LockHandshake(w) \/ ReadOn(w)
    <3>1. pc[w] \in Early /\ req' = req
      BY <2>3 DEF Dial, Setup, LockHandshake, ReadOn
    <3> QED
      BY <3>1 DEF RetSound
  <2>4. CASE Connected(w) \/ Shake(w) \/ GiveUp(w)
    <3>1. pc[w] \in Early /\ req'[w].ret = req[w].ret
      BY <2>4 DEF Connected, Shake, GiveUp, ReqLocals, TypeInv, TypeOK
    <3> QED
      BY <3>1 DEF RetSound
  <2>5. CASE Send(w)
    <3>1. pc[w] \in Early /\ req'[w].ret = req[w].ret
      BY <2>5, SendEffect DEF Send, Puts, TypeInv, TypeOK
    <3> QED
      BY <3>1 DEF RetSound
  <2>6. ASSUME ReadHead(w) PROVE Sound(w)'
    <3>0. req[w].ret = "fail" /\ conn' = conn
      BY <2>6 DEF ReadHead
    <3>1. ASSUME NEW more \in BOOLEAN, HeadPart(w, more) PROVE Sound(w)'
      <4>1. req'[w].ret = "fail"
        BY <3>0, <3>1, HeadPartEffect DEF Puts, TypeInv, TypeOK
      <4> QED
        BY <4>1
    <3>2. ASSUME NEW h \in Hosts, NEW keep \in BOOLEAN, HeadRedirect(w, h, keep) PROVE Sound(w)'
      <4>1. req'[w].ret = "redirect" /\ pc'[w] = "out"
        BY <3>2, HeadRedirectEffect DEF Puts, TypeInv, TypeOK
      <4> QED
        BY <4>1
    <3>3. ASSUME NEW sized \in BOOLEAN, NEW keep \in BOOLEAN, NEW n \in 0..MaxBody,
                 NEW past \in 0..1, HeadOfBody(w, sized, keep, n, past)
          PROVE  Sound(w)'
      <4>1. pc'[w] \in {"top", "out"} /\ (pc'[w] = "top" => req'[w].ret = "body")
        BY <3>3, HeadOfBodyEffect DEF TypeInv, TypeOK
      <4>2. req'[w].ret = "done" /\ req'[w].keep => owed' = owed \ {conn[w]}
        BY <3>3, HeadOfBodyEffect DEF Puts, TypeInv, TypeOK
      <4> QED
        BY <3>0, <4>1, <4>2
    <3> HIDE DEF Sound
    <3> QED
      BY <2>6, <3>1, <3>2, <3>3, Zenon DEF ReadHead
  <2>7. CASE ReadBody(w)
    <3>1. pc'[w] \in {"top", "out"} /\ (pc'[w] = "top" => req'[w].ret = "body")
      BY <2>7, ReadBodyEffect DEF TypeInv, TypeOK
    <3>2. req'[w].ret = "done" /\ req'[w].keep => owed' = owed \ {conn[w]}
      BY <2>7, ReadBodyEffect DEF Puts, TypeInv, TypeOK
    <3> QED
      BY <2>7, <3>1, <3>2 DEF ReadBody
  <2>8. CASE ReadEnd(w)
    <3>1. pc[w] = "read" /\ pc'[w] = "out" /\ conn' = conn
      BY <2>8, ReadEndEffect DEF ReadEnd, TypeInv, TypeOK
    <3>2. \/ req'[w].ret = req[w].ret
          \/ req'[w].ret = "done" /\ owed' = owed \ {conn[w]}
      BY <2>8, ReadEndEffect DEF Puts, TypeInv, TypeOK
    <3> QED
      BY <3>1, <3>2 DEF RetSound
  <2>9. CASE Finish(w)
    BY <2>9 DEF Finish, TypeInv, TypeOK
  <2>10. CASE Decide(w)
    BY <2>10 DEF Decide, TypeInv, TypeOK
  <2> HIDE DEF Sound
  <2> QED
    BY <1>1, <2>1, <2>2, <2>3, <2>4, <2>5, <2>6, <2>7, <2>8, <2>9, <2>10 DEF Step
(* Nobody else sends on the connection of a request that is done. *)
<1>2. ASSUME NEW w \in Workers, Step(w), NEW v \in Workers \ {w} PROVE Sound(v)'
  <2>1. pc'[v] = pc[v] /\ req'[v] = req[v] /\ conn'[v] = conn[v]
    BY <1>2, OthersStay
  <2>2. pc[v] = "out" => conn[v] # conn[w]
    BY DEF OwnerInv, TypeInv, ConnHeld, Connecting
  <2>3. owed' \subseteq owed \cup {conn[w]}
    <3>1. CASE Attempt(w)
      <4>1. conn[w] = NoConn
        BY <3>1 DEF Attempt, TypeInv, ConnHeld, Connecting
      <4> QED
        BY <3>1, <4>1, OwnersTake DEF Attempt, ownership
    <3>2. CASE Send(w)
      BY <3>2, SendEffect
    <3>3. CASE ReadHead(w)
      BY <3>3 DEF ReadHead, HeadPart, HeadRedirect, HeadOfBody
    <3>4. CASE ReadBody(w) \/ ReadEnd(w)
      BY <3>4 DEF ReadBody, BodyPiece, ReadEnd, Closed
    <3>5. CASE Finish(w)
      BY <3>5 DEF Finish, SaveIdle, FreeAll
    <3>6. CASE ~Attempt(w) /\ ~Send(w) /\ ~ReadHead(w) /\ ~ReadBody(w) /\ ~ReadEnd(w) /\ ~Finish(w)
      BY <1>2, <3>6 DEF Step, Get, Dial, Connected, Setup, LockHandshake, Shake, GiveUp, ReadOn,
                        Decide, ownership
    <3> QED
      BY <3>1, <3>2, <3>3, <3>4, <3>5, <3>6
  <2> QED
    BY <2>1, <2>2, <2>3 DEF RetSound, Kept
<1>3. CASE SetTimeLimit \/ Abort \/ CloseIdle \/ Tick \/ UNCHANGED vars
  BY <1>3, SharedStay DEF RetSound, Kept
<1> QED
  BY <1>1, <1>2, <1>3 DEF Next, RetSound

LEMMA QuietStep ==
  TypeInv /\ OwnerInv /\ RetSound /\ IdleIsQuiet /\ [Next]_vars => IdleIsQuiet'
<1> SUFFICES ASSUME TypeInv, OwnerInv, RetSound, IdleIsQuiet, [Next]_vars
             PROVE  \A i \in Index : slots'[i] # NoConn => slots'[i] \notin owed'
  BY DEF IdleIsQuiet, Idle
<1>0. \A i \in Index : slots[i] # NoConn => slots[i] \notin owed
  BY DEF IdleIsQuiet, Idle
<1> DEFINE Goal == \A i \in Index : slots'[i] # NoConn => slots'[i] \notin owed'
<1>1. ASSUME NEW w \in Workers, Step(w) PROVE Goal
  <2>1. CASE Attempt(w)
    <3>1. CASE UNCHANGED ownership
      BY <1>0, <3>1 DEF ownership
    <3>2. CASE TakeIdle(w, get[w].url)
      <4>1. owed' \subseteq owed
        BY <2>1, <3>2, OwnersTake DEF Attempt, TypeInv, ConnHeld, Connecting
      <4>2. \A i \in Index : slots'[i] \in {slots[i], NoConn}
        BY <3>2 DEF TakeIdle
      <4> QED
        BY <1>0, <4>1, <4>2
    <3> QED
      BY <2>1, <3>1, <3>2 DEF Attempt
  <2>2. CASE Send(w)
    <3>1. conn[w] # NoConn /\ slots' = slots
      BY <2>2 DEF Send, TypeInv, ConnHeld, Connecting
    <3>2. owed' \subseteq owed \cup {conn[w]}
      BY <2>2, SendEffect
    <3> QED
      BY <1>0, <3>1, <3>2 DEF OwnerInv
  <2>3. CASE Finish(w)
    <3>1. owed' \subseteq owed
      BY <2>3 DEF Finish, SaveIdle, FreeAll
    <3>2. CASE Kept(w)
      <4>1. PICK i \in Index : slots' = [slots EXCEPT ![i] = conn[w]]
        BY <2>3, <3>2 DEF Finish, SaveIdle
      <4>2. conn[w] \notin owed
        BY <2>3, <3>2 DEF Finish, Kept, RetSound
      <4> QED
        BY <1>0, <3>1, <4>1, <4>2 DEF TypeInv, TypeOK
    <3>3. CASE ~Kept(w)
      BY <1>0, <2>3, <3>1, <3>3 DEF Finish
    <3> QED
      BY <3>2, <3>3
  <2>4. CASE ~Attempt(w) /\ ~Send(w) /\ ~Finish(w)
    <3>1. slots' = slots
      BY <1>1, <2>4 DEF Step, Get, Dial, Connected, Setup, LockHandshake, Shake, GiveUp, ReadHead,
                        ReadBody, ReadEnd, ReadOn, Decide, ownership
    <3>2. owed' \subseteq owed
      <4>1. CASE ReadHead(w)
        BY <4>1 DEF ReadHead, HeadPart, HeadRedirect, HeadOfBody
      <4>2. CASE ReadBody(w) \/ ReadEnd(w)
        BY <4>2 DEF ReadBody, BodyPiece, ReadEnd, Closed
      <4>3. CASE ~ReadHead(w) /\ ~ReadBody(w) /\ ~ReadEnd(w)
        BY <1>1, <2>4, <4>3 DEF Step, Get, Dial, Connected, Setup, LockHandshake, Shake, GiveUp,
                                ReadOn, Decide, ownership
      <4> QED
        BY <4>1, <4>2, <4>3
    <3> QED
      BY <1>0, <3>1, <3>2
  <2> QED
    BY <2>1, <2>2, <2>3, <2>4
<1>2. CASE SetTimeLimit \/ Abort \/ CloseIdle \/ Tick \/ UNCHANGED vars
  <2>1. owed' \subseteq owed
    BY <1>2, SharedStay
  <2>2. \A i \in Index : slots'[i] \in {slots[i], NoConn}
    BY <1>2 DEF SetTimeLimit, Abort, CloseIdle, Tick, vars, ownership
  <2> QED
    BY <1>0, <2>1, <2>2
<1> QED
  BY <1>1, <1>2 DEF Next

(* No connection is idle with its answer half read, or with bytes seen past  *)
(* the end of it.                                                            *)
THEOREM IdleConnectionsQuiet == Spec => []IdleIsQuiet
<1>1. Init => RetSound /\ IdleIsQuiet
  BY DEF Init, RetSound, IdleIsQuiet, Idle, Connecting
<1> QED
  BY <1>1, TypeInit, TypeStep, OwnersInit, HostStep, OwnersStep, RetStep, QuietStep, PTL DEF Spec
-----------------------------------------------------------------------------
(* What the sink took is what the attempt under way counts: nothing before a  *)
(* body begins, and the announced length where one was announced and reached. *)
Tallied(w) ==
  /\ sunk[w] = req[w].got
  /\ pc[w] # "idle" /\ req[w].ret \in {"fail", "redirect"} => req[w].got = 0
  /\ pc[w] = "start" => req[w].ret = "fail"
  /\ req[w].ret = "done" /\ req[w].sized => req[w].got = req[w].want
  /\ pc[w] = "idle" /\ get[w].outcome = "complete" /\ req[w].sized => req[w].got = req[w].want
  /\ pc[w] = "idle" /\ get[w].outcome \in {"none", "failed"} => req[w].got = 0
Tally == \A w \in Workers : Tallied(w)

(* A step leaves the counts of the other workers alone, and the shared steps  *)
(* leave everybody's.                                                         *)
LEMMA CountsStay ==
  ASSUME TypeInv, NEW w \in Workers, Step(w), NEW v \in Workers \ {w}
  PROVE  sunk'[v] = sunk[v]
<1> USE DEF TypeInv, TypeOK
<1>1. CASE \E u \in Hosts : Get(w, u)
  BY <1>1 DEF Get
<1>2. CASE ReadBody(w)
  BY <1>2 DEF ReadBody, BodyPiece
<1>3. CASE ~(\E u \in Hosts : Get(w, u)) /\ ~ReadBody(w)
  BY <1>3 DEF Step, Attempt, Dial, Connected, Setup, LockHandshake, Shake, Send, GiveUp, ReadHead,
              ReadEnd, ReadOn, Finish, Decide
<1> QED
  BY <1>1, <1>2, <1>3

LEMMA CountsShared ==
  ASSUME TypeInv, SetTimeLimit \/ Abort \/ CloseIdle \/ Tick \/ UNCHANGED vars, NEW v \in Workers
  PROVE  /\ sunk'[v] = sunk[v] /\ req'[v].ret = req[v].ret /\ req'[v].got = req[v].got
         /\ req'[v].sized = req[v].sized /\ req'[v].want = req[v].want
<1>1. CASE SetTimeLimit \/ Abort \/ CloseIdle \/ UNCHANGED vars
  BY <1>1 DEF SetTimeLimit, Abort, CloseIdle, vars
<1>2. CASE Tick
  BY <1>2 DEF Tick, TypeInv, TypeOK, ReqLocals
<1> QED
  BY <1>1, <1>2

(* What https_get leaves behind of an attempt: its length and its count, and  *)
(* of the get the outcome, if it is over.                                     *)
LEMMA DecideEffect ==
  ASSUME TypeInv, NEW w \in Workers, Decide(w)
  PROVE  /\ req'[w].ret = "fail" /\ req'[w].got = req[w].got
         /\ req'[w].sized = req[w].sized /\ req'[w].want = req[w].want
         /\ \/ pc'[w] = "start" /\ (Repeat(w) \/ Follow(w))
            \/ pc'[w] = "idle" /\ get'[w].outcome = OutcomeOf(w)
<1> DEFINE r == [FreshReq EXCEPT !.sized = req[w].sized, !.want = req[w].want, !.got = req[w].got]
<1>1. req[w] \in ReqLocals
  BY DEF TypeInv, TypeOK
<1>2. /\ r.ret = "fail" /\ r.got = req[w].got /\ r.sized = req[w].sized /\ r.want = req[w].want
  BY <1>1 DEF FreshReq
<1>3. req' = [req EXCEPT ![w] = r]
  BY DEF Decide
<1> HIDE DEF r
<1>4. req'[w] = r
  BY <1>3 DEF TypeInv, TypeOK
<1>5. CASE Repeat(w) \/ Follow(w)
  <2>1. pc'[w] = "start"
    BY <1>5 DEF Decide, TypeInv, TypeOK
  <2> QED
    BY <1>2, <1>4, <1>5, <2>1
<1>6. CASE ~Repeat(w) /\ ~Follow(w)
  <2>1. pc'[w] = "idle" /\ get'[w] = Ended(OutcomeOf(w))
    BY <1>6 DEF Decide, TypeInv, TypeOK
  <2>2. get'[w].outcome = OutcomeOf(w)
    BY <2>1 DEF Ended
  <2> QED
    BY <1>2, <1>4, <2>1, <2>2
<1> QED
  BY <1>5, <1>6

LEMMA TallyStep == TypeInv /\ Tally /\ [Next]_vars => Tally'
<1> SUFFICES ASSUME TypeInv, Tally, [Next]_vars PROVE Tally'
  OBVIOUS
<1>1. ASSUME NEW w \in Workers, Step(w) PROVE Tallied(w)'
  <2>0. /\ Tallied(w) /\ req[w] \in ReqLocals /\ pc \in [Workers -> PCs]
        /\ req[w].sized => req[w].got <= req[w].want
    BY DEF Tally, TypeInv, TypeOK, BodyInBounds
  <2>1. ASSUME NEW u \in Hosts, Get(w, u) PROVE Tallied(w)'
    <3>1. sunk'[w] = 0 /\ req'[w] = FreshReq
      BY <2>1 DEF Get, TypeInv, TypeOK
    <3> QED
      BY <3>1, FreshReqEmpty DEF Tallied
  <2>2. CASE Attempt(w)
    <3>1. req'[w].ret = "fail" /\ req'[w].got = 0 /\ req'[w].sized = FALSE
      BY <2>2, FreshReqType, FreshReqEmpty DEF Attempt, ReqLocals, TypeInv, TypeOK
    <3>2. pc[w] = "start" /\ sunk' = sunk /\ pc'[w] \in {"after", "send", "dns"}
      BY <2>0, <2>2 DEF Attempt
    <3> QED
      BY <2>0, <3>1, <3>2 DEF Tallied
  <2>3. ASSUME pc[w] \notin {"idle", "start"}, pc'[w] \notin {"idle", "start"},
               sunk'[w] = sunk[w], req'[w].ret = req[w].ret, req'[w].got = req[w].got,
               req'[w].sized = req[w].sized, req'[w].want = req[w].want
        PROVE  Tallied(w)'
    BY <2>0, <2>3 DEF Tallied
  <2>4. CASE Dial(w) \/ Setup(w) \/ LockHandshake(w) \/ ReadOn(w)
    <3>1. /\ req' = req /\ sunk' = sunk /\ pc[w] \notin {"idle", "start"}
          /\ pc'[w] \notin {"idle", "start"}
      BY <2>0, <2>4 DEF Dial, Setup, LockHandshake, ReadOn
    <3> QED
      BY <2>3, <3>1
  <2>5. CASE Connected(w) \/ Shake(w) \/ GiveUp(w)
    <3>1. /\ req'[w].ret = req[w].ret /\ req'[w].got = req[w].got
          /\ req'[w].sized = req[w].sized /\ req'[w].want = req[w].want
      BY <2>5 DEF Connected, Shake, GiveUp, ReqLocals, TypeInv, TypeOK
    <3>2. /\ sunk' = sunk /\ pc[w] \notin {"idle", "start"}
          /\ pc'[w] \notin {"idle", "start"}
      BY <2>0, <2>5 DEF Connected, Shake, GiveUp, GoOut
    <3> QED
      BY <2>3, <3>1, <3>2
  <2>6. CASE Send(w)
    <3>1. /\ req'[w].ret = req[w].ret /\ req'[w].got = req[w].got
          /\ req'[w].sized = req[w].sized /\ req'[w].want = req[w].want
      BY <2>6, SendEffect DEF Puts, TypeInv, TypeOK
    <3>2. sunk' = sunk /\ pc[w] = "send" /\ pc'[w] \in {"top", "out"}
      BY <2>0, <2>6, SendEffect DEF Send
    <3> QED
      BY <2>3, <3>1, <3>2
  <2>7. CASE ReadHead(w)
    <3>0. pc[w] = "read" /\ req[w].ret = "fail" /\ sunk' = sunk /\ req[w].got = 0 /\ sunk[w] = 0
      BY <2>0, <2>7 DEF ReadHead, Tallied
    <3>1. ASSUME NEW more \in BOOLEAN, HeadPart(w, more) PROVE Tallied(w)'
      <4>1. req'[w].ret = "fail" /\ req'[w].got = 0 /\ pc'[w] \in {"top", "out"}
        BY <3>0, <3>1, HeadPartEffect DEF Puts, TypeInv, TypeOK
      <4> QED
        BY <3>0, <4>1 DEF Tallied
    <3>2. ASSUME NEW h \in Hosts, NEW keep \in BOOLEAN, HeadRedirect(w, h, keep)
          PROVE  Tallied(w)'
      <4>1. req'[w].ret = "redirect" /\ req'[w].got = 0 /\ pc'[w] = "out"
        BY <3>0, <3>2, HeadRedirectEffect DEF Puts, TypeInv, TypeOK
      <4> QED
        BY <3>0, <4>1 DEF Tallied
    <3>3. ASSUME NEW sized \in BOOLEAN, NEW keep \in BOOLEAN, NEW n \in 0..MaxBody,
                 NEW past \in 0..1, HeadOfBody(w, sized, keep, n, past)
          PROVE  Tallied(w)'
      <4>0. PICK r : /\ Puts(w, r) /\ r.got = req[w].got /\ r.want = n
                     /\ r.ret = "body" \/ (r.ret = "done" /\ n = 0)
        BY <3>3, HeadOfBodyEffect
      <4>1. req'[w] = r /\ r.got = 0
        BY <3>0, <4>0 DEF Puts, TypeInv, TypeOK
      <4>2. pc'[w] \in {"top", "out"}
        BY <3>3, HeadOfBodyEffect DEF TypeInv, TypeOK
      <4> QED
        BY <3>0, <4>0, <4>1, <4>2 DEF Tallied
    <3> QED
      BY <2>7, <3>1, <3>2, <3>3, Zenon DEF ReadHead
  <2>8. CASE ReadBody(w)
    <3>1. PICK r : /\ Puts(w, r) /\ r.sized = req[w].sized /\ r.want = req[w].want
                   /\ \E n \in Nat : r.got = req[w].got + n /\ sunk' = [sunk EXCEPT ![w] = @ + n]
                   /\ \/ r.ret = "body"
                      \/ r.ret = "done" /\ req[w].sized /\ r.got = req[w].want
      BY <2>8, ReadBodyEffect
    <3>2. req'[w] = r /\ pc'[w] \in {"top", "out"}
      BY <2>8, <3>1, ReadBodyEffect DEF Puts, TypeInv, TypeOK
    <3>3. sunk'[w] = r.got
      BY <2>0, <3>1 DEF Tallied, TypeInv, TypeOK
    <3> QED
      BY <3>1, <3>2, <3>3 DEF Tallied
  <2>9. CASE ReadEnd(w)
    <3>1. PICK r : /\ Puts(w, r) /\ r.got = req[w].got /\ r.sized = req[w].sized
                   /\ r.want = req[w].want
                   /\ \/ r.ret = req[w].ret
                      \/ /\ r.ret = "done" /\ req[w].ret = "body"
                         /\ ~req[w].sized \/ req[w].got >= req[w].want
      BY <2>9, ReadEndEffect
    <3>2. req'[w] = r /\ pc'[w] = "out" /\ pc[w] = "read" /\ sunk' = sunk
      BY <2>9, <3>1, ReadEndEffect DEF Puts, TypeInv, TypeOK, ReadEnd
    <3>3. r.ret = "done" /\ r.sized => r.got = r.want
      <4>1. req[w].got \in Nat /\ req[w].want \in Nat
        BY <2>0 DEF ReqLocals
      <4> QED
        BY <2>0, <3>1, <4>1 DEF Tallied
    <3> QED
      BY <2>0, <3>1, <3>2, <3>3 DEF Tallied
  <2>10. CASE Finish(w)
    <3>1. /\ req'[w].ret = req[w].ret /\ req'[w].got = req[w].got
          /\ req'[w].sized = req[w].sized /\ req'[w].want = req[w].want
      BY <2>10, FinishEffect DEF Puts, TypeInv, TypeOK
    <3>2. sunk' = sunk /\ pc[w] = "out" /\ pc'[w] = "after"
      BY <2>0, <2>10, FinishEffect DEF Finish
    <3> QED
      BY <2>3, <3>1, <3>2
  <2>11. CASE Decide(w)
    <3>1. sunk' = sunk /\ pc[w] = "after"
      BY <2>11 DEF Decide
    <3>2. /\ req'[w].ret = "fail" /\ req'[w].got = req[w].got
          /\ req'[w].sized = req[w].sized /\ req'[w].want = req[w].want
      BY <2>11, DecideEffect
    <3>3. ASSUME pc'[w] = "start", Repeat(w) \/ Follow(w) PROVE Tallied(w)'
      <4>1. req[w].got = 0
        BY <2>0, <3>1, <3>3 DEF Repeat, Follow, Tallied
      <4> QED
        BY <2>0, <3>1, <3>2, <3>3, <4>1 DEF Tallied
    <3>4. ASSUME pc'[w] = "idle", get'[w].outcome = OutcomeOf(w) PROVE Tallied(w)'
      <4>1. get'[w].outcome = "complete" => req[w].ret = "done"
        BY <3>4 DEF OutcomeOf
      <4>2. get'[w].outcome \in {"none", "failed"} => req[w].ret \in {"fail", "redirect"}
        BY <2>0, <3>4 DEF OutcomeOf, ReqLocals, Rets
      <4> QED
        BY <2>0, <3>1, <3>2, <3>4, <4>1, <4>2 DEF Tallied
    <3> QED
      BY <2>11, <3>3, <3>4, DecideEffect
  <2> QED
    BY <1>1, <2>1, <2>2, <2>4, <2>5, <2>6, <2>7, <2>8, <2>9, <2>10, <2>11 DEF Step
<1>2. ASSUME NEW w \in Workers, Step(w) PROVE Tally'
  <2>1. ASSUME NEW v \in Workers \ {w} PROVE Tallied(v)'
    BY <1>2, OthersStay, CountsStay DEF Tally, Tallied
  <2> QED
    BY <1>1, <1>2, <2>1 DEF Tally
<1>3. CASE SetTimeLimit \/ Abort \/ CloseIdle \/ Tick \/ UNCHANGED vars
  <2>1. pc' = pc /\ get' = get
    BY <1>3, SharedStay
  <2> QED
    BY <1>3, <2>1, CountsShared DEF Tally, Tallied
<1> QED
  BY <1>2, <1>3 DEF Next

LEMMA TallyInit == Init => Tally
  BY FreshReqEmpty DEF Init, Tally, Tallied, Ended

(* What https_get reports is what the sink saw, over every redirect and the   *)
(* one retry: COMPLETE the whole announced body, FAILED not a byte of one.    *)
THEOREM OutcomeHonest == Spec => []HonestOutcome
<1>1. TypeInv /\ Tally => HonestOutcome
  <2> SUFFICES ASSUME TypeInv, Tally, NEW w \in Workers, pc[w] = "idle"
               PROVE  CASE get[w].outcome = "complete"  -> /\ sunk[w] = req[w].got
                                                           /\ req[w].sized => sunk[w] = req[w].want
                        [] get[w].outcome = "truncated" -> sunk[w] = req[w].got
                        [] OTHER                        -> sunk[w] = 0
    BY DEF HonestOutcome
  <2>1. get[w].outcome \in {"none", "failed", "complete", "truncated"}
    BY DEF TypeInv, TypeOK, GetLocals, Outcomes
  <2> QED
    BY <2>1 DEF Tally, Tallied
<1> QED
  BY <1>1, TypeInit, TypeStep, TallyInit, TallyStep, PTL DEF Spec

(* The sink never sees a byte twice: no request of a get is made once a byte  *)
(* of body reached it, be it the retry or the next redirect.                  *)
THEOREM SinkSeesOnce == Spec => SinkNeverReplayed
<1> DEFINE Unheard == \A w \in Workers : pc[w] # "start" /\ pc'[w] = "start" => sunk'[w] = 0
<1>1. TypeInv /\ Tally /\ [Next]_vars => [Unheard]_vars
  <2> SUFFICES ASSUME TypeInv, Tally, [Next]_vars, NEW w \in Workers, pc'[w] = "start"
               PROVE  sunk'[w] = 0
    OBVIOUS
  <2>1. TypeInv' /\ Tally'
    BY TypeStep, TallyStep
  <2> QED
    BY <2>1 DEF Tally, Tallied
<1>2. Spec => [](TypeInv /\ Tally)
  BY TypeInit, TypeStep, TallyInit, TallyStep, PTL DEF Spec
<1> QED
  BY <1>1, <1>2, PTL DEF Spec, SinkNeverReplayed
-----------------------------------------------------------------------------
(* With one worker: the pool keeps at most one connection to a host, and      *)
(* none to the host a request has begun for, until that request keeps its own.*)
(* A stale mark is only ever on a failed attempt on its way back to https_get.*)
OnePerHost ==
  \A i, j \in Index :
    slots[i] # NoConn /\ slots[j] # NoConn /\ peer[slots[i]] = peer[slots[j]] => i = j
NonePooled(u) == \A i \in Index : slots[i] # NoConn => peer[slots[i]] # u
Sought(w) == \/ pc[w] \in Connecting \cup {"dns"}
             \/ pc[w] = "after" /\ req[w].stale
             \/ pc[w] = "start" /\ get[w].again
Fresh(w) ==
  /\ pc[w] \in (Connecting \ {"top", "read", "out"}) \cup {"dns", "start"} => req[w].ret = "fail"
  /\ req[w].stale => pc[w] \in {"out", "after"} /\ req[w].ret = "fail"
  /\ pc[w] = "idle" => ~get[w].again
  /\ pc[w] \notin {"idle", "start"} /\ get[w].again => ~req[w].reused
  /\ conn[w] # NoConn => peer[conn[w]] = get[w].url
  /\ Sought(w) => NonePooled(get[w].url)

(* A scan of the pool for host u leaves none for u there, and finds one only  *)
(* where there was one.                                                       *)
LEMMA TakeLeavesNone ==
  ASSUME TypeInv, OwnerInv, OnePerHost, NEW w \in Workers, conn[w] = NoConn,
         NEW u \in Hosts, TakeIdle(w, u)
  PROVE  /\ OnePerHost'
         /\ NonePooled(u)'
         /\ conn'[w] # NoConn => peer'[conn'[w]] = u
         /\ NonePooled(u) => conn'[w] = NoConn
<1> DEFINE hits == {i \in Index : Match(i, u)}
           first == {i \in hits : \A j \in hits : i <= j}
           met == {i \in Index : Stale(i) /\ \A j \in hits : i < j}
<1>1. /\ slots' = [i \in Index |-> IF i \in met \cup first THEN NoConn ELSE slots[i]]
      /\ IF hits = {} THEN conn' = conn
         ELSE \E i \in first : conn' = [conn EXCEPT ![w] = slots[i]]
      /\ FreeAll({slots[i] : i \in met})
  BY Zenon DEF TakeIdle
<1>2. /\ \A i \in hits : i \in Index /\ slots[i] # NoConn /\ peer[slots[i]] = u
      /\ \A i \in Index : slots[i] # NoConn /\ peer[slots[i]] = u => i \in hits \/ Stale(i)
      /\ \A i \in met : i \in Index /\ slots[i] # NoConn
      /\ met \cap first = {}
  BY DEF Match, Stale, Index
<1>3. hits = {} => \A i \in Index : Stale(i) => i \in met
  OBVIOUS
<1>4. first \subseteq hits
  OBVIOUS
<1> HIDE DEF hits, first, met
<1>5. \A i \in Index : slots'[i] = IF i \in met \cup first THEN NoConn ELSE slots[i]
  BY <1>1
<1>6. \A i \in Index : slots[i] # NoConn /\ i \notin met => peer'[slots[i]] = peer[slots[i]]
  <2> SUFFICES ASSUME NEW i \in Index, slots[i] # NoConn, i \notin met
               PROVE  peer'[slots[i]] = peer[slots[i]]
    OBVIOUS
  <2>1. slots[i] \in Conns
    BY DEF TypeInv, TypeOK
  <2>2. slots[i] \notin {slots[j] : j \in met}
    BY <1>2 DEF OwnerInv
  <2> QED
    BY <1>1, <2>1, <2>2 DEF FreeAll
<1>7. OnePerHost'
  BY <1>5, <1>6 DEF OnePerHost
<1>8. CASE hits = {}
  <2>1. conn'[w] = NoConn
    BY <1>1, <1>8
  <2>2. \A i \in Index : slots'[i] # NoConn => peer'[slots'[i]] # u
    BY <1>2, <1>3, <1>5, <1>6, <1>8
  <2> QED
    BY <1>7, <2>1, <2>2 DEF NonePooled
<1>9. ASSUME NEW f \in first, conn' = [conn EXCEPT ![w] = slots[f]]
      PROVE  /\ NonePooled(u)' /\ peer'[conn'[w]] = u
             /\ NonePooled(u) => conn'[w] = NoConn
  <2>1. f \in Index /\ slots[f] # NoConn /\ peer[slots[f]] = u /\ f \notin met
    BY <1>2, <1>4
  <2>2. conn'[w] = slots[f]
    BY <1>9 DEF TypeInv, TypeOK
  <2>3. \A i \in Index : slots'[i] # NoConn => peer'[slots'[i]] # u
    BY <1>5, <1>6, <2>1 DEF OnePerHost
  <2> QED
    BY <1>6, <2>1, <2>2, <2>3 DEF NonePooled
<1> QED
  BY <1>1, <1>7, <1>8, <1>9

(* What an attempt does to the marks of its request *)
LEMMA MarksKept ==
  ASSUME TypeInv, NEW w \in Workers,
         \/ Dial(w) \/ Connected(w) \/ Setup(w) \/ LockHandshake(w) \/ Shake(w) \/ GiveUp(w)
         \/ ReadOn(w) \/ ReadHead(w) \/ ReadBody(w)
  PROVE  req'[w].reused = req[w].reused /\ req'[w].stale = req[w].stale
<1> USE DEF TypeInv, TypeOK, ReqLocals
<1>1. CASE Dial(w) \/ Setup(w) \/ LockHandshake(w) \/ ReadOn(w)
  BY <1>1 DEF Dial, Setup, LockHandshake, ReadOn
<1>2. CASE Connected(w) \/ Shake(w) \/ GiveUp(w)
  BY <1>2 DEF Connected, Shake, GiveUp
<1>3. CASE ReadHead(w)
  <2> DEFINE Same == req'[w].reused = req[w].reused /\ req'[w].stale = req[w].stale
  <2>1. ASSUME NEW more \in BOOLEAN, HeadPart(w, more)
        PROVE  Same
    BY <2>1 DEF HeadPart, HeadGrown
  <2>2. ASSUME NEW h \in Hosts, NEW keep \in BOOLEAN, HeadRedirect(w, h, keep)
        PROVE  Same
    BY <2>2 DEF HeadRedirect
  <2>3. ASSUME NEW sized \in BOOLEAN, NEW keep \in BOOLEAN, NEW n \in 0..MaxBody,
               NEW past \in 0..1, HeadOfBody(w, sized, keep, n, past)
        PROVE  Same
    <3> DEFINE t == IF sized /\ n = 0 /\ ~abort THEN "done" ELSE "body"
               fits == Fits(keep, past, 0)
    <3>1. req' = [req EXCEPT ![w] = [req[w] EXCEPT !.head = TRUE, !.sized = sized, !.want = n,
                                                   !.wait = 0, !.keep = fits, !.ret = t]]
      BY <2>3, Zenon DEF HeadOfBody
    <3> HIDE DEF t, fits
    <3> QED
      BY <3>1
  <2> HIDE DEF Same, TypeInv, TypeOK, ReqLocals
  <2>4. Same
    BY <1>3, <2>1, <2>2, <2>3, Zenon DEF ReadHead
  <2> QED
    BY <2>4 DEF Same
<1>4. CASE ReadBody(w)
  <2>1. PICK k \in 1..(MaxBody + 1), taken \in BOOLEAN : BodyPiece(w, k, taken)
    BY <1>4, Zenon DEF ReadBody
  <2> DEFINE n == IF k <= Left(w) THEN k ELSE Left(w)
             whole == req[w].sized /\ n = Left(w)
             done == taken /\ whole /\ ~abort
             keep == Fits(req[w].keep, k, Left(w))
             got == IF taken THEN req[w].got + n ELSE req[w].got
             t == IF done THEN "done" ELSE req[w].ret
  <2>2. req' = [req EXCEPT ![w] = [req[w] EXCEPT !.wait = 0, !.keep = keep,
                                                 !.got = got, !.ret = t]]
    BY <2>1, Zenon DEF BodyPiece
  <2> HIDE DEF keep, got, t
  <2> QED
    BY <2>2
<1> QED
  BY <1>1, <1>2, <1>3, <1>4

(* Only a failed send, a close before the body or the out label marks an      *)
(* attempt stale.                                                             *)
LEMMA MarksSet ==
  ASSUME TypeInv, NEW w \in Workers, Send(w) \/ ReadEnd(w) \/ Finish(w),
         pc[w] = "send" => req[w].ret = "fail"
  PROVE  /\ req'[w].reused = req[w].reused
         /\ req'[w].stale => \/ req[w].stale
                             \/ pc'[w] = "out" /\ req[w].ret # "body" /\ req'[w].ret = req[w].ret
                             \/ Finish(w) /\ req[w].ret = "fail"
<1> USE DEF TypeInv, TypeOK, ReqLocals
<1>1. CASE Send(w)
  <2>1. CASE req' = [req EXCEPT ![w].wait = 0]
    BY <2>1
  <2>2. ASSUME NEW broken \in BOOLEAN, GoOut(w),
               req' = [req EXCEPT ![w] = [@ EXCEPT !.stale = broken /\ req[w].reused, !.wait = 0]]
        PROVE  /\ req'[w].reused = req[w].reused /\ req'[w].ret = req[w].ret
               /\ pc'[w] = "out"
    <3> DEFINE b == broken /\ req[w].reused
    <3>1. req' = [req EXCEPT ![w] = [req[w] EXCEPT !.stale = b, !.wait = 0]]
      BY <2>2, Zenon
    <3> HIDE DEF b
    <3> QED
      BY <2>2, <3>1 DEF GoOut
  <2> QED
    BY <1>1, <2>1, <2>2 DEF Send
<1>2. CASE ReadEnd(w)
  <2>1. PICK clean \in BOOLEAN : Closed(w, clean)
    BY <1>2 DEF ReadEnd
  <2> DEFINE begun == req[w].ret = "body"
             done == clean /\ begun /\ WholeAtClose(w)
             stale == clean /\ ~begun /\ req[w].reused
             t == IF done THEN "done" ELSE req[w].ret
  <2>2. req' = [req EXCEPT ![w] = [req[w] EXCEPT !.wait = 0, !.ret = t, !.stale = stale]]
    BY <2>1, Zenon DEF Closed
  <2>3. stale => req[w].ret # "body" /\ t = req[w].ret
    OBVIOUS
  <2> HIDE DEF t, stale
  <2>4. pc'[w] = "out"
    BY <1>2 DEF ReadEnd, GoOut
  <2>5. req'[w].stale = stale /\ req'[w].ret = t /\ req'[w].reused = req[w].reused
    BY <2>2
  <2> QED
    BY <2>3, <2>4, <2>5
<1>3. CASE Finish(w)
  <2> DEFINE stale == \/ req[w].stale
                      \/ /\ req[w].reused /\ req[w].ret = "fail"
                         /\ req[w].got = 0 /\ ~req[w].head
  <2>1. req' = [req EXCEPT ![w] = [req[w] EXCEPT !.head = FALSE, !.keep = FALSE, !.stale = stale]]
    BY <1>3, Zenon DEF Finish
  <2>2. stale => req[w].stale \/ req[w].ret = "fail"
    OBVIOUS
  <2> HIDE DEF stale
  <2> QED
    BY <1>3, <2>1, <2>2
<1> QED
  BY <1>1, <1>2, <1>3

(* What leaves the pool, the peers and the request's connection and host      *)
(* alone leaves these facts to the request's own marks.                       *)
LEMMA PoolFactsKept ==
  ASSUME OnePerHost, NEW w \in Workers, UNCHANGED <<slots, peer>>,
         conn'[w] = conn[w], get'[w].url = get[w].url,
         Fresh(w), Sought(w)' => Sought(w)
  PROVE  /\ OnePerHost'
         /\ conn'[w] # NoConn => peer'[conn'[w]] = get'[w].url
         /\ Sought(w)' => NonePooled(get[w].url)'
  BY DEF OnePerHost, Fresh, NonePooled

(* A step on the way from the scan of the pool to the out label *)
LEMMA FreshOnTheWay ==
  ASSUME TypeInv, RetSound, OnePerHost, NEW w \in Workers, Fresh(w),
         \/ Connected(w) \/ Setup(w) \/ LockHandshake(w) \/ Shake(w) \/ GiveUp(w) \/ ReadOn(w)
         \/ ReadHead(w) \/ ReadBody(w) \/ Send(w) \/ ReadEnd(w)
  PROVE  OnePerHost' /\ Fresh(w)'
<1>1. /\ pc[w] \in Connecting \ {"out"} /\ UNCHANGED <<slots, peer, conn>>
      /\ get'[w].url = get[w].url /\ get'[w].again = get[w].again
  <2>1. CASE ~ReadHead(w)
    BY <2>1 DEF Connected, Setup, LockHandshake, Shake, GiveUp, ReadOn, ReadBody, BodyPiece,
                Send, ReadEnd, ownership, Connecting
  <2>2. CASE ReadHead(w)
    <3>1. pc[w] = "read" /\ UNCHANGED <<slots, peer, conn>>
      BY <2>2 DEF ReadHead
    <3>2. get' = get \/ \E h \in Hosts : get' = [get EXCEPT ![w].next = h]
      BY <2>2, Zenon DEF ReadHead, HeadPart, HeadRedirect, HeadOfBody
    <3> QED
      BY <3>1, <3>2 DEF Connecting, TypeInv, TypeOK, GetLocals
  <2> QED
    BY <2>1, <2>2
<1>2. pc'[w] \in Connecting \ {"connect"}
  <2>1. CASE ReadHead(w)
    BY <2>1 DEF ReadHead, HeadPart, HeadRedirect, HeadOfBody, GoOut, Connecting, TypeInv, TypeOK
  <2>2. CASE ~ReadHead(w)
    BY <2>2 DEF Connected, Setup, LockHandshake, Shake, GiveUp, ReadOn, ReadBody, BodyPiece,
                Send, ReadEnd, GoOut, Connecting, TypeInv, TypeOK
  <2> QED
    BY <2>1, <2>2
<1>3. pc'[w] \in Connecting \ {"top", "read", "out"} => req'[w].ret = "fail"
  <2>1. CASE ReadHead(w) \/ ReadBody(w) \/ ReadEnd(w) \/ ReadOn(w) \/ GiveUp(w) \/ Send(w)
    <3>1. pc'[w] \in {"top", "read", "out"}
      BY <2>1 DEF ReadHead, HeadPart, HeadRedirect, HeadOfBody, ReadBody, BodyPiece, ReadEnd,
                  ReadOn, GiveUp, Send, GoOut, TypeInv, TypeOK
    <3> QED
      BY <3>1
  <2>2. CASE Connected(w) \/ Setup(w) \/ LockHandshake(w) \/ Shake(w)
    <3>1. pc[w] \in Connecting \ {"top", "read", "out"}
      BY <2>2 DEF Connected, Setup, LockHandshake, Shake, Connecting
    <3>2. req'[w].ret = req[w].ret
      BY <2>2 DEF Connected, Setup, LockHandshake, Shake, TypeInv, TypeOK, ReqLocals
    <3> QED
      BY <3>1, <3>2 DEF Fresh
  <2> QED
    BY <2>1, <2>2
<1>4. req'[w].reused = req[w].reused
  BY MarksKept, MarksSet DEF Fresh, Connecting
<1>5. req'[w].stale => pc'[w] = "out" /\ req'[w].ret = "fail"
  <2>1. ~req[w].stale
    BY <1>1 DEF Fresh, Connecting
  <2>2. CASE Send(w) \/ ReadEnd(w)
    <3>1. req'[w].stale => pc'[w] = "out" /\ req[w].ret # "body" /\ req'[w].ret = req[w].ret
      BY <1>1, <2>1, <2>2, MarksSet DEF Fresh, Connecting, Finish
    <3>2. req[w].ret \in {"fail", "body"}
      BY <1>1 DEF RetSound
    <3> QED
      BY <3>1, <3>2
  <2>3. CASE ~Send(w) /\ ~ReadEnd(w)
    BY <2>1, <2>3, MarksKept
  <2> QED
    BY <2>2, <2>3
<1>6. Sought(w)
  BY <1>1 DEF Sought
<1>7. /\ OnePerHost'
      /\ conn'[w] # NoConn => peer'[conn'[w]] = get'[w].url
      /\ Sought(w)' => NonePooled(get[w].url)'
  BY <1>1, <1>6, PoolFactsKept
<1>8. get'[w].again => ~req'[w].reused
  BY <1>1, <1>4 DEF Fresh, Connecting
<1>9. /\ pc'[w] \notin {"idle", "dns", "start"}
      /\ req'[w].stale => pc'[w] \in {"out", "after"} /\ req'[w].ret = "fail"
  BY <1>2, <1>5 DEF Connecting
<1> QED
  BY <1>3, <1>7, <1>8, <1>9 DEF Fresh

(* The scan finds a connection only for a first attempt.                      *)
LEMMA FreshOnAttempt ==
  ASSUME TypeInv, HostInv, OwnerInv, OnePerHost, NEW w \in Workers, Fresh(w), Attempt(w)
  PROVE  OnePerHost' /\ Fresh(w)'
<1>1. pc[w] = "start" /\ conn[w] = NoConn /\ get' = get /\ get[w].url \in Hosts
  BY DEF Attempt, TypeInv, ConnHeld, Connecting, HostInv, Busy
<1>2. CASE pc' = [pc EXCEPT ![w] = "after"] /\ req' = [req EXCEPT ![w] = FreshReq]
           /\ UNCHANGED ownership
  <2>1. /\ pc'[w] = "after" /\ req'[w].ret = "fail" /\ ~req'[w].stale /\ ~req'[w].reused
        /\ conn'[w] = NoConn
    BY <1>1, <1>2 DEF FreshReq, TypeInv, TypeOK, ownership
  <2>2. OnePerHost'
    BY <1>2 DEF OnePerHost, ownership
  <2> QED
    BY <1>1, <2>1, <2>2 DEF Fresh, Sought, Connecting
<1> DEFINE hit == conn'[w] # NoConn
<1>3. CASE /\ TakeIdle(w, get[w].url)
           /\ pc' = [pc EXCEPT ![w] = IF hit THEN "send" ELSE "dns"]
           /\ req' = [req EXCEPT ![w] = [FreshReq EXCEPT !.reused = hit]]
  <2>2. /\ OnePerHost'
        /\ NonePooled(get[w].url)'
        /\ conn'[w] # NoConn => peer'[conn'[w]] = get[w].url
        /\ NonePooled(get[w].url) => conn'[w] = NoConn
    <3>1. PICK u \in Hosts : u = get[w].url
      BY <1>1
    <3>2. TakeIdle(w, u)
      BY <1>3, <3>1
    <3>3. /\ OnePerHost' /\ NonePooled(u)'
          /\ conn'[w] # NoConn => peer'[conn'[w]] = u
          /\ NonePooled(u) => conn'[w] = NoConn
      BY <1>1, <3>2, TakeLeavesNone
    <3> QED
      BY <1>1, <3>1, <3>3 DEF NonePooled
  <2>3. /\ pc'[w] = "send" \/ pc'[w] = "dns"
        /\ req'[w].ret = "fail" /\ ~req'[w].stale
        /\ req'[w].reused => hit
    <3> HIDE DEF hit
    <3> QED
      BY <1>3 DEF FreshReq, TypeInv, TypeOK
  <2>4. get[w].again => ~req'[w].reused
    BY <1>1, <2>2, <2>3 DEF Fresh, Sought
  <2> HIDE DEF hit
  <2> QED
    BY <1>1, <2>2, <2>3, <2>4 DEF Fresh, NonePooled
<1>4. \/ pc' = [pc EXCEPT ![w] = "after"] /\ req' = [req EXCEPT ![w] = FreshReq]
         /\ UNCHANGED ownership
      \/ /\ TakeIdle(w, get[w].url)
         /\ pc' = [pc EXCEPT ![w] = IF hit THEN "send" ELSE "dns"]
         /\ req' = [req EXCEPT ![w] = [FreshReq EXCEPT !.reused = hit]]
  BY Zenon DEF Attempt
<1> HIDE DEF hit
<1> QED
  BY <1>2, <1>3, <1>4

(* A new connection is not one of the pool's, and goes to the host looked up.  *)
LEMMA FreshOnDial ==
  ASSUME TypeInv, OwnerInv, OnePerHost, NEW w \in Workers, Fresh(w), Dial(w)
  PROVE  OnePerHost' /\ Fresh(w)'
<1>1. /\ pc[w] = "dns" /\ conn[w] = NoConn /\ UNCHANGED <<get, req, slots>>
      /\ pc'[w] \in {"after", "connect", "out"}
  BY DEF Dial, TypeInv, TypeOK, ConnHeld, Connecting
<1>2. req[w].ret = "fail" /\ ~req[w].stale /\ NonePooled(get[w].url)
  BY <1>1 DEF Fresh, Sought
<1>3. /\ \A i \in Index : slots[i] # NoConn => peer'[slots[i]] = peer[slots[i]]
      /\ conn'[w] # NoConn => peer'[conn'[w]] = get[w].url
  <2>1. CASE UNCHANGED <<peer, conn>>
    BY <1>1, <2>1
  <2>2. ASSUME NEW c \in Conns \ Live, peer' = [peer EXCEPT ![c] = get[w].url],
               conn' = [conn EXCEPT ![w] = c]
        PROVE  /\ \A i \in Index : slots[i] # NoConn => peer'[slots[i]] = peer[slots[i]]
               /\ conn'[w] # NoConn => peer'[conn'[w]] = get[w].url
    <3>1. \A i \in Index : slots[i] # c
      BY <2>2 DEF Live, OwnerInv, Owned
    <3> QED
      BY <2>2, <3>1 DEF TypeInv, TypeOK
  <2> QED
    BY <2>1, <2>2 DEF Dial
<1>4. OnePerHost' /\ NonePooled(get[w].url)'
  BY <1>1, <1>2, <1>3 DEF OnePerHost, NonePooled
<1> QED
  BY <1>1, <1>2, <1>3, <1>4 DEF Fresh, Connecting

(* The request's own connection goes into a pool that holds no other to that  *)
(* host; a stale one is closed.                                               *)
LEMMA FreshOnFinish ==
  ASSUME TypeInv, OwnerInv, OnePerHost, NEW w \in Workers, Fresh(w), Finish(w)
  PROVE  OnePerHost' /\ Fresh(w)'
<1>1. /\ pc[w] = "out" /\ conn[w] # NoConn /\ get' = get /\ conn' = [conn EXCEPT ![w] = NoConn]
      /\ pc'[w] = "after" /\ conn'[w] = NoConn
  BY DEF Finish, TypeInv, TypeOK, ConnHeld, Connecting
<1>2. NonePooled(get[w].url) /\ peer[conn[w]] = get[w].url
  BY <1>1 DEF Fresh, Sought, Connecting
<1>3. /\ req'[w].reused = req[w].reused /\ req'[w].ret = req[w].ret
      /\ req'[w].stale => req[w].ret = "fail"
  <2>1. req'[w].ret = req[w].ret
    BY FinishEffect DEF Puts, TypeInv, TypeOK
  <2> QED
    BY <1>1, <2>1, MarksSet DEF Fresh
<1>4. CASE Kept(w)
  <2>1. PICK i \in Index : slots' = [slots EXCEPT ![i] = conn[w]] /\ FreeAll({slots[i]})
    BY <1>4 DEF Finish, SaveIdle
  <2>2. \A j \in Index : slots'[j] = IF j = i THEN conn[w] ELSE slots[j]
    BY <2>1 DEF TypeInv, TypeOK
  <2>3. \A d \in Conns : peer'[d] = IF d = slots[i] THEN NoHost ELSE peer[d]
    BY <2>1 DEF FreeAll
  <2>4. conn[w] \in Conns /\ conn[w] # slots[i]
    BY <1>1 DEF TypeInv, TypeOK, OwnerInv
  <2>5. \A j \in Index : slots[j] # NoConn => slots[j] \in Conns /\ (slots[j] = slots[i] => j = i)
    BY DEF TypeInv, TypeOK, OwnerInv
  <2>6. \A j \in Index : slots'[j] # NoConn =>
          peer'[slots'[j]] = IF j = i THEN get[w].url ELSE peer[slots[j]]
    BY <1>2, <2>2, <2>3, <2>4, <2>5
  <2>7. OnePerHost'
    BY <1>2, <2>2, <2>6 DEF OnePerHost, NonePooled
  <2>8. ~req'[w].stale
    BY <1>3, <1>4 DEF Kept
  <2> QED
    BY <1>1, <1>3, <2>7, <2>8 DEF Fresh, Sought, Connecting
<1>5. CASE ~Kept(w)
  <2>1. slots' = slots /\ FreeAll({conn[w]})
    BY <1>5 DEF Finish
  <2>2. \A j \in Index : slots[j] # NoConn => peer'[slots[j]] = peer[slots[j]]
    BY <1>1, <2>1 DEF FreeAll, OwnerInv, TypeInv, TypeOK
  <2>3. OnePerHost' /\ NonePooled(get[w].url)'
    BY <1>1, <1>2, <2>1, <2>2 DEF OnePerHost, NonePooled
  <2> QED
    BY <1>1, <1>3, <2>3 DEF Fresh, Connecting
<1> QED
  BY <1>4, <1>5

(* Only a stale attempt is made again, and a redirect starts over.            *)
LEMMA FreshOnDecide ==
  ASSUME TypeInv, OnePerHost, NEW w \in Workers, Fresh(w), Decide(w)
  PROVE  OnePerHost' /\ Fresh(w)'
<1>1. /\ pc[w] = "after" /\ conn[w] = NoConn /\ UNCHANGED <<slots, peer, conn>>
      /\ pc'[w] \in {"start", "idle"}
  BY DEF Decide, TypeInv, TypeOK, ConnHeld, Connecting, ownership
<1>2. req'[w].ret = "fail" /\ ~req'[w].stale
  <2>1. req'[w] = [FreshReq EXCEPT !.sized = req[w].sized, !.want = req[w].want,
                                   !.got = req[w].got]
    BY DEF Decide, TypeInv, TypeOK
  <2> QED
    BY <2>1 DEF FreshReq
<1>3. OnePerHost'
  BY <1>1 DEF OnePerHost
<1>4. CASE Repeat(w)
  <2>1. pc'[w] = "start" /\ get'[w].url = get[w].url
    BY <1>4 DEF Decide, TypeInv, TypeOK, GetLocals
  <2>2. NonePooled(get[w].url)
    BY <1>1, <1>4 DEF Repeat, Fresh, Sought
  <2> QED
    BY <1>1, <1>2, <1>3, <2>1, <2>2 DEF Fresh, NonePooled
<1>5. CASE ~Repeat(w)
  <2>1. ~get'[w].again
    <3>1. CASE Follow(w)
      <4>1. get'[w] = NextHop(w) /\ get[w] \in GetLocals
        BY <1>5, <3>1 DEF Decide, TypeInv, TypeOK
      <4> QED
        BY <4>1 DEF NextHop, GetLocals
    <3>2. CASE ~Follow(w)
      BY <1>5, <3>2 DEF Decide, TypeInv, TypeOK, Ended
    <3> QED
      BY <3>1, <3>2
  <2> QED
    BY <1>1, <1>2, <1>3, <2>1 DEF Fresh, Sought, Connecting
<1> QED
  BY <1>4, <1>5

(* A get begins with no retry spent.                                          *)
LEMMA FreshOnGet ==
  ASSUME TypeInv, OnePerHost, NEW w \in Workers, Fresh(w), NEW u \in Hosts, Get(w, u)
  PROVE  OnePerHost' /\ Fresh(w)'
<1>1. /\ pc[w] = "idle" /\ conn[w] = NoConn /\ UNCHANGED <<slots, peer, conn>>
      /\ pc'[w] \in {"start", "idle"} /\ req'[w] = FreshReq
  BY DEF Get, TypeInv, TypeOK, ConnHeld, Connecting, ownership
<1>2. ~get'[w].again
  BY DEF Get, TypeInv, TypeOK, Ended
<1>3. OnePerHost'
  BY <1>1 DEF OnePerHost
<1> QED
  BY <1>1, <1>2, <1>3 DEF Fresh, Sought, Connecting, FreshReq

(* Between requests the pool may be emptied, and time only passes.            *)
LEMMA FreshShared ==
  ASSUME TypeInv, OwnerInv, OnePerHost, NEW w \in Workers, Fresh(w),
         SetTimeLimit \/ Abort \/ CloseIdle \/ Tick \/ UNCHANGED vars
  PROVE  OnePerHost' /\ Fresh(w)'
<1>1. UNCHANGED <<pc, get, conn>> /\ req'[w].ret = req[w].ret
  BY SharedStay
<1>2. req'[w].stale = req[w].stale /\ req'[w].reused = req[w].reused
  BY DEF SetTimeLimit, Abort, CloseIdle, Tick, vars, TypeInv, TypeOK, ReqLocals
<1>3. CASE CloseIdle
  <2>1. \A i \in Index : slots'[i] = NoConn
    BY <1>3 DEF CloseIdle
  <2>2. conn[w] # NoConn => peer'[conn[w]] = peer[conn[w]]
    BY <1>3 DEF CloseIdle, FreeAll, Idle, OwnerInv, TypeInv, TypeOK
  <2> QED
    BY <1>1, <1>2, <2>1, <2>2 DEF OnePerHost, Fresh, NonePooled, Sought
<1>4. CASE ~CloseIdle
  <2>1. UNCHANGED <<slots, peer>>
    BY <1>4 DEF SetTimeLimit, Abort, Tick, vars, ownership
  <2> QED
    BY <1>1, <1>2, <2>1 DEF OnePerHost, Fresh, NonePooled, Sought
<1> QED
  BY <1>3, <1>4

(* The retry for a stale connection is never spent on another stale one: with *)
(* one worker it is always made on a fresh connection.                        *)
THEOREM RetryFreshAlone ==
  ASSUME \A v, w \in Workers : v = w
  PROVE  Spec => []RetryIsFresh
<1> DEFINE AllFresh == OnePerHost /\ \A w \in Workers : Fresh(w)
<1>1. Init => AllFresh
  BY DEF Init, OnePerHost, Fresh, Sought, Connecting, FreshReq, Ended
<1>2. TypeInv /\ HostInv /\ OwnerInv /\ RetSound /\ AllFresh /\ [Next]_vars => AllFresh'
  <2> SUFFICES ASSUME TypeInv, HostInv, OwnerInv, RetSound, AllFresh, [Next]_vars
               PROVE  AllFresh'
    OBVIOUS
  <2>1. ASSUME NEW w \in Workers, Step(w) PROVE OnePerHost' /\ Fresh(w)'
    BY <2>1, FreshOnGet, FreshOnAttempt, FreshOnDial, FreshOnTheWay, FreshOnFinish,
       FreshOnDecide, Zenon DEF Step
  <2>2. ASSUME NEW w \in Workers, Step(w) PROVE AllFresh'
    BY <2>1, <2>2
  <2>3. CASE (SetTimeLimit \/ Abort \/ CloseIdle \/ Tick \/ UNCHANGED vars) /\ Workers # {}
    BY <2>3, FreshShared
  <2>4. CASE (SetTimeLimit \/ Abort \/ CloseIdle \/ Tick \/ UNCHANGED vars) /\ Workers = {}
    BY <2>4 DEF SetTimeLimit, Abort, CloseIdle, FreeAll, Tick, vars, ownership, OnePerHost
  <2> QED
    BY <2>2, <2>3, <2>4 DEF Next
<1>3. AllFresh => RetryIsFresh
  BY DEF Fresh, RetryIsFresh
<1>4. Init => RetSound
  BY DEF Init, RetSound, Connecting
<1> HIDE DEF AllFresh
<1> QED
  BY <1>1, <1>2, <1>3, <1>4, TypeInit, TypeStep, OwnersInit, HostStep, OwnersStep, RetStep, PTL
     DEF Spec
-----------------------------------------------------------------------------
(* The pool that ConnPool sees *)

LEMMA SlotInIdle == \A i \in Index : slots[i] # NoConn => slots[i] \in Idle
  BY DEF Idle

(* The pool has room exactly when a slot is free. *)
LEMMA RoomIsFreeSlot ==
  ASSUME TypeInv, OwnerInv
  PROVE  Cardinality(Idle) < Slots <=> \E i \in Index : slots[i] = NoConn
<1> DEFINE Filled == {i \in Index : slots[i] # NoConn}
           f == [i \in Filled |-> slots[i]]
<1>1. IsFiniteSet(Index) /\ Cardinality(Index) = Slots
  <2>1. 1 \in Int /\ Slots \in Int /\ Slots >= 1
    BY SizeAssumption
  <2>2. IsFiniteSet(Index) /\ Cardinality(Index) = IF 1 > Slots THEN 0 ELSE Slots - 1 + 1
    BY <2>1, FS_Interval, Zenon DEF Index
  <2> QED
    BY <2>1, <2>2
<1>2. /\ IsFiniteSet(Filled) /\ Cardinality(Filled) <= Slots
      /\ Cardinality(Filled) = Slots => Filled = Index
  BY <1>1, FS_Subset
<1>3. f \in Surjection(Filled, Idle) /\ f \in Injection(Filled, Idle)
  <2>1. f \in [Filled -> Idle]
    BY SlotInIdle
  <2>2. \A c \in Idle : \E i \in Filled : f[i] = c
    BY DEF Idle
  <2>3. \A i, j \in Filled : f[i] = f[j] => i = j
    BY DEF OwnerInv
  <2> QED
    BY <2>1, <2>2, <2>3, Zenon DEF Surjection, Injection, IsInjective
<1>4. Cardinality(Idle) = Cardinality(Filled)
  BY <1>2, <1>3, FS_Surjection
<1>5. Cardinality(Filled) \in Nat
  BY <1>2, FS_CardinalityType
<1>6. Filled = Index => Cardinality(Filled) = Slots
  BY <1>1
<1>7. Filled = Index <=> ~\E i \in Index : slots[i] = NoConn
  OBVIOUS
<1> HIDE DEF Filled
<1> QED
  BY <1>2, <1>4, <1>5, <1>6, <1>7

LEMMA PoolStays ==
  ASSUME UNCHANGED <<slots, conn, peer, owed>>, \A v \in Workers : get'[v].url = get[v].url
  PROVE  UNCHANGED Pool!poolVars
<1>1. Idle' = Idle
  BY DEF Idle
<1>2. [v \in Workers |-> get[v].url]' = [v \in Workers |-> get[v].url]
  OBVIOUS
<1> QED
  BY <1>1, <1>2 DEF Pool!poolVars

LEMMA PoolAims ==
  ASSUME NEW w \in Workers, conn[w] = NoConn, UNCHANGED <<slots, conn, peer, owed>>,
         get'[w].url \in Hosts \cup {NoHost}, \A v \in Workers \ {w} : get'[v] = get[v]
  PROVE  Pool!Aim(w)
<1> DEFINE dest == [v \in Workers |-> get[v].url]
<1>1. Idle' = Idle
  BY DEF Idle
<1>2. dest' = [dest EXCEPT ![w] = get'[w].url]
  OBVIOUS
<1> QED
  BY <1>1, <1>2 DEF Pool!Aim

LEMMA PoolCloses ==
  ASSUME NEW S, FreeAll(S)
  PROVE  Pool!Close(S)
  BY DEF FreeAll, Pool!Close

LEMMA PoolExpires ==
  ASSUME NEW S \in SUBSET Idle, Idle' = Idle \ S, FreeAll(S), UNCHANGED <<get, conn>>
  PROVE  Pool!Expire
  BY PoolCloses DEF Pool!Expire

LEMMA PoolOpens ==
  ASSUME TypeInv, HostInv, NEW w \in Workers, Dial(w)
  PROVE  Pool!Open(w) \/ UNCHANGED Pool!poolVars
<1>1. CASE UNCHANGED <<peer, conn>>
  BY <1>1, PoolStays DEF Dial
<1>2. ASSUME NEW c \in Conns \ Live, peer' = [peer EXCEPT ![c] = get[w].url],
             conn' = [conn EXCEPT ![w] = c]
      PROVE  Pool!Open(w)
  <2>1. conn[w] = NoConn /\ get[w].url \in Hosts
    BY DEF TypeInv, ConnHeld, Connecting, Dial, HostInv, Busy
  <2>2. c \in Conns /\ peer[c] = NoHost /\ get[w].url # NoHost
    BY <2>1, SentinelAssumption DEF Live
  <2>3. Idle' = Idle /\ UNCHANGED <<get, owed>>
    BY DEF Dial, Idle
  <2> QED
    BY <1>2, <2>1, <2>2, <2>3 DEF Pool!Open
<1> QED
  BY <1>1, <1>2 DEF Dial

LEMMA PoolTakes ==
  ASSUME TypeInv, OwnerInv, IdleIsQuiet, NEW w \in Workers, conn[w] = NoConn,
         TakeIdle(w, get[w].url), UNCHANGED get
  PROVE  Pool!Reuse(w) \/ Pool!Expire
<1> DEFINE u == get[w].url
           hits == {i \in Index : Match(i, u)}
           first == {i \in hits : \A j \in hits : i <= j}
           met == {i \in Index : Stale(i) /\ \A j \in hits : i < j}
           S == {slots[i] : i \in met}
<1>1. /\ slots' = [i \in Index |-> IF i \in met \cup first THEN NoConn ELSE slots[i]]
      /\ IF hits = {} THEN conn' = conn
         ELSE \E i \in first : conn' = [conn EXCEPT ![w] = slots[i]]
      /\ FreeAll(S)
  BY Zenon DEF TakeIdle
<1>2. /\ \A i \in first : i \in Index /\ slots[i] # NoConn /\ peer[slots[i]] = u
      /\ \A i \in met : i \in Index /\ slots[i] # NoConn
      /\ met \cap first = {} /\ (hits = {} => first = {})
      /\ \A i, j \in first : i = j
  BY DEF Match, Stale, Index
<1> HIDE DEF hits, first, met
<1>3. \A i \in Index : slots'[i] = IF i \in met \cup first THEN NoConn ELSE slots[i]
  BY <1>1
<1>4. \A i, j \in Index : slots[i] = slots[j] /\ slots[i] # NoConn => i = j
  BY DEF OwnerInv
<1>5. Idle' = {c \in Idle : \A i \in met \cup first : c # slots[i]}
  BY <1>2, <1>3, <1>4 DEF Idle
<1>6. S \in SUBSET Idle
  BY <1>2 DEF Idle
<1>7. CASE hits = {}
  <2>1. Idle' = Idle \ S /\ conn' = conn
    BY <1>1, <1>2, <1>5, <1>7
  <2> HIDE DEF S
  <2> QED
    BY <1>1, <1>6, <2>1, PoolExpires
<1>8. ASSUME NEW f \in first, conn' = [conn EXCEPT ![w] = slots[f]]
      PROVE  Pool!Reuse(w)
  <2>1. slots[f] \in Idle \ owed /\ peer[slots[f]] = u
    BY <1>2, SlotInIdle DEF IdleIsQuiet
  <2>2. S \in SUBSET (Idle \ {slots[f]})
    BY <1>2, <1>4, <1>6
  <2>3. Idle' = Idle \ (S \cup {slots[f]})
    BY <1>2, <1>5
  <2> HIDE DEF S
  <2> QED
    BY <1>1, <1>8, <2>1, <2>2, <2>3, PoolCloses DEF Pool!Reuse
<1> QED
  BY <1>1, <1>7, <1>8

LEMMA RoomForOne == Pool!Evicted = IF Cardinality(Idle) < Slots THEN {{}} ELSE {{c} : c \in Idle}
<1>1. Pool!Cardinality(Idle) = Cardinality(Idle)
  BY Zenon DEF Pool!Cardinality, Cardinality, Pool!IsFiniteSet, IsFiniteSet
<1> QED
  BY <1>1, Zenon DEF Pool!Evicted

LEMMA PoolGivesBack ==
  ASSUME TypeInv, OwnerInv, RetSound, NEW w \in Workers, Finish(w)
  PROVE  Pool!GiveBack(w) \/ Pool!Drop(w)
<1>1. /\ conn[w] # NoConn /\ conn[w] \in Conns /\ UNCHANGED get
      /\ conn' = [conn EXCEPT ![w] = NoConn]
  BY DEF Finish, TypeInv, TypeOK, ConnHeld, Connecting
<1>2. CASE ~Kept(w)
  <2>1. FreeAll({conn[w]}) /\ Idle' = Idle
    BY <1>2 DEF Finish, Idle
  <2> QED
    BY <1>1, <2>1, PoolCloses DEF Pool!Drop
<1>3. CASE Kept(w)
  <2>1. conn[w] \notin owed
    BY <1>3 DEF Finish, Kept, RetSound
  <2>2. PICK i \in Index :
          /\ IsSlotToFill(i)
          /\ slots' = [slots EXCEPT ![i] = conn[w]]
          /\ FreeAll({slots[i]})
    BY <1>3 DEF Finish, SaveIdle
  <2>3. \A j \in Index : slots'[j] = IF j = i THEN conn[w] ELSE slots[j]
    BY <2>2 DEF TypeInv, TypeOK
  <2>4. Idle' = (Idle \ {slots[i]}) \cup {conn[w]}
    BY <1>1, <2>3 DEF Idle, OwnerInv
  <2>5. CASE slots[i] = NoConn
    <3>1. Cardinality(Idle) < Slots
      BY <2>5, RoomIsFreeSlot
    <3>2. Idle' = (Idle \ {}) \cup {conn[w]}
      BY <2>4, <2>5 DEF Idle
    <3>3. FreeAll({})
      BY <2>2, <2>5, SentinelAssumption DEF FreeAll, TypeInv, TypeOK
    <3>4. {} \in Pool!Evicted
      BY <3>1, RoomForOne, Zenon
    <3>5. Pool!Close({})
      BY <3>3, PoolCloses
    <3> QED
      BY <1>1, <2>1, <3>2, <3>4, <3>5, Zenon DEF Pool!GiveBack
  <2>6. CASE slots[i] # NoConn
    <3>1. ~(Cardinality(Idle) < Slots)
      BY <2>2, <2>6, RoomIsFreeSlot DEF IsSlotToFill
    <3>2. slots[i] \in Idle
      BY <2>6, SlotInIdle
    <3>3. {slots[i]} \in Pool!Evicted
      <4>1. {slots[i]} \in {{c} : c \in Idle}
        BY <3>2, Zenon
      <4> QED
        BY <3>1, <4>1, RoomForOne, Zenon
    <3>4. Pool!Close({slots[i]})
      BY <2>2, PoolCloses
    <3> QED
      BY <1>1, <2>1, <2>4, <3>3, <3>4, Zenon DEF Pool!GiveBack
  <2> QED
    BY <2>5, <2>6
<1> QED
  BY <1>2, <1>3

LEMMA PoolReads ==
  ASSUME TypeInv, NEW w \in Workers, ReadHead(w) \/ ReadBody(w) \/ ReadEnd(w)
  PROVE  Pool!ReadToEnd(w) \/ UNCHANGED Pool!poolVars
<1>1. conn[w] # NoConn /\ UNCHANGED <<slots, conn, peer>>
  BY DEF ReadHead, ReadBody, ReadEnd, TypeInv, ConnHeld, Connecting
<1> DEFINE Urls == \A v \in Workers : get'[v].url = get[v].url
           Read == owed' = owed \/ owed' = owed \ {conn[w]}
<1>2. ASSUME ReadBody(w) \/ ReadEnd(w) PROVE Urls /\ Read
  <2>1. UNCHANGED get
    BY <1>2, Zenon DEF ReadBody, ReadEnd
  <2>2. Read
    BY <1>2, ReadBodyEffect, ReadEndEffect, Zenon
  <2> QED
    BY <2>1, <2>2
<1>3. ASSUME NEW more \in BOOLEAN, HeadPart(w, more) PROVE Urls /\ Read
  BY <1>3, HeadPartEffect
<1>4. ASSUME NEW h \in Hosts, NEW keep \in BOOLEAN, HeadRedirect(w, h, keep) PROVE Urls /\ Read
  <2>1. get' = [get EXCEPT ![w].next = h] /\ UNCHANGED owed
    BY <1>4, HeadRedirectEffect
  <2> QED
    BY <2>1 DEF TypeInv, TypeOK, GetLocals
<1>5. ASSUME NEW sized \in BOOLEAN, NEW keep \in BOOLEAN, NEW n \in 0..MaxBody,
             NEW past \in 0..1, HeadOfBody(w, sized, keep, n, past)
      PROVE  Urls /\ Read
  <2>1. UNCHANGED get
    BY <1>5, HeadOfBodyEffect
  <2>2. Read
    BY <1>5, HeadOfBodyEffect
  <2> QED
    BY <2>1, <2>2
<1> HIDE DEF Urls, Read
<1>6. Urls /\ Read
  BY <1>2, <1>3, <1>4, <1>5, Zenon DEF ReadHead
<1>7. Idle' = Idle /\ [v \in Workers |-> get[v].url]' = [v \in Workers |-> get[v].url]
  BY <1>1, <1>6 DEF Idle, Urls
<1> QED
  BY <1>1, <1>6, <1>7, Zenon DEF Pool!ReadToEnd, Pool!poolVars, Read

LEMMA PoolSteps ==
  ASSUME TypeInv, HostInv, OwnerInv, RetSound, IdleIsQuiet, TypeInv', NEW w \in Workers, Step(w)
  PROVE  Pool!PoolNext \/ UNCHANGED Pool!poolVars
<1>1. CASE (\E u \in Hosts : Get(w, u)) \/ Decide(w)
  <2>1. conn[w] = NoConn /\ UNCHANGED <<slots, conn, peer, owed>>
    BY <1>1 DEF Get, Decide, TypeInv, ConnHeld, Connecting, ownership
  <2>2. get'[w].url \in Hosts \cup {NoHost}
    BY DEF TypeInv, TypeOK, GetLocals
  <2>3. Pool!Aim(w)
    BY <2>1, <2>2, OthersStay, PoolAims
  <2> QED
    BY <2>3 DEF Pool!PoolNext
<1>2. CASE Attempt(w)
  <2>1. conn[w] = NoConn /\ UNCHANGED get
    BY <1>2 DEF Attempt, TypeInv, ConnHeld, Connecting
  <2>2. CASE UNCHANGED ownership
    BY <2>1, <2>2, PoolStays DEF ownership
  <2> QED
    BY <1>2, <2>1, <2>2, PoolTakes DEF Attempt, Pool!PoolNext
<1>3. CASE Dial(w)
  BY <1>3, PoolOpens DEF Pool!PoolNext
<1>4. CASE Send(w)
  <2>1. pc[w] = "send" /\ UNCHANGED <<get, slots, conn, peer>>
    BY <1>4, Zenon DEF Send
  <2>2. conn[w] # NoConn
    BY <2>1 DEF TypeInv, ConnHeld, Connecting
  <2>3. Idle' = Idle /\ owed' \in {owed, owed \cup {conn[w]}}
    BY <1>4, <2>1, SendEffect DEF Idle
  <2>4. Pool!Ask(w) \/ UNCHANGED Pool!poolVars
    BY <2>1, <2>2, <2>3 DEF Pool!Ask, Pool!poolVars
  <2> QED
    BY <2>4 DEF Pool!PoolNext
<1>5. CASE ReadHead(w) \/ ReadBody(w) \/ ReadEnd(w)
  BY <1>5, PoolReads DEF Pool!PoolNext
<1>6. CASE Finish(w)
  BY <1>6, PoolGivesBack DEF Pool!PoolNext
<1>7. CASE Connected(w) \/ Setup(w) \/ LockHandshake(w) \/ Shake(w) \/ GiveUp(w) \/ ReadOn(w)
  <2>1. UNCHANGED <<get, slots, conn, peer, owed>>
    BY <1>7 DEF Connected, Setup, LockHandshake, Shake, GiveUp, ReadOn, ownership
  <2> QED
    BY <2>1, PoolStays
<1> QED
  BY <1>1, <1>2, <1>3, <1>4, <1>5, <1>6, <1>7 DEF Step

(* The engine with its slots, scans, stopwatches and error paths deals in    *)
(* connections as ConnPool allows: a request reuses only an idle connection  *)
(* to its own host with nothing left to read on it, and no connection is     *)
(* closed but by its owner, by age or to make room in a full pool.           *)
THEOREM PoolImplemented == Spec => ImplementsPool
<1> DEFINE Facts == TypeInv /\ HostInv /\ OwnerInv /\ RetSound /\ IdleIsQuiet
<1>1. Init => Pool!PoolInit
  <2> SUFFICES ASSUME Init PROVE Pool!PoolInit
    OBVIOUS
  <2>1. Idle = {} /\ \A w \in Workers : get[w].url = NoHost
    BY DEF Init, Idle, Ended
  <2> QED
    BY <2>1 DEF Init, Pool!PoolInit
<1>2. Init => Facts
  BY TypeInit, OwnersInit DEF Init, RetSound, IdleIsQuiet, Idle, Connecting
<1>3. Facts /\ [Next]_vars => Facts'
  BY TypeStep, HostStep, OwnersStep, RetStep, QuietStep
<1>4. Facts /\ [Next]_vars => [Pool!PoolNext]_(Pool!poolVars)
  <2> SUFFICES ASSUME Facts, [Next]_vars, Facts'
               PROVE  Pool!PoolNext \/ UNCHANGED Pool!poolVars
    BY <1>3
  <2>1. ASSUME NEW w \in Workers, Step(w) PROVE Pool!PoolNext \/ UNCHANGED Pool!poolVars
    BY <2>1, PoolSteps
  <2>2. CASE CloseIdle
    <3>1. Idle' = Idle \ Idle /\ FreeAll(Idle) /\ UNCHANGED <<get, conn>>
      BY <2>2 DEF CloseIdle, Idle
    <3> QED
      BY <3>1, PoolExpires DEF Pool!PoolNext
  <2>3. CASE SetTimeLimit \/ Abort \/ Tick \/ UNCHANGED vars
    <3>1. UNCHANGED <<get, slots, conn, peer, owed>>
      BY <2>3 DEF SetTimeLimit, Abort, Tick, vars, ownership
    <3> QED
      BY <3>1, PoolStays
  <2> QED
    BY <2>1, <2>2, <2>3 DEF Next
<1> HIDE DEF Facts
<1> QED
  BY <1>1, <1>2, <1>3, <1>4, PTL DEF Spec, ImplementsPool, Pool!PoolSpec
=============================================================================
