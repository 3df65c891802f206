--------------------------- MODULE NetLink_proofs ---------------------------
(***************************************************************************)
(* Proofs about the radio and the roots, for every number of threads that  *)
(* connect, request and disconnect.                                        *)
(*                                                                         *)
(* Serial is what the callers' promise comes to: a call that brings the    *)
(* link up or down is alone.  Stacked, Pooled, Held and Joined rest on it, *)
(* for the layers, the pool, the contexts and the thread.                  *)
(***************************************************************************)
EXTENDS NetLink, TLAPS

(* The roots thread is a process and no worker. *)
LEMMA RootsIsNoWorker == Roots \notin Workers /\ Workers \subseteq Procs /\ Roots \in Procs
BY ProcessAssumption DEF Procs

RadioSteps(w) == NetInit(w) \/ Connect(w) \/ LinkStep(w) \/ AwaitFails(w)
RequestSteps(w) == Get(w) \/ Disconnect(w) \/ Join(w) \/ Look(w) \/ Use(w) \/ Release(w)

(* Bringing the link up or down keeps every type. *)
LEMMA RadioTyped ==
  ASSUME TypeOK, NEW w \in Workers, RadioSteps(w)
  PROVE  TypeOK'
<1> USE RootsIsNoWorker
<1>1. CASE NetInit(w)
  BY <1>1 DEF NetInit, Begin, Goto, roots, TypeOK, Ops, PCs
<1>2. CASE Connect(w)
  <2>1. PICK started \in BOOLEAN, known \in BOOLEAN :
          LET there == known /\ link = "ip"
          IN /\ StartRoots(started)
             /\ pc' = [p \in Procs |-> IF p = w THEN WayIn(there)
                                       ELSE IF p = Roots /\ started THEN "load" ELSE pc[p]]
             /\ op' = [op EXCEPT ![w] = IF WayIn(there) = "idle" THEN "none" ELSE "connect"]
             /\ connected' = IF manual THEN Apctl \in held /\ there ELSE connected
             /\ pooled' = PoolAfter(there)
    BY <1>2 DEF Connect
  <2> DEFINE there == known /\ link = "ip"
  <2>2. WayIn(there) \in {"idle", "redial", "up"} /\ PoolAfter(there) \in BOOLEAN
    BY DEF WayIn, PoolAfter, TypeOK
  <2>3. /\ pc' = [p \in Procs |-> IF p = w THEN WayIn(there)
                                  ELSE IF p = Roots /\ started THEN "load" ELSE pc[p]]
        /\ op' = [op EXCEPT ![w] = IF WayIn(there) = "idle" THEN "none" ELSE "connect"]
        /\ connected' = IF manual THEN Apctl \in held /\ there ELSE connected
        /\ pooled' = PoolAfter(there)
    BY <2>1
  <2> HIDE DEF there
  <2>4. pc' \in [Procs -> PCs]
    BY <2>2, <2>3 DEF TypeOK, PCs
  <2>5. op' \in [Workers -> Ops]
    BY <2>3 DEF TypeOK, Ops
  <2>6. connected' \in BOOLEAN /\ pooled' \in BOOLEAN
    BY <2>2, <2>3 DEF TypeOK, there
  <2>7. thread' \in BOOLEAN /\ UNCHANGED <<ctx, live, mine, joined, wolfReady>>
    BY <2>1 DEF StartRoots, TypeOK
  <2>8. late' = FALSE /\ UNCHANGED <<held, manual, link>>
    BY <1>2 DEF Connect
  <2>9. QED
    BY <2>4, <2>5, <2>6, <2>7, <2>8 DEF TypeOK
<1>3. CASE BringUp(w)
  <2>1. pc' \in [Procs -> PCs] /\ op' \in [Workers -> Ops]
    BY <1>3 DEF BringUp, Return, Goto, TypeOK, Ops, PCs, radio
  <2>2. held' \in SUBSET Layers
    BY <1>3 DEF BringUp, radio, TypeOK
  <2>3. QED
    BY <1>3, <2>1, <2>2 DEF BringUp, radio, roots, TypeOK
<1>4. CASE Redial(w)
  BY <1>4 DEF Redial, LinkDown, Goto, roots, TypeOK, PCs
<1>5. CASE Dial(w)
  BY <1>5 DEF Dial, Goto, roots, TypeOK, PCs
<1>6. CASE Await(w)
  BY <1>6 DEF Await, Return, Goto, radio, roots, TypeOK, PCs, Ops
<1>7. CASE AwaitFails(w)
  BY <1>7 DEF AwaitFails, Goto, radio, roots, TypeOK, PCs
<1>8. CASE Down(w)
  BY <1>8 DEF Down, LinkDown, Return, Goto, roots, TypeOK, PCs, Ops
<1>9. QED
  BY <1>1, <1>2, <1>3, <1>4, <1>5, <1>6, <1>7, <1>8 DEF RadioSteps, LinkStep

(* So do requests and disconnects. *)
LEMMA RequestTyped ==
  ASSUME TypeOK, NEW w \in Workers, RequestSteps(w)
  PROVE  TypeOK'
<1> USE RootsIsNoWorker
<1>1. CASE Get(w)
  BY <1>1 DEF Get, Begin, Goto, TakeThread, radio, TypeOK, Ops, PCs
<1>2. CASE Disconnect(w)
  BY <1>2 DEF Disconnect, Begin, Goto, TakeThread, TypeOK, Ops, PCs
<1>3. CASE Join(w)
  BY <1>3 DEF Join, radio, TypeOK, PCs
<1>4. CASE Look(w)
  BY <1>4 DEF Look, Goto, radio, TypeOK, PCs
<1>5. CASE Use(w)
  BY <1>5 DEF Use, Return, Goto, TypeOK, Ops, PCs
<1>6. CASE Release(w)
  BY <1>6 DEF Release, Goto, radio, TypeOK, PCs
<1>7. QED
  BY <1>1, <1>2, <1>3, <1>4, <1>5, <1>6 DEF RequestSteps

(* So does parsing the roots, wherever it runs. *)
LEMMA RootsTyped ==
  ASSUME TypeOK, NEW p \in Procs, RootsStep(p)
  PROVE  TypeOK'
<1>1. p # Roots => p \in Workers
  BY DEF Procs
<1>2. CASE Load(p)
  BY <1>2 DEF Load, Goto, radio, roots, TypeOK, PCs
<1>3. CASE WolfInit(p)
  BY <1>1, <1>3 DEF WolfInit, GiveUpLoad, Return, Goto, radio, TypeOK, PCs, Ops
<1>4. CASE Parse(p)
  <2>1. pc' \in [Procs -> PCs] /\ op' \in [Workers -> Ops]
    BY <1>1, <1>4 DEF Parse, GiveUpLoad, Return, Goto, TypeOK, PCs, Ops
  <2>2. live' \in SUBSET Ctxs /\ mine' \in [Procs -> Ctxs \cup {NoCtx}]
    BY <1>4 DEF Parse, TypeOK
  <2>3. QED
    BY <1>4, <2>1, <2>2 DEF Parse, radio, TypeOK
<1>5. CASE Publish(p)
  <2>1. ctx' \in Ctxs \cup {NoCtx} /\ live' \in SUBSET Ctxs
    BY <1>5 DEF Publish, TypeOK
  <2>2. mine' \in [Procs -> Ctxs \cup {NoCtx}]
    BY <1>5, <2>1 DEF Publish, TypeOK
  <2>3. pc' \in [Procs -> PCs]
    BY <1>5 DEF Publish, Goto, TypeOK, PCs
  <2>4. QED
    BY <1>5, <2>1, <2>2, <2>3 DEF Publish, radio, TypeOK
<1>6. QED
  BY <1>2, <1>3, <1>4, <1>5 DEF RootsStep

(* Every step is one of these. *)
LEMMA StepKinds ==
  ASSUME Next
  PROVE  \/ \E w \in Workers : RadioSteps(w) \/ RequestSteps(w)
         \/ \E p \in Procs : RootsStep(p)
         \/ LinkChanges \/ TooLate
BY RootsIsNoWorker DEF Next, Step, RadioSteps, RequestSteps

(* Every variable keeps its type in every behaviour of the link. *)
THEOREM LinkTyped == Spec => []TypeOK
<1>1. Init => TypeOK
  BY DEF Init, TypeOK, Ops, PCs
<1>2. TypeOK /\ [Next]_vars => TypeOK'
  <2> SUFFICES ASSUME TypeOK, [Next]_vars
               PROVE  TypeOK'
    OBVIOUS
  <2>1. CASE \E w \in Workers : RadioSteps(w) \/ RequestSteps(w)
    BY <2>1, RadioTyped, RequestTyped
  <2>2. CASE \E p \in Procs : RootsStep(p)
    BY <2>2, RootsTyped
  <2>3. CASE LinkChanges
    BY <2>3 DEF LinkChanges, roots, TypeOK
  <2>4. CASE TooLate
    BY <2>4 DEF TooLate, roots, TypeOK
  <2>5. CASE UNCHANGED vars
    BY <2>5 DEF vars, radio, roots, TypeOK
  <2>6. QED
    BY <2>1, <2>2, <2>3, <2>4, <2>5, StepKinds
<1>3. QED
  BY <1>1, <1>2, PTL DEF Spec
-----------------------------------------------------------------------------
(* Who is in a call, and in which part of it *)

Phase(w) ==
  \/ op[w] = "none" /\ pc[w] = "idle"
  \/ op[w] = "init" /\ pc[w] \in {"up", "down"}
  \/ op[w] = "connect" /\ pc[w] \in {"up", "dial", "await", "down", "redial"}
  \/ op[w] = "get" /\ pc[w] \in {"join", "look", "load", "winit", "parse", "publish", "use"}
  \/ op[w] = "disconnect" /\ pc[w] \in {"join", "release", "down"}

Alone == {"init", "connect", "disconnect"}
RootsAt == {"idle", "load", "winit", "parse", "publish", "ended"}

Serial ==
  /\ \A w \in Workers : Phase(w)
  /\ \A w, v \in Workers : w # v /\ op[w] \in Alone => op[v] = "none"
  /\ pc[Roots] \in RootsAt
  /\ \A w \in Workers : op[w] = "connect" => ~manual

(* All are idle exactly when nobody is in a call. *)
LEMMA IdleOps ==
  ASSUME Serial
  PROVE  AllIdle <=> \A w \in Workers : op[w] = "none"
BY DEF Serial, Phase, AllIdle

(* A step of one worker keeps calls serial when it begins one only as the
   callers promise. *)
LEMMA SerialMove ==
  ASSUME TypeOK, Serial, NEW w \in Workers,
         \A v \in Workers : v # w => pc'[v] = pc[v] /\ op'[v] = op[v],
         Phase(w)', pc'[Roots] \in RootsAt,
         \/ op'[w] \in {op[w], "none"} \/ AllIdle
         \/ op'[w] = "get" /\ \A v \in Workers : op[v] \in {"none", "get"},
         manual' = manual \/ AllIdle, op'[w] = "connect" => ~manual'
  PROVE  Serial'
<1>1. \A v \in Workers : Phase(v)'
  BY DEF Serial, Phase
<1>2. \A u, v \in Workers : u # v /\ op'[u] \in Alone => op'[v] = "none"
  <2> SUFFICES ASSUME NEW u \in Workers, NEW v \in Workers, u # v, op'[u] \in Alone
               PROVE  op'[v] = "none"
    OBVIOUS
  <2>1. CASE AllIdle
    <3>1. u = w
      BY <2>1, IdleOps DEF Alone
    <3>2. QED
      BY <2>1, <3>1, IdleOps
  <2>2. CASE op'[w] \in {op[w], "none"}
    <3>1. op[u] \in Alone
      BY <2>2 DEF Alone
    <3>2. op[v] = "none"
      BY <3>1 DEF Serial
    <3>3. QED
      BY <2>2, <3>2
  <2>3. CASE op'[w] = "get" /\ \A x \in Workers : op[x] \in {"none", "get"}
    <3>1. op'[u] \in {"none", "get"}
      BY <2>3
    <3>2. QED
      BY <3>1 DEF Alone
  <2>4. QED
    BY <2>1, <2>2, <2>3
<1>3. \A v \in Workers : op'[v] = "connect" => ~manual'
  BY IdleOps DEF Serial
<1>4. QED
  BY <1>1, <1>2, <1>3 DEF Serial

(* The steps of the radio, as calls see them. *)
LEMMA RadioSerial ==
  ASSUME TypeOK, Serial, NEW w \in Workers, RadioSteps(w)
  PROVE  Serial'
<1>1. w \in Procs /\ w # Roots /\ Phase(w) /\ pc[Roots] \in RootsAt
  BY RootsIsNoWorker DEF Serial
<1>2. CASE NetInit(w)
  <2>1. /\ AllIdle /\ pc' = [pc EXCEPT ![w] = "up"] /\ op' = [op EXCEPT ![w] = "init"]
    BY <1>2 DEF NetInit, Begin, Goto
  <2>2. pc'[w] = "up" /\ op'[w] = "init" /\ pc'[Roots] = pc[Roots]
    BY <1>1, <2>1, RootsIsNoWorker DEF TypeOK
  <2>3. \A v \in Workers : v # w => pc'[v] = pc[v] /\ op'[v] = op[v]
    BY <2>1, RootsIsNoWorker DEF TypeOK
  <2>4. QED
    BY <1>1, <2>1, <2>2, <2>3, SerialMove DEF Phase
<1>3. CASE Connect(w)
  <2>1. PICK started \in BOOLEAN, there \in BOOLEAN :
          /\ pc' = [p \in Procs |-> IF p = w THEN WayIn(there)
                                    ELSE IF p = Roots /\ started THEN "load" ELSE pc[p]]
          /\ op' = [op EXCEPT ![w] = IF WayIn(there) = "idle" THEN "none" ELSE "connect"]
    BY <1>3 DEF Connect
  <2>2. AllIdle /\ manual' = manual
    BY <1>3 DEF Connect
  <2>3. /\ WayIn(there) \in {"idle", "redial", "up"}
        /\ manual => WayIn(there) = "idle"
    BY DEF WayIn
  <2>4. /\ pc'[w] = WayIn(there)
        /\ op'[w] = IF WayIn(there) = "idle" THEN "none" ELSE "connect"
        /\ pc'[Roots] \in RootsAt
    BY <1>1, <2>1, RootsIsNoWorker DEF TypeOK, RootsAt
  <2>5. \A v \in Workers : v # w => pc'[v] = pc[v] /\ op'[v] = op[v]
    BY <2>1, RootsIsNoWorker DEF TypeOK
  <2>6. Phase(w)' /\ (op'[w] = "connect" => ~manual')
    BY <2>2, <2>3, <2>4 DEF Phase
  <2>7. QED
    BY <2>2, <2>4, <2>5, <2>6, SerialMove
<1>4. ASSUME NEW step \in PCs, Goto(w, step), UNCHANGED <<op, manual>>, Phase(w)'
      PROVE  Serial'
  <2>1. pc'[w] = step /\ pc'[Roots] = pc[Roots]
        /\ \A v \in Workers : v # w => pc'[v] = pc[v] /\ op'[v] = op[v]
    BY <1>1, <1>4, RootsIsNoWorker DEF Goto, TypeOK
  <2>2. QED
    BY <1>1, <1>4, <2>1, SerialMove DEF Serial
<1>5. ASSUME Return(w), manual' = manual
      PROVE  Serial'
  <2>1. /\ pc'[w] = "idle" /\ op'[w] = "none" /\ pc'[Roots] = pc[Roots]
        /\ \A v \in Workers : v # w => pc'[v] = pc[v] /\ op'[v] = op[v]
    BY <1>1, <1>5, RootsIsNoWorker DEF Return, Goto, TypeOK
  <2>2. QED
    BY <1>1, <1>5, <2>1, SerialMove DEF Phase
<1>6. CASE UNCHANGED <<pc, op, manual>>
  BY <1>6 DEF Serial, Phase
<1>7. CASE BringUp(w)
  <2>1. \/ Return(w) /\ manual' = manual
        \/ Goto(w, "dial") /\ op[w] # "init" /\ UNCHANGED <<op, manual>>
        \/ UNCHANGED <<pc, op, manual>>
        \/ Goto(w, "down") /\ UNCHANGED <<op, manual>>
    BY <1>7 DEF BringUp, radio
  <2>2. op[w] \in {"init", "connect"}
    BY <1>1, <1>7 DEF BringUp, Phase
  <2>3. CASE Goto(w, "dial") /\ op[w] # "init" /\ UNCHANGED <<op, manual>>
    <3>1. Phase(w)' /\ "dial" \in PCs
      BY <1>1, <2>2, <2>3 DEF Goto, TypeOK, Phase, PCs
    <3>2. QED
      BY <1>4, <2>3, <3>1
  <2>4. CASE Goto(w, "down") /\ UNCHANGED <<op, manual>>
    <3>1. Phase(w)' /\ "down" \in PCs
      BY <1>1, <2>2, <2>4 DEF Goto, TypeOK, Phase, PCs
    <3>2. QED
      BY <1>4, <2>4, <3>1
  <2>5. QED
    BY <1>5, <1>6, <2>1, <2>3, <2>4
<1>8. CASE Redial(w)
  <2>1. Goto(w, "up") /\ UNCHANGED <<op, manual>> /\ pc[w] = "redial"
    BY <1>8 DEF Redial, LinkDown
  <2>2. Phase(w)' /\ "up" \in PCs
    BY <1>1, <2>1 DEF Goto, TypeOK, Phase, PCs
  <2>3. QED
    BY <1>4, <2>1, <2>2
<1>9. CASE Dial(w) \/ AwaitFails(w) \/ Await(w)
  <2>1. pc[w] \in {"dial", "await"} /\ op[w] = "connect" /\ manual' = manual
    BY <1>1, <1>9 DEF Dial, AwaitFails, Await, Phase, radio
  <2>2. \/ Goto(w, "await") /\ UNCHANGED op
        \/ Goto(w, "down") /\ UNCHANGED op
        \/ Return(w)
    BY <1>9 DEF Dial, AwaitFails, Await
  <2>3. CASE Goto(w, "await") /\ UNCHANGED op
    <3>1. Phase(w)' /\ "await" \in PCs
      BY <1>1, <2>1, <2>3 DEF Goto, TypeOK, Phase, PCs
    <3>2. QED
      BY <1>4, <2>1, <2>3, <3>1
  <2>4. CASE Goto(w, "down") /\ UNCHANGED op
    <3>1. Phase(w)' /\ "down" \in PCs
      BY <1>1, <2>1, <2>4 DEF Goto, TypeOK, Phase, PCs
    <3>2. QED
      BY <1>4, <2>1, <2>4, <3>1
  <2>5. QED
    BY <1>5, <2>1, <2>2, <2>3, <2>4
<1>10. CASE Down(w)
  BY <1>5, <1>10 DEF Down, LinkDown
<1>11. QED
  BY <1>2, <1>3, <1>7, <1>8, <1>9, <1>10 DEF RadioSteps, LinkStep

(* The steps of requests and of disconnect, as calls see them. *)
LEMMA RequestSerial ==
  ASSUME TypeOK, Serial, NEW w \in Workers, RequestSteps(w)
  PROVE  Serial'
<1>1. /\ w \in Procs /\ w # Roots /\ Phase(w) /\ pc[Roots] \in RootsAt
      /\ manual' = manual /\ (op[w] = "connect" => ~manual)
  BY RootsIsNoWorker
  DEF Serial, RequestSteps, Get, Disconnect, Join, Look, Use, Release, radio
<1>2. \A v \in Workers : v # w => pc'[v] = pc[v] /\ op'[v] = op[v]
  BY RootsIsNoWorker
  DEF RequestSteps, Get, Disconnect, Join, Look, Use, Release, Begin, Goto, Return, TypeOK
<1>3. pc'[Roots] \in RootsAt
  BY <1>1, RootsIsNoWorker
  DEF RequestSteps, Get, Disconnect, Join, Look, Use, Release, Begin, Goto, Return, TypeOK, RootsAt
<1>4. CASE Get(w)
  <2>1. pc'[w] = "join" /\ op'[w] = "get" /\ \A v \in Workers : op[v] \in {"none", "get"}
    BY <1>1, <1>4 DEF Get, Begin, Goto, TypeOK
  <2>2. QED
    BY <1>1, <1>2, <1>3, <2>1, SerialMove DEF Phase
<1>5. CASE Disconnect(w)
  <2>1. pc'[w] = "join" /\ op'[w] = "disconnect" /\ AllIdle
    BY <1>1, <1>5 DEF Disconnect, Begin, Goto, TypeOK
  <2>2. QED
    BY <1>1, <1>2, <1>3, <2>1, SerialMove DEF Phase
<1>6. CASE Join(w)
  <2>1. /\ pc'[w] = IF op[w] = "get" THEN "look" ELSE "release"
        /\ op' = op /\ op[w] \in {"get", "disconnect"}
    BY <1>1, <1>6 DEF Join, TypeOK, Phase
  <2>2. QED
    BY <1>1, <1>2, <1>3, <2>1, SerialMove DEF Phase
<1>7. CASE Look(w)
  <2>1. pc'[w] \in {"use", "load"} /\ op' = op /\ op[w] = "get"
    BY <1>1, <1>7 DEF Look, Goto, TypeOK, Phase
  <2>2. QED
    BY <1>1, <1>2, <1>3, <2>1, SerialMove DEF Phase
<1>8. CASE Use(w)
  <2>1. pc'[w] = "idle" /\ op'[w] = "none"
    BY <1>1, <1>8 DEF Use, Return, Goto, TypeOK
  <2>2. QED
    BY <1>1, <1>2, <1>3, <2>1, SerialMove DEF Phase
<1>9. CASE Release(w)
  <2>1. pc'[w] = "down" /\ op' = op /\ op[w] = "disconnect"
    BY <1>1, <1>9 DEF Release, Goto, TypeOK, Phase
  <2>2. QED
    BY <1>1, <1>2, <1>3, <2>1, SerialMove DEF Phase
<1>10. QED
  BY <1>4, <1>5, <1>6, <1>7, <1>8, <1>9 DEF RequestSteps

(* The steps of roots_load, in a request or on its thread. *)
LEMMA RootsSerial ==
  ASSUME TypeOK, Serial, NEW p \in Procs, RootsStep(p)
  PROVE  Serial'
<1>1. manual' = manual
  BY DEF RootsStep, Load, WolfInit, Parse, Publish, radio
<1>2. CASE p = Roots
  <2>1. op' = op /\ \A v \in Workers : pc'[v] = pc[v]
    BY <1>2, RootsIsNoWorker
    DEF RootsStep, Load, WolfInit, Parse, Publish, GiveUpLoad, Goto, TypeOK
  <2>2. pc'[Roots] \in RootsAt
    BY <1>2, RootsIsNoWorker
    DEF RootsStep, Load, WolfInit, Parse, Publish, GiveUpLoad, Goto, TypeOK, RootsAt
  <2>3. QED
    BY <1>1, <2>1, <2>2 DEF Serial, Phase
<1>3. CASE p # Roots
  <2>1. p \in Workers /\ Phase(p) /\ pc[Roots] \in RootsAt /\ (op[p] = "connect" => ~manual)
    BY <1>3 DEF Procs, Serial
  <2>2. /\ \A v \in Workers : v # p => pc'[v] = pc[v] /\ op'[v] = op[v]
        /\ pc'[Roots] = pc[Roots]
    BY <1>3, <2>1, RootsIsNoWorker
    DEF RootsStep, Load, WolfInit, Parse, Publish, GiveUpLoad, Goto, Return, TypeOK
  <2>3. op[p] = "get"
    BY <2>1 DEF RootsStep, Load, WolfInit, Parse, Publish, Phase
  <2>4. \/ op' = op /\ pc'[p] \in {"parse", "winit", "publish", "use"}
        \/ op'[p] = "none" /\ pc'[p] = "idle"
    BY <1>3, <2>1
    DEF RootsStep, Load, WolfInit, Parse, Publish, GiveUpLoad, Goto, Return, TypeOK
  <2>5. Phase(p)' /\ op'[p] \in {op[p], "none"} /\ (op'[p] = "connect" => ~manual')
    BY <2>3, <2>4 DEF Phase
  <2>6. QED
    BY <1>1, <2>1, <2>2, <2>5, SerialMove
<1>4. QED
  BY <1>2, <1>3

(* A call that brings the link up or down is alone, and none dials once the
   dialog has been chosen. *)
THEOREM SerialHolds == Spec => [](TypeOK /\ Serial)
<1>1. Init => Serial
  BY RootsIsNoWorker DEF Init, Serial, Phase, Alone, RootsAt
<1>2. TypeOK /\ Serial /\ [Next]_vars => Serial'
  <2> SUFFICES ASSUME TypeOK, Serial, [Next]_vars
               PROVE  Serial'
    OBVIOUS
  <2>1. CASE \E w \in Workers : RadioSteps(w) \/ RequestSteps(w)
    BY <2>1, RadioSerial, RequestSerial
  <2>2. CASE \E p \in Procs : RootsStep(p)
    BY <2>2, RootsSerial
  <2>3. CASE UNCHANGED <<pc, op, manual>>
    BY <2>3 DEF Serial, Phase
  <2>4. QED
    BY <2>1, <2>2, <2>3, StepKinds DEF LinkChanges, TooLate, vars, radio
<1>3. QED
  BY <1>1, <1>2, LinkTyped, PTL DEF Spec

(* Once the dialog has been chosen, profile 1 is never picked: a connect that
   could has not begun, and is not under way. *)
THEOREM ManualNeverDialsHolds == Spec => ManualNeverDials
<1>1. TypeOK /\ Serial /\ [Next]_vars
      => [manual => \A w \in Workers : pc'[w] # "await"]_vars
  <2> SUFFICES ASSUME TypeOK, Serial, Next, manual, NEW w \in Workers
               PROVE  pc'[w] # "await"
    OBVIOUS
  <2>1. Serial' /\ manual'
    <3>1. Serial'
      <4>1. CASE \E v \in Workers : RadioSteps(v) \/ RequestSteps(v)
        BY <4>1, RadioSerial, RequestSerial
      <4>2. CASE \E p \in Procs : RootsStep(p)
        BY <4>2, RootsSerial
      <4>3. CASE LinkChanges \/ TooLate
        BY <4>3 DEF LinkChanges, TooLate, Serial, Phase
      <4>4. QED
        BY <4>1, <4>2, <4>3, StepKinds
    <3>2. manual'
      BY DEF Next, Step, LinkChanges, TooLate, RootsStep, Load, WolfInit, Parse, Publish,
             NetInit, Connect, Get, Disconnect, LinkStep, BringUp, Redial, LinkDown, Dial,
             Await, AwaitFails, Down, Join, Look, Use, Release, radio
    <3>3. QED
      BY <3>1, <3>2
  <2>2. op'[w] # "connect" /\ Phase(w)'
    BY <2>1 DEF Serial
  <2>3. QED
    BY <2>2 DEF Phase
<1>2. QED
  BY <1>1, SerialHolds, PTL DEF Spec, ManualNeverDials
-----------------------------------------------------------------------------
(* The layers and the pool *)

Whole == held = {} \/ held = Layers

Stacked ==
  /\ \E n \in 0..6 : held = 1..n
  /\ connected => Apctl \in held
  /\ Whole \/ \E w \in Workers : pc[w] \in {"up", "down"}
  /\ \A w \in Workers : pc[w] = "dial" => Apctl \in held
  /\ pooled => connected
  /\ \A w \in Workers : op[w] \in {"connect", "disconnect"} \/ pc[w] = "down" => ~pooled
  /\ \A w \in Workers : op[w] = "get" => connected

(* All six layers are up exactly when the last one is. *)
LEMMA TopLayer ==
  ASSUME NEW n \in 0..6, held = 1..n
  PROVE  Apctl \in held <=> held = Layers
<1>1. Apctl \in 1..n <=> n = 6
  BY SMT DEF Apctl
<1>2. 1..6 = Layers /\ 6 \in Layers
  BY SMT DEF Layers
<1>3. QED
  BY <1>1, <1>2 DEF Apctl

(* A call that is begun takes nothing down. *)
LEMMA BeginStacked ==
  ASSUME TypeOK, Serial, Stacked, NEW w \in Workers,
         NetInit(w) \/ Connect(w) \/ Get(w) \/ Disconnect(w)
  PROVE  Stacked'
<1>1. w \in Procs /\ w # Roots /\ held' = held
  BY RootsIsNoWorker DEF NetInit, Connect, Get, Disconnect, radio
<1>2. CASE NetInit(w)
  <2>1. /\ \A v \in Workers : op[v] = "none"
        /\ pc' = [pc EXCEPT ![w] = "up"] /\ op' = [op EXCEPT ![w] = "init"]
        /\ connected' = connected /\ pooled' = pooled
    BY <1>2, IdleOps DEF NetInit, Begin, Goto
  <2>2. \A v \in Workers : op'[v] \in {"none", "init"} /\ pc'[v] \in {"idle", "up"}
    BY <2>1, RootsIsNoWorker DEF TypeOK, Serial, Phase
  <2>3. pc'[w] = "up"
    BY <1>1, <2>1 DEF TypeOK
  <2>4. QED
    BY <1>1, <2>1, <2>2, <2>3 DEF Stacked
<1>3. CASE Connect(w)
  <2>1. PICK started \in BOOLEAN, known \in BOOLEAN :
          LET there == known /\ link = "ip"
          IN /\ pc' = [p \in Procs |-> IF p = w THEN WayIn(there)
                                       ELSE IF p = Roots /\ started THEN "load" ELSE pc[p]]
             /\ op' = [op EXCEPT ![w] = IF WayIn(there) = "idle" THEN "none" ELSE "connect"]
             /\ connected' = IF manual THEN Apctl \in held /\ there ELSE connected
             /\ pooled' = PoolAfter(there)
    BY <1>3 DEF Connect
  <2> DEFINE there == known /\ link = "ip"
  <2>2. /\ \A v \in Workers : op[v] = "none" /\ pc[v] = "idle"
        /\ \A v \in Workers : v # w => pc'[v] = pc[v] /\ op'[v] = op[v]
        /\ pc'[w] = WayIn(there)
        /\ op'[w] = IF WayIn(there) = "idle" THEN "none" ELSE "connect"
        /\ connected' = IF manual THEN Apctl \in held /\ there ELSE connected
        /\ pooled' = PoolAfter(there)
    <3>1. AllIdle
      BY <1>3 DEF Connect
    <3>2. \A v \in Workers : op[v] = "none" /\ pc[v] = "idle"
      BY <3>1, IdleOps DEF AllIdle
    <3>3. QED
      BY <1>1, <2>1, <3>2, RootsIsNoWorker DEF TypeOK
  <2> HIDE DEF there
  <2>3. /\ WayIn(there) \in {"idle", "redial", "up"}
        /\ WayIn(there) # "idle" => ~manual /\ (~connected \/ ~there)
    BY DEF WayIn
  <2>4. pooled' => pooled /\ connected' /\ WayIn(there) = "idle"
    BY <2>2, <2>3 DEF PoolAfter, Stacked
  <2>5. connected' => Apctl \in held
    BY <2>2 DEF Stacked
  <2>6. Whole
    BY <2>2 DEF Stacked
  <2>7. \A v \in Workers : /\ pc'[v] \in {"idle", "redial", "up"} /\ op'[v] \in {"none", "connect"}
                           /\ op'[v] = "connect" => WayIn(there) # "idle"
    BY <2>2, <2>3
  <2>8. \A v \in Workers : op'[v] \in {"connect", "disconnect"} \/ pc'[v] = "down" => ~pooled'
    BY <2>4, <2>7
  <2>9. QED
    BY <1>1, <2>4, <2>5, <2>6, <2>7, <2>8 DEF Stacked, Whole
<1>4. CASE Get(w)
  <2>1. /\ connected /\ connected' = connected /\ pooled' = pooled
        /\ pc' = [pc EXCEPT ![w] = "join"] /\ op' = [op EXCEPT ![w] = "get"]
        /\ pc[w] = "idle"
    BY <1>4 DEF Get, Begin, Goto, radio
  <2>2. pc'[w] = "join" /\ op'[w] = "get"
        /\ \A v \in Workers : v # w => pc'[v] = pc[v] /\ op'[v] = op[v]
    BY <1>1, <2>1, RootsIsNoWorker DEF TypeOK
  <2>3. Whole \/ \E v \in Workers : pc'[v] \in {"up", "down"}
    BY <2>1, <2>2 DEF Stacked
  <2>4. QED
    BY <1>1, <2>1, <2>2, <2>3 DEF Stacked, Whole
<1>5. CASE Disconnect(w)
  <2>1. /\ \A v \in Workers : op[v] = "none" /\ pc[v] = "idle"
        /\ connected' = connected /\ pooled' = FALSE
        /\ pc' = [pc EXCEPT ![w] = "join"] /\ op' = [op EXCEPT ![w] = "disconnect"]
    BY <1>5, IdleOps DEF Disconnect, Begin, Goto, AllIdle
  <2>2. \A v \in Workers : op'[v] \in {"none", "disconnect"} /\ pc'[v] \in {"idle", "join"}
    BY <2>1, RootsIsNoWorker DEF TypeOK
  <2>3. QED
    BY <1>1, <2>1, <2>2 DEF Stacked, Whole
<1>6. QED
  BY <1>2, <1>3, <1>4, <1>5

(* Taking it down leaves nothing, and only the caller sees it. *)
LEMMA DownStacked ==
  ASSUME TypeOK, Serial, Stacked, NEW w \in Workers, Redial(w) \/ Down(w)
  PROVE  Stacked'
<1>1. /\ w \in Procs /\ held' = {} /\ connected' = FALSE /\ pooled' = pooled
      /\ op[w] \in Alone
  BY RootsIsNoWorker DEF Redial, Down, LinkDown, Serial, Phase, Alone
<1>2. ~pooled
  BY DEF Redial, Down, Stacked, Serial, Phase
<1>3. \A v \in Workers : v # w => op'[v] = "none" /\ pc'[v] = "idle"
  <2>1. \A v \in Workers : v # w => op[v] = "none" /\ pc[v] = "idle"
    BY <1>1 DEF Serial, Phase
  <2>2. QED
    BY <2>1, RootsIsNoWorker DEF Redial, Down, Return, Goto, TypeOK
<1>4. pc'[w] \in {"up", "idle"} /\ op'[w] # "get"
  BY <1>1 DEF Redial, Down, Return, Goto, TypeOK, Alone
<1>5. {} = 1..0 /\ 0 \in 0..6
  BY SMT
<1>6. QED
  BY <1>1, <1>2, <1>3, <1>4, <1>5 DEF Stacked, Whole

(* The next layer goes on the ones that are there, or the call gives up. *)
LEMMA BringUpStacked ==
  ASSUME TypeOK, Serial, Stacked, NEW w \in Workers, BringUp(w)
  PROVE  Stacked'
<1>1. /\ w \in Procs /\ pc[w] = "up" /\ op[w] \in {"init", "connect"}
  BY RootsIsNoWorker DEF BringUp, Serial, Phase
<1>2. \A v \in Workers : v # w => op[v] = "none" /\ pc[v] = "idle"
  BY <1>1 DEF Serial, Phase, Alone
<1>3. PICK n \in 0..6 : held = 1..n
  BY DEF Stacked
<1>4. \A v \in Workers : v # w => op'[v] = "none" /\ pc'[v] = "idle"
  BY <1>2, RootsIsNoWorker DEF BringUp, Return, Goto, TypeOK
<1>5. CASE Apctl \in held
  <2>1. /\ held' = held /\ connected' = connected /\ pooled' = pooled
        /\ Return(w) \/ (Goto(w, "dial") /\ UNCHANGED op)
    BY <1>5 DEF BringUp, radio
  <2>2. /\ pc'[w] \in {"idle", "dial"} /\ op'[w] \in {op[w], "none"}
    BY <1>1, <2>1 DEF Return, Goto, TypeOK
  <2>3. held = Layers
    BY <1>3, <1>5, TopLayer
  <2>4. \A v \in Workers : op'[v] \in {"connect", "disconnect"} \/ pc'[v] = "down" => ~pooled'
    BY <1>1, <1>4, <2>1, <2>2 DEF Stacked
  <2>5. \A v \in Workers : op'[v] # "get"
    BY <1>1, <1>4, <2>2
  <2>6. QED
    BY <1>5, <2>1, <2>3, <2>4, <2>5 DEF Stacked, Whole
<1>6. CASE Apctl \notin held
  <2>1. ~connected /\ ~pooled
    BY <1>6 DEF Stacked
  <2>2. PICK m \in Layers :
          /\ \A k \in Layers : k \in held <=> k < m
          /\ \/ held' = held \cup {m} /\ UNCHANGED <<pc, op, connected, manual, link, pooled, late>>
             \/ Goto(w, "down") /\ UNCHANGED <<op, radio>>
    BY <1>6 DEF BringUp
  <2>3. connected' = connected /\ pooled' = pooled /\ op' = op
    BY <2>2 DEF radio
  <2>4. pc'[w] \in {"up", "down"}
    BY <1>1, <2>2 DEF Goto, TypeOK
  <2>5. \E k \in 0..6 : held' = 1..k
    <3>1. CASE held' = held
      BY <1>3, <3>1
    <3>2. CASE held' = held \cup {m}
      <4>1. m \in 1..6 /\ n \in 0..6 /\ \A k \in 1..6 : k \in 1..n <=> k < m
        BY <1>3, <2>2 DEF Layers
      <4>2. m = n + 1
        BY <4>1, SMT
      <4>3. (1..n) \cup {n + 1} = 1..(n + 1)
        BY <4>1, SMT
      <4>4. held' = 1..m /\ m \in 0..6
        BY <1>3, <3>2, <4>1, <4>2, <4>3
      <4>5. QED
        BY <4>4
    <3>3. QED
      BY <2>2, <3>1, <3>2 DEF radio
  <2>6. \A v \in Workers : pc'[v] # "dial" /\ op'[v] # "get"
    BY <1>1, <1>4, <2>3, <2>4
  <2>7. QED
    BY <2>1, <2>3, <2>4, <2>5, <2>6 DEF Stacked
<1>7. QED
  BY <1>5, <1>6

(* Dialling and waiting leave the layers as they were brought up. *)
LEMMA DialStacked ==
  ASSUME TypeOK, Serial, Stacked, NEW w \in Workers, Dial(w) \/ Await(w) \/ AwaitFails(w)
  PROVE  Stacked'
<1>1. /\ w \in Procs /\ pc[w] \in {"dial", "await"} /\ op[w] = "connect"
  BY RootsIsNoWorker DEF Dial, Await, AwaitFails, Serial, Phase
<1>2. \A v \in Workers : v # w => op[v] = "none" /\ pc[v] = "idle"
  BY <1>1 DEF Serial, Phase, Alone
<1>3. Whole /\ ~pooled
  BY <1>1, <1>2 DEF Stacked
<1>4. /\ held' = held /\ pooled' = pooled
      /\ \A v \in Workers : v # w => op'[v] = "none" /\ pc'[v] = "idle"
      /\ pc'[w] \in {"await", "down", "idle"} /\ op'[w] \in {"connect", "none"}
  BY <1>1, <1>2, RootsIsNoWorker DEF Dial, Await, AwaitFails, Return, Goto, TypeOK, radio
<1>5. connected' => Apctl \in held
  BY DEF Dial, Await, AwaitFails, radio, Stacked
<1>6. \A v \in Workers : pc'[v] # "dial" /\ op'[v] # "get"
  BY <1>4
<1>7. QED
  BY <1>3, <1>4, <1>5, <1>6 DEF Stacked, Whole

(* The rest of a request or of a disconnect leaves the layers alone; a
   request may leave a connection, on the stack it ran on. *)
LEMMA RequestStacked ==
  ASSUME TypeOK, Serial, Stacked, NEW w \in Workers,
         Join(w) \/ Look(w) \/ Use(w) \/ Release(w)
  PROVE  Stacked'
<1>1. /\ w \in Procs /\ w # Roots /\ held' = held /\ connected' = connected
      /\ \A v \in Workers : v # w => op'[v] = op[v] /\ pc'[v] = pc[v]
      /\ op[w] \in {"get", "disconnect"}
  BY RootsIsNoWorker DEF Join, Look, Use, Release, Return, Goto, TypeOK, radio, Serial, Phase
<1>2. /\ pc[w] \notin {"up", "down", "dial"}
      /\ \/ op'[w] = op[w] /\ pc'[w] \in {"look", "use", "load"} /\ pooled' = pooled
         \/ op'[w] = op[w] /\ op[w] = "disconnect" /\ pc'[w] \in {"release", "down"} /\ pooled' = pooled
         \/ op'[w] = "none" /\ pc'[w] = "idle" /\ op[w] = "get"
  BY <1>1 DEF Join, Look, Use, Release, Return, Goto, TypeOK, radio, Serial, Phase
<1>3. Whole \/ \E v \in Workers : pc'[v] \in {"up", "down"}
  BY <1>1, <1>2 DEF Stacked
<1>4. \A v \in Workers : pc'[v] = "dial" => Apctl \in held
  BY <1>1, <1>2 DEF Stacked
<1>5. \A v \in Workers : op'[v] = "get" => connected
  BY <1>1, <1>2 DEF Stacked
<1>6. CASE pooled' = pooled
  <2>1. \A v \in Workers : op'[v] \in {"connect", "disconnect"} \/ pc'[v] = "down" => ~pooled
    BY <1>1, <1>2 DEF Stacked
  <2>2. QED
    BY <1>1, <1>3, <1>4, <1>5, <1>6, <2>1 DEF Stacked, Whole
<1>7. CASE op[w] = "get" /\ op'[w] = "none" /\ pc'[w] = "idle"
  <2>1. connected
    BY <1>7 DEF Stacked
  <2>2. \A v \in Workers : op[v] \notin {"connect", "disconnect"} /\ pc[v] # "down"
    BY <1>7 DEF Serial, Phase, Alone
  <2>3. \A v \in Workers : op'[v] \notin {"connect", "disconnect"} /\ pc'[v] # "down"
    BY <1>1, <1>7, <2>2
  <2>4. QED
    BY <1>1, <1>3, <1>4, <1>5, <2>1, <2>3 DEF Stacked, Whole
<1>8. QED
  BY <1>2, <1>6, <1>7

(* Parsing the roots touches no layer. *)
LEMMA RootsStacked ==
  ASSUME TypeOK, Serial, Stacked, NEW p \in Procs, RootsStep(p)
  PROVE  Stacked'
<1>1. held' = held /\ connected' = connected /\ pooled' = pooled
  BY DEF RootsStep, Load, WolfInit, Parse, Publish, radio
<1>2. \A v \in Workers : v # p => op'[v] = op[v] /\ pc'[v] = pc[v]
  BY RootsIsNoWorker
  DEF RootsStep, Load, WolfInit, Parse, Publish, GiveUpLoad, Goto, Return, TypeOK
<1>3. p \in Workers =>
        /\ op[p] = "get" /\ pc[p] \notin {"up", "down", "dial"}
        /\ op'[p] \in {"get", "none"} /\ pc'[p] \notin {"up", "down", "dial"}
  BY RootsIsNoWorker
  DEF RootsStep, Load, WolfInit, Parse, Publish, GiveUpLoad, Goto, Return, TypeOK, Serial, Phase
<1>4. Whole \/ \E v \in Workers : pc'[v] \in {"up", "down"}
  BY <1>2, <1>3 DEF Stacked
<1>5. \A v \in Workers : pc'[v] = "dial" => Apctl \in held
  BY <1>2, <1>3 DEF Stacked
<1>6. \A v \in Workers : op'[v] = "get" => connected
  BY <1>2, <1>3 DEF Stacked
<1>7. \A v \in Workers : op'[v] \in {"connect", "disconnect"} \/ pc'[v] = "down" => ~pooled
  BY <1>2, <1>3 DEF Stacked
<1>8. QED
  BY <1>1, <1>4, <1>5, <1>6, <1>7 DEF Stacked, Whole

(* Every step keeps the layers and the pool. *)
LEMMA StackedStep ==
  ASSUME TypeOK, Serial, Stacked, [Next]_vars
  PROVE  Stacked'
<1>1. ASSUME NEW w \in Workers, RadioSteps(w) \/ RequestSteps(w)
      PROVE  Stacked'
  BY <1>1, BeginStacked, DownStacked, BringUpStacked, DialStacked, RequestStacked
  DEF RadioSteps, RequestSteps, LinkStep
<1>2. CASE \E p \in Procs : RootsStep(p)
  BY <1>2, RootsStacked
<1>3. CASE UNCHANGED <<pc, op, held, connected, pooled>>
  BY <1>3 DEF Stacked, Whole
<1>4. QED
  BY <1>1, <1>2, <1>3, StepKinds DEF LinkChanges, TooLate, vars, radio

(* At first nothing is up. *)
LEMMA StackedInit == Init => Stacked
<1>1. {} = 1..0 /\ 0 \in 0..6
  BY SMT
<1>2. ASSUME Init
      PROVE  Stacked
  <2>1. /\ held = {} /\ connected = FALSE /\ pooled = FALSE
        /\ \A w \in Workers : op[w] = "none" /\ pc[w] = "idle"
    BY <1>2, RootsIsNoWorker DEF Init
  <2>2. QED
    BY <1>1, <2>1 DEF Stacked, Whole
<1>3. QED
  BY <1>2

(* No layer on a missing one, and none half up with nobody at work on it; and no
   idle connection outlives the stack under its socket. *)
THEOREM LayersStackedHolds == Spec => []LayersStacked
<1>1. TypeOK /\ Serial /\ Stacked /\ [Next]_vars => Stacked'
  BY StackedStep
<1>2. Stacked => LayersStacked
  BY DEF Stacked, Whole, LayersStacked, AllIdle
<1>3. QED
  BY <1>1, <1>2, StackedInit, SerialHolds, PTL DEF Spec
-----------------------------------------------------------------------------
(* The thread: one caller at most waits for it, and while its handle is
   neither kept nor taken it does not run. *)

Joined ==
  /\ \A w \in Workers : joined[w] => pc[w] = "join" /\ ~thread
  /\ \A w, v \in Workers : joined[w] /\ joined[v] => w = v
  /\ ~thread /\ (\A w \in Workers : ~joined[w]) => pc[Roots] = "idle"
  /\ \A w \in Workers : op[w] = "disconnect" => ~thread

(* A disconnect that has waited finds no thread. *)
LEMMA AloneWithoutThread ==
  ASSUME Serial, Joined, NEW w \in Workers, op[w] = "disconnect", pc[w] # "join"
  PROVE  pc[Roots] = "idle"
<1>1. \A v \in Workers : pc[v] # "join"
  BY DEF Serial, Phase, Alone
<1>2. QED
  BY <1>1 DEF Joined

(* Every step keeps the handle with one owner at most. *)
LEMMA JoinedStep ==
  ASSUME TypeOK, Serial, Joined, [Next]_vars
  PROVE  Joined'
<1>1. ASSUME NEW w \in Workers, Get(w) \/ Disconnect(w)
      PROVE  Joined'
  <2>1. /\ w \in Procs /\ w # Roots /\ pc[w] = "idle" /\ pc'[w] = "join"
        /\ joined' = [joined EXCEPT ![w] = thread] /\ thread' = FALSE
        /\ \A p \in Procs : p # w => pc'[p] = pc[p]
    BY <1>1, RootsIsNoWorker DEF Get, Disconnect, AllIdle, Begin, Goto, TakeThread, TypeOK
  <2>2. joined'[w] = thread /\ \A v \in Workers : v # w => joined'[v] = joined[v]
    BY <2>1 DEF TypeOK
  <2>3. ~joined[w] /\ (thread => \A v \in Workers : ~joined[v])
    BY <2>1 DEF Joined
  <2>4. \A v \in Workers : joined'[v] => pc'[v] = "join"
    BY <2>1, <2>2, RootsIsNoWorker DEF Joined
  <2>5. \A u, v \in Workers : joined'[u] /\ joined'[v] => u = v
    BY <2>2, <2>3 DEF Joined
  <2>6. (\A v \in Workers : ~joined'[v]) => pc'[Roots] = "idle"
    BY <2>1, <2>2, <2>3, RootsIsNoWorker DEF Joined
  <2>7. QED
    BY <2>1, <2>4, <2>5, <2>6 DEF Joined
<1>2. ASSUME NEW w \in Workers, Join(w)
      PROVE  Joined'
  <2>1. /\ pc[w] = "join" /\ thread' = thread /\ op' = op
        /\ joined' = [joined EXCEPT ![w] = FALSE]
        /\ \A v \in Workers : v # w => pc'[v] = pc[v]
        /\ pc'[Roots] = IF joined[w] THEN "idle" ELSE pc[Roots]
    BY <1>2, RootsIsNoWorker DEF Join, TypeOK
  <2>2. ~joined'[w] /\ \A v \in Workers : v # w => joined'[v] = joined[v]
    BY <2>1 DEF TypeOK
  <2>3. ~thread /\ (\A v \in Workers : ~joined'[v]) => pc'[Roots] = "idle"
    BY <2>1, <2>2 DEF Joined
  <2>4. QED
    BY <2>1, <2>2, <2>3 DEF Joined
<1>3. ASSUME NEW w \in Workers, Connect(w)
      PROVE  Joined'
  <2>1. /\ joined' = joined /\ (thread' = thread \/ thread' = TRUE)
        /\ pc'[Roots] = pc[Roots] \/ thread' = TRUE
    BY <1>3, RootsIsNoWorker DEF Connect, StartRoots, TypeOK
  <2>2. \A v \in Workers : ~joined[v]
    BY <1>3 DEF Connect, AllIdle, Joined
  <2>3. \A v \in Workers : op'[v] # "disconnect"
    <3>1. \A v \in Workers : op[v] = "none"
      BY <1>3, IdleOps DEF Connect
    <3>2. QED
      BY <1>3, <3>1 DEF Connect, TypeOK
  <2>4. QED
    BY <2>1, <2>2, <2>3 DEF Joined
<1>4. ASSUME NEW w \in Workers,
             NetInit(w) \/ LinkStep(w) \/ AwaitFails(w) \/ Look(w) \/ Use(w) \/ Release(w)
      PROVE  Joined'
  <2>1. /\ w \in Procs /\ w # Roots /\ joined' = joined /\ thread' = thread
        /\ pc[w] # "join"
    BY <1>4, RootsIsNoWorker
    DEF NetInit, AllIdle, LinkStep, BringUp, Redial, Dial, Await, Down, AwaitFails, Look, Use,
        Release, roots
  <2>2. /\ \A p \in Procs : p # w => pc'[p] = pc[p]
        /\ \A v \in Workers : op'[v] = "disconnect" => op[v] = "disconnect"
    BY <1>4, <2>1
    DEF NetInit, LinkStep, BringUp, Redial, Dial, Await, Down, AwaitFails, Look, Use, Release,
        Begin, Return, Goto, TypeOK
  <2>3. QED
    BY <2>1, <2>2, RootsIsNoWorker DEF Joined
<1>5. ASSUME NEW p \in Procs, RootsStep(p)
      PROVE  Joined'
  <2>1. joined' = joined /\ thread' = thread /\ pc[p] # "join" /\ pc[p] # "idle"
    BY <1>5 DEF RootsStep, Load, WolfInit, Parse, Publish, roots
  <2>2. /\ \A q \in Procs : q # p => pc'[q] = pc[q]
        /\ \A v \in Workers : op'[v] = "disconnect" => op[v] = "disconnect"
    BY <1>5, RootsIsNoWorker
    DEF RootsStep, Load, WolfInit, Parse, Publish, GiveUpLoad, Return, Goto, TypeOK, Procs
  <2>3. QED
    BY <2>1, <2>2, RootsIsNoWorker DEF Joined
<1>6. CASE UNCHANGED <<pc, op, joined, thread>>
  BY <1>6 DEF Joined
<1>7. QED
  BY <1>1, <1>2, <1>3, <1>4, <1>5, <1>6, StepKinds
  DEF RadioSteps, RequestSteps, LinkChanges, TooLate, roots, vars

(* At first there is no thread. *)
LEMMA JoinedInit == Init => Joined
BY RootsIsNoWorker DEF Init, Joined
-----------------------------------------------------------------------------
(* The contexts *)

InHand(p) == pc[p] \in {"publish", "use"}

Held ==
  /\ ContextHeld
  /\ \A p \in Procs : pc[p] = "use" => mine[p] = ctx /\ ctx # NoCtx
  /\ \A p \in Procs : ~InHand(p) => mine[p] = NoCtx
  /\ \A p \in Procs : pc[p] = "publish" =>
       /\ mine[p] # NoCtx /\ mine[p] # ctx
       /\ \A q \in Procs : q # p => mine[q] # mine[p]

(* A step that allocates, publishes and frees nothing keeps them. *)
LEMMA SameHeld ==
  ASSUME TypeOK, Held, UNCHANGED <<ctx, live, mine>>,
         \A p \in Procs : InHand(p) \/ InHand(p)' => pc'[p] = pc[p]
  PROVE  Held'
<1>1. ContextHeld'
  BY DEF Held, ContextHeld
<1>2. \A p \in Procs : ~InHand(p)' => ~InHand(p)
  BY DEF InHand
<1>3. \A p \in Procs : pc'[p] \in {"publish", "use"} => pc'[p] = pc[p]
  BY DEF InHand
<1>4. QED
  BY <1>1, <1>2, <1>3 DEF Held, InHand

(* A worker takes the published context in hand, or none. *)
LEMMA LookHeld ==
  ASSUME TypeOK, Serial, Held, NEW w \in Workers, Look(w)
  PROVE  Held'
<1>1. /\ w \in Procs /\ mine[w] = NoCtx /\ ctx' = ctx /\ live' = live
      /\ mine' = [mine EXCEPT ![w] = ctx]
      /\ pc' = [pc EXCEPT ![w] = IF ctx # NoCtx THEN "use" ELSE "load"]
  BY RootsIsNoWorker DEF Look, Goto, Held, InHand
<1>2. /\ mine'[w] = ctx /\ pc'[w] = IF ctx # NoCtx THEN "use" ELSE "load"
      /\ \A q \in Procs : q # w => mine'[q] = mine[q] /\ pc'[q] = pc[q]
  BY <1>1 DEF TypeOK
<1>3. ({ctx} \cup {mine'[q] : q \in Procs}) \ {NoCtx}
      = ({ctx} \cup {mine[q] : q \in Procs}) \ {NoCtx}
  BY <1>1, <1>2
<1>4. ContextHeld'
  BY <1>1, <1>3 DEF Held, ContextHeld
<1>5. \A p \in Procs : pc'[p] = "publish" => p # w /\ pc[p] = "publish"
  BY <1>2
<1>6. \A p \in Procs : pc'[p] = "publish" =>
       /\ mine'[p] # NoCtx /\ mine'[p] # ctx'
       /\ \A q \in Procs : q # p => mine'[q] # mine'[p]
  BY <1>1, <1>2, <1>5 DEF Held
<1>7. \A p \in Procs : pc'[p] = "use" => mine'[p] = ctx' /\ ctx' # NoCtx
  BY <1>1, <1>2 DEF Held
<1>8. \A p \in Procs : ~InHand(p)' => mine'[p] = NoCtx
  BY <1>1, <1>2 DEF Held, InHand
<1>9. QED
  BY <1>4, <1>6, <1>7, <1>8 DEF Held

(* A request that ends puts down the published context. *)
LEMMA UseHeld ==
  ASSUME TypeOK, Serial, Held, NEW w \in Workers, Use(w)
  PROVE  Held'
<1>1. /\ w \in Procs /\ mine[w] = ctx /\ ctx' = ctx /\ live' = live
      /\ mine' = [mine EXCEPT ![w] = NoCtx] /\ pc' = [pc EXCEPT ![w] = "idle"]
  BY RootsIsNoWorker DEF Use, Return, Goto, Held
<1>2. /\ mine'[w] = NoCtx /\ pc'[w] = "idle"
      /\ \A q \in Procs : q # w => mine'[q] = mine[q] /\ pc'[q] = pc[q]
  BY <1>1 DEF TypeOK
<1>3. ({ctx} \cup {mine'[q] : q \in Procs}) \ {NoCtx}
      = ({ctx} \cup {mine[q] : q \in Procs}) \ {NoCtx}
  BY <1>1, <1>2
<1>4. ContextHeld'
  BY <1>1, <1>3 DEF Held, ContextHeld
<1>5. \A p \in Procs : pc'[p] = "publish" => p # w /\ pc[p] = "publish"
  BY <1>2
<1>6. \A p \in Procs : pc'[p] = "publish" =>
       /\ mine'[p] # NoCtx /\ mine'[p] # ctx'
       /\ \A q \in Procs : q # p => mine'[q] # mine'[p]
  BY <1>1, <1>2, <1>5 DEF Held
<1>7. \A p \in Procs : pc'[p] = "use" => mine'[p] = ctx' /\ ctx' # NoCtx
  BY <1>1, <1>2 DEF Held
<1>8. \A p \in Procs : ~InHand(p)' => mine'[p] = NoCtx
  BY <1>1, <1>2 DEF Held, InHand
<1>9. QED
  BY <1>4, <1>6, <1>7, <1>8 DEF Held

(* A release is alone, so the context it frees is in nobody's hand. *)
LEMMA ReleaseHeld ==
  ASSUME TypeOK, Serial, Held, NEW w \in Workers, Release(w)
  PROVE  Held'
<1>1. /\ w \in Procs /\ op[w] = "disconnect" /\ ctx' = NoCtx /\ live' = live \ {ctx}
      /\ mine' = mine /\ pc' = [pc EXCEPT ![w] = "down"] /\ pc[w] = "release"
  BY RootsIsNoWorker DEF Release, Goto, Serial, Phase
<1>2. \A q \in Procs : pc[q] # "use"
  BY <1>1 DEF Serial, Phase, Alone, RootsAt, Procs
<1>3. \A q \in Procs : mine[q] = NoCtx \/ mine[q] # ctx
  BY <1>2 DEF Held, InHand, TypeOK
<1>4. \A q \in Procs : pc'[q] = "publish" => pc[q] = "publish"
  BY <1>1 DEF TypeOK
<1>5. \A q \in Procs : pc'[q] # "use" /\ (~InHand(q)' => ~InHand(q))
  BY <1>1, <1>2 DEF TypeOK, InHand
<1>6. live' = {mine[q] : q \in Procs} \ {NoCtx}
  BY <1>1, <1>3 DEF Held, ContextHeld
<1>7. ContextHeld'
  BY <1>1, <1>6 DEF ContextHeld
<1>8. QED
  BY <1>1, <1>4, <1>5, <1>7 DEF Held

(* A context just allocated is nobody else's. *)
LEMMA ParseHeld ==
  ASSUME TypeOK, Held, NEW p \in Procs, Parse(p)
  PROVE  Held'
<1>1. pc[p] = "parse" /\ ctx' = ctx /\ mine[p] = NoCtx
  BY DEF Parse, Held, InHand
<1>2. ASSUME NEW c \in Ctxs \ live, live' = live \cup {c},
             mine' = [mine EXCEPT ![p] = c], pc' = [pc EXCEPT ![p] = "publish"]
      PROVE  Held'
  <2>1. /\ mine'[p] = c /\ pc'[p] = "publish" /\ c # NoCtx
        /\ \A q \in Procs : q # p => mine'[q] = mine[q] /\ pc'[q] = pc[q]
    BY <1>2, ProcessAssumption DEF TypeOK
  <2>2. c # ctx /\ \A q \in Procs : mine[q] # c
    BY <1>2, <2>1 DEF Held, ContextHeld
  <2>3. live' = ({ctx} \cup {mine'[q] : q \in Procs}) \ {NoCtx}
    <3>1. {mine'[q] : q \in Procs} = {mine[q] : q \in Procs \ {p}} \cup {c}
      BY <2>1
    <3>2. {mine[q] : q \in Procs} \ {NoCtx} = {mine[q] : q \in Procs \ {p}} \ {NoCtx}
      BY <1>1
    <3>3. live = ({ctx} \cup {mine[q] : q \in Procs}) \ {NoCtx}
      BY DEF Held, ContextHeld
    <3>4. QED
      BY <1>2, <2>1, <3>1, <3>2, <3>3
  <2>4. \A r \in Procs : pc'[r] = "publish" =>
         /\ mine'[r] # NoCtx /\ mine'[r] # ctx'
         /\ \A q \in Procs : q # r => mine'[q] # mine'[r]
    BY <1>1, <2>1, <2>2 DEF Held
  <2>5. \A r \in Procs : pc'[r] = "use" => mine'[r] = ctx' /\ ctx' # NoCtx
    BY <1>1, <2>1 DEF Held
  <2>6. \A r \in Procs : ~InHand(r)' => mine'[r] = NoCtx
    BY <2>1 DEF Held, InHand
  <2>7. QED
    BY <1>1, <2>3, <2>4, <2>5, <2>6 DEF Held, ContextHeld
<1>3. CASE GiveUpLoad(p) /\ UNCHANGED <<live, mine>>
  <2>1. pc'[p] \in {"ended", "idle"} /\ \A q \in Procs : q # p => pc'[q] = pc[q]
    BY <1>3 DEF GiveUpLoad, Return, Goto, TypeOK
  <2>2. QED
    BY <1>1, <1>3, <2>1, SameHeld DEF InHand
<1>4. QED
  BY <1>2, <1>3 DEF Parse, Goto

(* The first context stays, and nobody has a later one in hand after it. *)
LEMMA PublishHeld ==
  ASSUME TypeOK, Held, NEW p \in Procs, Publish(p)
  PROVE  Held'
<1>1. /\ pc[p] = "publish" /\ mine[p] # NoCtx /\ mine[p] # ctx
      /\ \A q \in Procs : q # p => mine[q] # mine[p]
      /\ ctx' = IF ctx = NoCtx THEN mine[p] ELSE ctx
      /\ live' = IF ctx = NoCtx THEN live ELSE live \ {mine[p]}
      /\ mine' = [mine EXCEPT ![p] = IF p = Roots THEN NoCtx ELSE ctx']
      /\ pc' = [pc EXCEPT ![p] = IF p = Roots THEN "ended" ELSE "use"]
  BY DEF Publish, Goto, Held
<1>2. /\ mine'[p] = IF p = Roots THEN NoCtx ELSE ctx'
      /\ pc'[p] = IF p = Roots THEN "ended" ELSE "use"
      /\ \A q \in Procs : q # p => mine'[q] = mine[q] /\ pc'[q] = pc[q]
  BY <1>1 DEF TypeOK
<1>3. ctx' # NoCtx
  BY <1>1
<1>4. {mine'[q] : q \in Procs} = {mine[q] : q \in Procs \ {p}} \cup {mine'[p]}
  BY <1>2
<1>5. {mine[q] : q \in Procs} = {mine[q] : q \in Procs \ {p}} \cup {mine[p]}
  OBVIOUS
<1>6. live = ({ctx} \cup {mine[q] : q \in Procs}) \ {NoCtx}
  BY DEF Held, ContextHeld
<1>7. mine[p] \notin {mine[q] : q \in Procs \ {p}}
  BY <1>1
<1>8. live' = ({ctx'} \cup {mine'[q] : q \in Procs}) \ {NoCtx}
  <2>1. CASE ctx = NoCtx
    BY <1>1, <1>2, <1>4, <1>5, <1>6, <2>1
  <2>2. CASE ctx # NoCtx
    BY <1>1, <1>2, <1>4, <1>5, <1>6, <1>7, <2>2
  <2>3. QED
    BY <2>1, <2>2
<1>9. \A r \in Procs : pc'[r] = "publish" =>
        /\ mine'[r] # NoCtx /\ mine'[r] # ctx'
        /\ \A q \in Procs : q # r => mine'[q] # mine'[r]
  <2> SUFFICES ASSUME NEW r \in Procs, pc'[r] = "publish"
               PROVE  /\ mine'[r] # NoCtx /\ mine'[r] # ctx'
                      /\ \A q \in Procs : q # r => mine'[q] # mine'[r]
    OBVIOUS
  <2>1. r # p /\ pc[r] = "publish" /\ mine'[r] = mine[r]
    BY <1>2
  <2>2. /\ mine[r] # NoCtx /\ mine[r] # ctx
        /\ \A q \in Procs : q # r => mine[q] # mine[r]
    BY <2>1 DEF Held
  <2>3. mine[r] # ctx'
    BY <1>1, <2>1, <2>2
  <2>4. QED
    BY <1>2, <2>1, <2>2, <2>3
<1>10. \A r \in Procs : pc'[r] = "use" => mine'[r] = ctx' /\ ctx' # NoCtx
  BY <1>1, <1>2, <1>3 DEF Held
<1>11. \A r \in Procs : ~InHand(r)' => mine'[r] = NoCtx
  BY <1>2 DEF Held, InHand
<1>12. QED
  BY <1>8, <1>9, <1>10, <1>11 DEF Held, ContextHeld

(* All other steps leave the contexts where they are. *)
HandsOff ==
  /\ UNCHANGED <<ctx, live, mine>>
  /\ \A p \in Procs : InHand(p) \/ InHand(p)' => pc'[p] = pc[p]

LEMMA ContextSteps ==
  ASSUME TypeOK, Serial, Joined, [Next]_vars
  PROVE  \/ \E w \in Workers : Look(w) \/ Use(w) \/ Release(w)
         \/ \E p \in Procs : Parse(p) \/ Publish(p)
         \/ HandsOff
<1>1. ASSUME NEW w \in Workers, RadioSteps(w)
      PROVE  HandsOff
  <2>1. UNCHANGED <<ctx, live, mine>>
    BY <1>1 DEF RadioSteps, NetInit, Connect, StartRoots, LinkStep, BringUp, Redial, Dial,
                Await, AwaitFails, Down, roots
  <2>2. pc[w] \notin {"publish", "use"} /\ pc'[w] \notin {"publish", "use"}
    <3>1. Phase(w) /\ Phase(w)' /\ op[w] # "get" /\ op'[w] # "get"
      <4>1. Phase(w) /\ Phase(w)'
        BY <1>1, RadioSerial DEF Serial
      <4>2. op[w] # "get"
        BY <1>1, <4>1, IdleOps
        DEF RadioSteps, NetInit, Connect, LinkStep, BringUp, Redial, Dial, Await, AwaitFails,
            Down, Phase
      <4>3. op'[w] # "get"
        BY <1>1, <4>2
        DEF RadioSteps, NetInit, Connect, LinkStep, BringUp, Redial, Dial, Await, AwaitFails,
            Down, Begin, Return, Goto, TypeOK
      <4>4. QED
        BY <4>1, <4>2, <4>3
    <3>2. QED
      BY <3>1 DEF Phase
  <2>3. \A p \in Procs : p # w => pc'[p] = pc[p] \/ ~(InHand(p) \/ InHand(p)')
    <3>1. CASE Connect(w)
      <4>1. \A p \in Procs : p # w => pc'[p] = pc[p] \/ (p = Roots /\ ~thread /\ pc'[p] = "load")
        BY <3>1 DEF Connect, StartRoots
      <4>2. ~thread => pc[Roots] = "idle"
        BY <3>1 DEF Connect, AllIdle, Joined
      <4>3. QED
        BY <4>1, <4>2 DEF InHand
    <3>2. CASE ~Connect(w)
      BY <1>1, <3>2
      DEF RadioSteps, NetInit, LinkStep, BringUp, Redial, Dial, Await, AwaitFails, Down,
          Begin, Return, Goto, TypeOK
    <3>3. QED
      BY <3>1, <3>2
  <2>4. QED
    BY <2>1, <2>2, <2>3 DEF InHand, HandsOff
<1>2. ASSUME NEW w \in Workers, Get(w) \/ Disconnect(w) \/ Join(w)
      PROVE  HandsOff
  <2>1. UNCHANGED <<ctx, live, mine>>
    BY <1>2 DEF Get, Disconnect, Join
  <2>2. \A p \in Procs : InHand(p) \/ InHand(p)' => pc'[p] = pc[p]
    BY <1>2, RootsIsNoWorker DEF Get, Disconnect, Join, Begin, Goto, AllIdle, InHand, TypeOK
  <2>3. QED
    BY <2>1, <2>2 DEF HandsOff
<1>3. ASSUME NEW p \in Procs, Load(p) \/ WolfInit(p)
      PROVE  HandsOff
  <2>1. UNCHANGED <<ctx, live, mine>>
    BY <1>3 DEF Load, WolfInit, roots
  <2>2. \A q \in Procs : InHand(q) \/ InHand(q)' => pc'[q] = pc[q]
    BY <1>3 DEF Load, WolfInit, GiveUpLoad, Return, Goto, InHand, TypeOK
  <2>3. QED
    BY <2>1, <2>2 DEF HandsOff
<1>4. CASE UNCHANGED <<pc, ctx, live, mine>>
  BY <1>4 DEF InHand, HandsOff
<1>5. QED
  BY <1>1, <1>2, <1>3, <1>4, StepKinds
  DEF RequestSteps, RootsStep, LinkChanges, TooLate, roots, vars

(* Every step keeps each context in one place or published. *)
LEMMA HeldStep ==
  ASSUME TypeOK, Serial, Joined, Held, [Next]_vars
  PROVE  Held'
BY ContextSteps, SameHeld, LookHeld, UseHeld, ReleaseHeld, ParseHeld, PublishHeld DEF HandsOff

(* At first there is no context. *)
LEMMA HeldInit == Init => Held
<1>1. ASSUME Init
      PROVE  Held
  <2>1. ctx = NoCtx /\ live = {} /\ \A p \in Procs : mine[p] = NoCtx /\ pc[p] = "idle"
    BY <1>1 DEF Init
  <2>2. QED
    BY <2>1 DEF Held, ContextHeld, InHand
<1>2. QED
  BY <1>1

(* No context is freed in somebody's hand, and none is left behind. *)
THEOREM ContextHeldHolds == Spec => []ContextHeld
<1>1. TypeOK /\ Serial /\ (Joined /\ Held) /\ [Next]_vars => (Joined /\ Held)'
  BY JoinedStep, HeldStep
<1>2. Held => ContextHeld
  BY DEF Held
<1>3. QED
  BY <1>1, <1>2, JoinedInit, HeldInit, SerialHolds, PTL DEF Spec
-----------------------------------------------------------------------------
(* After disconnect *)

Emptied == \A w \in Workers : op[w] = "disconnect" /\ pc[w] = "down" => ctx = NoCtx

(* Nothing is published between the release and the end of a disconnect. *)
LEMMA EmptiedStep ==
  ASSUME TypeOK, Serial, Joined, Emptied, [Next]_vars
  PROVE  Emptied'
<1> SUFFICES ASSUME NEW w \in Workers, op'[w] = "disconnect", pc'[w] = "down"
             PROVE  ctx' = NoCtx
  BY DEF Emptied
<1>1. CASE Release(w)
  BY <1>1 DEF Release
<1>2. CASE ~Release(w)
  <2>1. op[w] = "disconnect" /\ pc[w] = "down"
    <3>1. ASSUME NEW v \in Workers, RadioSteps(v) \/ RequestSteps(v)
          PROVE  op[w] = "disconnect" /\ pc[w] = "down"
      <4>1. CASE v = w
        <5>1. Phase(w) /\ w \in Procs
          BY RootsIsNoWorker DEF Serial
        <5>2. QED
          BY <1>2, <3>1, <4>1, <5>1
          DEF RadioSteps, RequestSteps, NetInit, Connect, WayIn, LinkStep, BringUp, Redial, Dial,
              Await, AwaitFails, Down, Get, Disconnect, Join, Look, Use, Begin, Return, Goto,
              TypeOK, Phase
      <4>2. CASE v # w
        BY <3>1, <4>2, RootsIsNoWorker
        DEF RadioSteps, RequestSteps, NetInit, Connect, LinkStep, BringUp, Redial, Dial, Await,
            AwaitFails, Down, Get, Disconnect, Join, Look, Use, Release, Begin, Return, Goto,
            TypeOK
      <4>3. QED
        BY <4>1, <4>2
    <3>2. ASSUME NEW p \in Procs, RootsStep(p)
          PROVE  op[w] = "disconnect" /\ pc[w] = "down"
      BY <3>2, RootsIsNoWorker
      DEF RootsStep, Load, WolfInit, Parse, Publish, GiveUpLoad, Return, Goto, TypeOK
    <3>3. QED
      BY <3>1, <3>2, StepKinds DEF LinkChanges, TooLate, vars
  <2>2. /\ pc[Roots] = "idle" /\ \A v \in Workers : v # w => pc[v] = "idle"
    BY <2>1, AloneWithoutThread DEF Serial, Phase, Alone
  <2>3. \A p \in Procs : pc[p] \notin {"publish", "release"}
    BY <2>1, <2>2 DEF Procs
  <2>4. ctx' = ctx
    BY <2>3, RootsIsNoWorker, StepKinds
    DEF RadioSteps, RequestSteps, NetInit, Connect, StartRoots, LinkStep, BringUp, Redial, Dial,
        Await, AwaitFails, Down, Get, Disconnect, Join, Look, Use, Release, RootsStep, Load,
        WolfInit, Parse, Publish, LinkChanges, TooLate, roots, vars
  <2>5. QED
    BY <2>1, <2>4 DEF Emptied
<1>3. QED
  BY <1>1, <1>2

(* After disconnect no layer is up, no thread runs and no context is left. *)
THEOREM TornDownHolds == Spec => TornDown
<1>1. TypeOK /\ Serial /\ Stacked /\ Joined /\ Held /\ Emptied /\ [Next]_vars
      => [\A w \in Workers : op[w] = "disconnect" /\ pc'[w] = "idle" =>
            /\ held' = {} /\ ~connected' /\ ~pooled'
            /\ ~thread' /\ pc'[Roots] = "idle" /\ live' = {}]_vars
  <2> SUFFICES ASSUME TypeOK, Serial, Stacked, Joined, Held, Emptied, Next,
                      NEW w \in Workers, op[w] = "disconnect", pc'[w] = "idle"
               PROVE  /\ held' = {} /\ ~connected' /\ ~pooled'
                      /\ ~thread' /\ pc'[Roots] = "idle" /\ live' = {}
    OBVIOUS
  <2>1. /\ Phase(w) /\ w \in Procs /\ ~pooled
        /\ \A v \in Workers : v # w => pc[v] = "idle" /\ op[v] = "none"
    BY RootsIsNoWorker DEF Serial, Phase, Alone, Stacked
  <2>2. Down(w)
    <3>1. ASSUME NEW v \in Workers, RadioSteps(v) \/ RequestSteps(v)
          PROVE  Down(w)
      <4>1. CASE v = w
        BY <2>1, <3>1, <4>1
        DEF RadioSteps, RequestSteps, NetInit, Connect, AllIdle, LinkStep, BringUp, Redial, Dial,
            Await, AwaitFails, Get, Disconnect, Join, Look, Use, Release, Begin, Return, Goto,
            TypeOK, Phase
      <4>2. CASE v # w
        BY <2>1, <3>1, <4>2, RootsIsNoWorker
        DEF RadioSteps, RequestSteps, NetInit, Connect, AllIdle, LinkStep, BringUp, Redial, Dial,
            Await, AwaitFails, Down, Get, Disconnect, Join, Look, Use, Release, Begin, Return,
            Goto, TypeOK, Phase
      <4>3. QED
        BY <4>1, <4>2
    <3>2. ASSUME NEW p \in Procs, RootsStep(p)
          PROVE  FALSE
      BY <2>1, <3>2, RootsIsNoWorker
      DEF RootsStep, Load, WolfInit, Parse, Publish, GiveUpLoad, Return, Goto, TypeOK, Phase
    <3>3. QED
      BY <2>1, <3>1, <3>2, StepKinds DEF LinkChanges, TooLate, Phase
  <2>3. /\ pc[w] = "down" /\ held' = {} /\ ~connected' /\ pooled' = pooled
        /\ UNCHANGED roots /\ pc'[Roots] = pc[Roots]
    BY <2>1, <2>2, RootsIsNoWorker DEF Down, LinkDown, Return, Goto, TypeOK
  <2>4. pc[Roots] = "idle" /\ ~thread /\ ctx = NoCtx
    BY <2>3, AloneWithoutThread DEF Emptied, Joined
  <2>5. \A p \in Procs : ~InHand(p)
    BY <2>1, <2>3, <2>4 DEF InHand, Procs
  <2>6. live = {}
    BY <2>4, <2>5 DEF Held, ContextHeld
  <2>7. QED
    BY <2>1, <2>3, <2>4, <2>6 DEF roots
<1>2. Init => Emptied
  BY DEF Init, Emptied
<1>3. TypeOK /\ Serial /\ (Stacked /\ Joined /\ Held /\ Emptied) /\ [Next]_vars
      => (Stacked /\ Joined /\ Held /\ Emptied)'
  BY StackedStep, JoinedStep, HeldStep, EmptiedStep
<1>4. QED
  BY <1>1, <1>2, <1>3, StackedInit, JoinedInit, HeldInit, SerialHolds, PTL DEF Spec, TornDown
-----------------------------------------------------------------------------
(* The context that RootsCell sees *)

LEMMA CellStays ==
  ASSUME TypeOK, HandsOff
  PROVE  UNCHANGED Cell!cellVars
<1> DEFINE using == [w \in Workers |-> IF pc[w] = "use" THEN mine[w] ELSE NoCtx]
<1>1. \A w \in Workers : pc'[w] = "use" <=> pc[w] = "use"
  BY RootsIsNoWorker DEF HandsOff, InHand
<1>2. using' = using
  BY <1>1 DEF HandsOff
<1>3. QED
  BY <1>2 DEF HandsOff, Cell!cellVars

LEMMA CellLooks ==
  ASSUME TypeOK, Held, NEW w \in Workers, Look(w)
  PROVE  Cell!Borrow(w) \/ UNCHANGED Cell!cellVars
<1> DEFINE using == [v \in Workers |-> IF pc[v] = "use" THEN mine[v] ELSE NoCtx]
<1>1. /\ pc[w] = "look" /\ w \in Procs /\ UNCHANGED <<ctx, live>>
      /\ mine' = [mine EXCEPT ![w] = ctx]
      /\ pc' = [pc EXCEPT ![w] = IF ctx # NoCtx THEN "use" ELSE "load"]
  BY RootsIsNoWorker DEF Look, Goto
<1>2. \A v \in Workers :
        /\ mine'[v] = IF v = w THEN ctx ELSE mine[v]
        /\ pc'[v] = IF v # w THEN pc[v] ELSE IF ctx # NoCtx THEN "use" ELSE "load"
  BY <1>1, RootsIsNoWorker DEF TypeOK
<1>3. using' = [using EXCEPT ![w] = ctx] /\ using[w] = NoCtx
  BY <1>1, <1>2
<1>4. ctx = NoCtx => using' = using
  BY <1>3
<1>5. QED
  BY <1>1, <1>3, <1>4 DEF Cell!Borrow, Cell!cellVars

LEMMA CellUses ==
  ASSUME TypeOK, NEW w \in Workers, Use(w)
  PROVE  Cell!HandBack(w)
<1> DEFINE using == [v \in Workers |-> IF pc[v] = "use" THEN mine[v] ELSE NoCtx]
<1>1. /\ UNCHANGED <<ctx, live>> /\ mine' = [mine EXCEPT ![w] = NoCtx]
      /\ pc' = [pc EXCEPT ![w] = "idle"]
  BY DEF Use, Return, Goto
<1>2. using' = [using EXCEPT ![w] = NoCtx]
  BY <1>1, RootsIsNoWorker DEF TypeOK
<1>3. QED
  BY <1>1, <1>2 DEF Cell!HandBack

(* A release is alone, with the thread waited for. *)
LEMMA CellReleases ==
  ASSUME TypeOK, Serial, Joined, Held, NEW w \in Workers, Release(w)
  PROVE  Cell!GiveUp
<1> DEFINE using == [v \in Workers |-> IF pc[v] = "use" THEN mine[v] ELSE NoCtx]
<1>1. /\ pc[w] = "release" /\ op[w] = "disconnect" /\ pc[Roots] = "idle"
      /\ ctx' = NoCtx /\ live' = live \ {ctx} /\ UNCHANGED mine
      /\ pc' = [pc EXCEPT ![w] = "down"]
  BY AloneWithoutThread DEF Release, Goto, Serial, Phase
<1>2. \A p \in Procs : p # w => pc[p] = "idle"
  BY <1>1 DEF Serial, Phase, Alone, Procs
<1>3. \A p \in Procs : mine[p] = NoCtx
  BY <1>1, <1>2 DEF Held, InHand
<1>4. live \ {ctx} = {} /\ live' \ {ctx'} = {}
  BY <1>1, <1>3 DEF Held, ContextHeld
<1>5. \A v \in Workers : using[v] = NoCtx /\ using'[v] = NoCtx
  BY <1>1, <1>3, RootsIsNoWorker
<1>6. using' = using
  BY <1>5
<1>7. QED
  BY <1>1, <1>4, <1>5, <1>6 DEF Cell!GiveUp

LEMMA CellParses ==
  ASSUME TypeOK, Serial, Joined, Held, NEW p \in Procs, Parse(p)
  PROVE  Cell!Prepare \/ UNCHANGED Cell!cellVars
<1> DEFINE using == [v \in Workers |-> IF pc[v] = "use" THEN mine[v] ELSE NoCtx]
<1>1. pc[p] = "parse" /\ UNCHANGED ctx
  BY DEF Parse
<1>2. pc'[p] # "use" /\ \A q \in Procs : q # p => pc'[q] = pc[q] /\ mine'[q] = mine[q]
  BY DEF Parse, GiveUpLoad, Return, Goto, TypeOK
<1>3. using' = using
  BY <1>1, <1>2, RootsIsNoWorker
<1>4. ASSUME NEW c \in Ctxs \ live, live' = live \cup {c}
      PROVE  Cell!Prepare
  <2>1. c # ctx
    BY ProcessAssumption DEF Held, ContextHeld
  <2>2. c \in Ctxs \ ((live \ {ctx}) \cup {ctx})
    BY <1>4, <2>1
  <2>3. live' \ {ctx'} = (live \ {ctx}) \cup {c}
    BY <1>1, <1>4, <2>1
  <2>4. QED
    BY <1>1, <1>3, <2>2, <2>3 DEF Cell!Prepare
<1>5. CASE UNCHANGED live
  BY <1>1, <1>3, <1>5 DEF Cell!cellVars
<1>6. QED
  BY <1>4, <1>5 DEF Parse

LEMMA CellPublishes ==
  ASSUME TypeOK, Held, NEW p \in Procs, Publish(p)
  PROVE  Cell!Offer
<1> DEFINE using == [v \in Workers |-> IF pc[v] = "use" THEN mine[v] ELSE NoCtx]
<1>1. /\ pc[p] = "publish" /\ mine[p] # NoCtx /\ mine[p] # ctx
      /\ ctx' = IF ctx = NoCtx THEN mine[p] ELSE ctx
      /\ live' = IF ctx = NoCtx THEN live ELSE live \ {mine[p]}
      /\ mine' = [mine EXCEPT ![p] = IF p = Roots THEN NoCtx ELSE ctx']
      /\ pc' = [pc EXCEPT ![p] = IF p = Roots THEN "ended" ELSE "use"]
  BY DEF Publish, Goto, Held
<1>2. mine[p] \in live \ {ctx}
  BY <1>1 DEF Held, ContextHeld
<1>3. live' \ {ctx'} = (live \ {ctx}) \ {mine[p]}
  BY <1>1 DEF Held, ContextHeld
<1>4. \A v \in Workers :
        /\ mine'[v] = IF v = p THEN ctx' ELSE mine[v]
        /\ pc'[v] = IF v = p THEN "use" ELSE pc[v]
  BY <1>1, RootsIsNoWorker DEF TypeOK
<1>5. p = Roots => using' = using
  BY <1>4, RootsIsNoWorker
<1>6. p # Roots => p \in Workers /\ using[p] = NoCtx /\ using' = [using EXCEPT ![p] = ctx']
  BY <1>1, <1>4 DEF Procs
<1>7. QED
  BY <1>1, <1>2, <1>3, <1>5, <1>6 DEF Cell!Offer

(* Whoever parses the roots, requests share the context published first, and *)
(* it is freed only when no request has it and none is being parsed.         *)
THEOREM RootsCellImplemented == Spec => ImplementsRootsCell
<1>1. Init => Cell!CellInit
  <2>1. ASSUME Init
        PROVE  Cell!CellInit
    <3>1. \A w \in Workers : pc[w] # "use"
      BY <2>1, RootsIsNoWorker DEF Init
    <3>2. QED
      BY <2>1, <3>1 DEF Init, Cell!CellInit
  <2>2. QED
    BY <2>1
<1>2. TypeOK /\ Serial /\ (Joined /\ Held) /\ [Next]_vars => [Cell!CellNext]_(Cell!cellVars)
  BY ContextSteps, CellStays, CellLooks, CellUses, CellReleases, CellParses, CellPublishes
  DEF Cell!CellNext
<1>3. TypeOK /\ Serial /\ (Joined /\ Held) /\ [Next]_vars => (Joined /\ Held)'
  BY JoinedStep, HeldStep
<1>4. QED
  BY <1>1, <1>2, <1>3, JoinedInit, HeldInit, SerialHolds, PTL
  DEF Spec, ImplementsRootsCell, Cell!CellSpec
=============================================================================
