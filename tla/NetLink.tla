------------------------------ MODULE NetLink ------------------------------
(***************************************************************************)
(* Bringing the radio up and down in src/https.c, and the context with the *)
(* parsed roots that every handshake uses: https_net_init,                 *)
(* https_net_connect, https_net_disconnect, the thread that parses the     *)
(* roots meanwhile, and the requests that wait for it.                     *)
(*                                                                         *)
(* Callers serialise init, connect and disconnect with everything else, as *)
(* the header asks; requests may run beside each other.                    *)
(***************************************************************************)
EXTENDS Integers, FiniteSets

CONSTANTS
  Workers,       \* threads that connect, request and disconnect
  Roots,         \* the thread roots_start makes
  Ctxs, NoCtx    \* what wolfSSL_CTX_new can return, and NULL

ASSUME ProcessAssumption == Roots \notin Workers /\ NoCtx \notin Ctxs

Procs == Workers \cup {Roots}

(* The order net_init brings them up in *)
Layers == 1..6  \* common module, inet module, net, inet, resolver, apctl
Apctl == 6

VARIABLES
  pc, op,      \* where each process stands, and the call a worker is in
  held,        \* the layers g_net has flags for
  connected,   \* g_net.connected
  manual,      \* g_manual_connect
  link,        \* external: what sceNetApctlGetState would say
  ctx,         \* g_ctx
  live,        \* external: the contexts wolfSSL has allocated
  mine,        \* the context each process has in hand
  thread,      \* g_roots_thread >= 0
  joined,      \* the handle each worker took out of g_roots_thread
  wolfReady,   \* g_wolf_ready
  pooled,      \* g_idle holds a connection
  late         \* https_abort was called, or CONNECT_TIMEOUT_MS is over

radio == <<held, connected, manual, link, pooled, late>>
roots == <<ctx, live, mine, thread, joined, wolfReady>>
vars == <<pc, op, radio, roots>>

Ops == {"none", "init", "connect", "get", "disconnect"}
PCs == {"idle", "up", "dial", "await", "down", "redial",       \* the link
        "join", "look", "release",                             \* roots_join and after
        "load", "winit", "parse", "publish", "use", "ended"}   \* roots_load and after

TypeOK ==
  /\ pc \in [Procs -> PCs] /\ op \in [Workers -> Ops]
  /\ held \in SUBSET Layers
  /\ connected \in BOOLEAN /\ manual \in BOOLEAN
  /\ link \in {"none", "asking", "ip"}
  /\ ctx \in Ctxs \cup {NoCtx} /\ live \in SUBSET Ctxs
  /\ mine \in [Procs -> Ctxs \cup {NoCtx}]
  /\ thread \in BOOLEAN /\ joined \in [Workers -> BOOLEAN]
  /\ wolfReady \in BOOLEAN
  /\ pooled \in BOOLEAN /\ late \in BOOLEAN

Init ==
  /\ pc = [p \in Procs |-> "idle"] /\ op = [w \in Workers |-> "none"]
  /\ held = {} /\ connected = FALSE /\ manual = FALSE /\ link = "none"
  /\ ctx = NoCtx /\ live = {} /\ mine = [p \in Procs |-> NoCtx]
  /\ thread = FALSE /\ joined = [w \in Workers |-> FALSE]
  /\ wolfReady = FALSE
  /\ pooled = FALSE /\ late = FALSE

Goto(p, step) == pc' = [pc EXCEPT ![p] = step]
Return(w) == Goto(w, "idle") /\ op' = [op EXCEPT ![w] = "none"]
Begin(w, name, step) == Goto(w, step) /\ op' = [op EXCEPT ![w] = name]

AllIdle == \A w \in Workers : pc[w] = "idle"
-----------------------------------------------------------------------------
(* The link *)

(* link_down *)
LinkDownHolding ==                                                  \* mutant
  /\ held' = held \cap {5} /\ connected' = FALSE
  /\ link' = "none"
  /\ UNCHANGED <<manual, pooled, late>>
LinkDown ==
  /\ held' = {} /\ connected' = FALSE
  /\ link' = "none"
  /\ UNCHANGED <<manual, pooled, late>>

(* https_net_init, on the main thread with no worker running *)
NetInit(w) ==
  /\ AllIdle
  /\ manual' = TRUE
  /\ Begin(w, "init", "up")
  /\ UNCHANGED <<held, connected, link, pooled, late, roots>>

(* One call of net_init, or the end of it *)
BringUp(w) ==
  /\ pc[w] = "up"
  /\ IF Apctl \in held
     THEN /\ IF op[w] = "init" THEN Return(w) ELSE Goto(w, "dial") /\ UNCHANGED op
          /\ UNCHANGED radio
     ELSE \E n \in Layers :
            /\ \A k \in Layers : k \in held <=> k < n
            /\ \/ held' = held \cup {n} /\ UNCHANGED <<pc, op, connected, manual, link, pooled, late>>
               \/ Goto(w, "down") /\ UNCHANGED <<op, radio>>
  /\ UNCHANGED roots

(* roots_start, then one of connect's four ways in *)
StartRoots(started) ==
  /\ started => ctx = NoCtx /\ ~thread
  /\ thread' = (thread \/ started)
  /\ UNCHANGED <<ctx, live, mine, joined, wolfReady>>

WayInPastDialog(there) ==                                           \* mutant
  IF (manual \/ connected) /\ there THEN "idle" ELSE IF connected THEN "redial" ELSE "up"
WayIn(there) ==
  IF manual \/ (connected /\ there) THEN "idle" ELSE IF connected THEN "redial" ELSE "up"

(* A link found gone closes the idle connections. *)
PoolAfterKept(there) == pooled                                      \* mutant
PoolAfter(there) ==
  pooled /\ ~(manual /\ ~(there /\ Apctl \in held)) /\ ~(connected /\ ~there)

Connect(w) ==
  /\ AllIdle
  /\ late' = FALSE
  /\ \E started, known \in BOOLEAN :   \* known: sceNetApctlGetState answers
       LET there == known /\ link = "ip"
       IN /\ StartRoots(started)
          /\ pc' = [p \in Procs |-> IF p = w THEN WayIn(there)
                                    ELSE IF p = Roots /\ started THEN "load" ELSE pc[p]]
          /\ op' = [op EXCEPT ![w] = IF WayIn(there) = "idle" THEN "none" ELSE "connect"]
          /\ connected' = IF manual THEN Apctl \in held /\ there ELSE connected
          /\ pooled' = PoolAfter(there)
  /\ UNCHANGED <<held, manual, link>>

(* The link was lost: the stack is taken down before it is brought up again. *)
Redial(w) ==
  /\ pc[w] = "redial"
  /\ LinkDown
  /\ Goto(w, "up")
  /\ UNCHANGED <<op, roots>>

Dial(w) ==
  /\ pc[w] = "dial"
  /\ \/ connected' = TRUE /\ link' = "asking" /\ Goto(w, "await")
     \/ Goto(w, "down") /\ UNCHANGED <<connected, link>>
  /\ UNCHANGED <<op, held, manual, pooled, late, roots>>

(* A poll of the access point that ends the wait: with an address, because it *)
(* took too long, or because the state is not to be had.                            *)
Await(w) ==
  /\ pc[w] = "await"
  /\ IF link = "ip" THEN Return(w) ELSE late /\ Goto(w, "down") /\ UNCHANGED op
  /\ UNCHANGED <<radio, roots>>

AwaitFails(w) ==
  /\ pc[w] = "await"
  /\ Goto(w, "down")
  /\ UNCHANGED <<op, radio, roots>>

Down(w) ==
  /\ pc[w] = "down"
  /\ LinkDown
  /\ Return(w)
  /\ UNCHANGED roots

(* External: the access point answers or goes away, and the dialog connects. *)
LinkChanges ==
  /\ \/ link = "asking" /\ link' \in {"ip", "none"}
     \/ link = "ip" /\ link' = "none"
     \/ link = "none" /\ manual /\ Apctl \in held /\ AllIdle /\ link' = "ip"
  /\ UNCHANGED <<pc, op, held, connected, manual, pooled, late, roots>>

(* https_abort, or the time is over *)
TooLate ==
  /\ late' = TRUE
  /\ UNCHANGED <<pc, op, held, connected, manual, link, pooled, roots>>
-----------------------------------------------------------------------------
(* The roots *)

(* roots_join takes the handle, so that only one caller waits for it. *)
TakeThreadShared(w) ==                                              \* mutant
  joined' = [joined EXCEPT ![w] = thread] /\ thread' = thread
TakeThread(w) ==
  joined' = [joined EXCEPT ![w] = thread] /\ thread' = FALSE

(* A request on a fresh connection needs the context. *)
Get(w) ==
  /\ pc[w] = "idle" /\ connected
  /\ \A v \in Workers : op[v] \in {"none", "get"}
  /\ Begin(w, "get", "join")
  /\ TakeThread(w)
  /\ UNCHANGED <<radio, ctx, live, mine, wolfReady>>

(* https_net_disconnect, up to the wait in roots_release *)
Disconnect(w) ==
  /\ AllIdle
  /\ Begin(w, "disconnect", "join")
  /\ TakeThread(w)
  /\ pooled' = FALSE
  /\ UNCHANGED <<held, connected, manual, link, late, ctx, live, mine, wolfReady>>

(* The end of roots_join: the thread is waited for and deleted. *)
Join(w) ==
  /\ pc[w] = "join"
  /\ joined[w] => pc[Roots] = "ended"
  /\ joined' = [joined EXCEPT ![w] = FALSE]
  /\ LET step == IF op[w] = "get" THEN "look" ELSE "release"
     IN pc' = [p \in Procs |-> IF p = w THEN step
                               ELSE IF p = Roots /\ joined[w] THEN "idle" ELSE pc[p]]
  /\ UNCHANGED <<op, radio, ctx, live, mine, thread, wolfReady>>

(* roots_ready: the context is there, or this worker parses the roots. *)
Look(w) ==
  /\ pc[w] = "look"
  /\ mine' = [mine EXCEPT ![w] = ctx]
  /\ Goto(w, IF ctx # NoCtx THEN "use" ELSE "load")
  /\ UNCHANGED <<op, radio, ctx, live, thread, joined, wolfReady>>

(* roots_load fails, and with it the request *)
GiveUpLoad(p) ==
  IF p = Roots THEN Goto(p, "ended") /\ UNCHANGED op ELSE Return(p)

Load(p) ==
  /\ pc[p] = "load"
  /\ Goto(p, IF wolfReady THEN "parse" ELSE "winit")
  /\ UNCHANGED <<op, radio, roots>>

WolfInit(p) ==
  /\ pc[p] = "winit"
  /\ \/ wolfReady' = TRUE /\ Goto(p, "parse") /\ UNCHANGED op
     \/ GiveUpLoad(p) /\ UNCHANGED wolfReady
  /\ UNCHANGED <<radio, ctx, live, mine, thread, joined>>

Parse(p) ==
  /\ pc[p] = "parse"
  /\ \/ \E c \in Ctxs \ live :
          /\ live' = live \cup {c}
          /\ mine' = [mine EXCEPT ![p] = c]
          /\ Goto(p, "publish") /\ UNCHANGED op
     \/ GiveUpLoad(p) /\ UNCHANGED <<live, mine>>
  /\ UNCHANGED <<radio, ctx, thread, joined, wolfReady>>

(* roots_publish: the first context stays, a later one goes. *)
PublishLatest(p) ==                                                 \* mutant
  /\ pc[p] = "publish"
  /\ ctx' = mine[p]
  /\ live' = live \ {ctx}
  /\ mine' = [mine EXCEPT ![p] = IF p = Roots THEN NoCtx ELSE ctx']
  /\ Goto(p, IF p = Roots THEN "ended" ELSE "use")
  /\ UNCHANGED <<op, radio, thread, joined, wolfReady>>
Publish(p) ==
  /\ pc[p] = "publish"
  /\ ctx' = IF ctx = NoCtx THEN mine[p] ELSE ctx
  /\ live' = IF ctx = NoCtx THEN live ELSE live \ {mine[p]}
  /\ mine' = [mine EXCEPT ![p] = IF p = Roots THEN NoCtx ELSE ctx']
  /\ Goto(p, IF p = Roots THEN "ended" ELSE "use")
  /\ UNCHANGED <<op, radio, thread, joined, wolfReady>>

(* The rest of the request, which may leave a connection in g_idle *)
Use(w) ==
  /\ pc[w] = "use"
  /\ mine' = [mine EXCEPT ![w] = NoCtx]
  /\ pooled' \in {pooled, TRUE}
  /\ Return(w)
  /\ UNCHANGED <<held, connected, manual, link, late, ctx, live, thread, joined, wolfReady>>

(* The end of roots_release, and wolfSSL_Cleanup *)
ReleaseKept(w) ==                                                   \* mutant
  /\ pc[w] = "release"
  /\ ctx' = NoCtx
  /\ wolfReady' = FALSE
  /\ Goto(w, "down")
  /\ UNCHANGED <<op, radio, live, mine, thread, joined>>
Release(w) ==
  /\ pc[w] = "release"
  /\ live' = live \ {ctx}
  /\ ctx' = NoCtx
  /\ wolfReady' = FALSE
  /\ Goto(w, "down")
  /\ UNCHANGED <<op, radio, mine, thread, joined>>
-----------------------------------------------------------------------------
LinkStep(w) ==
  BringUp(w) \/ Redial(w) \/ Dial(w) \/ Await(w) \/ Down(w)
RootsStep(p) == Load(p) \/ WolfInit(p) \/ Parse(p) \/ Publish(p)
Step(w) ==
  \/ NetInit(w) \/ Connect(w) \/ Get(w) \/ Disconnect(w)
  \/ LinkStep(w) \/ AwaitFails(w) \/ RootsStep(w) \/ Join(w) \/ Look(w) \/ Use(w) \/ Release(w)

Next == RootsStep(Roots) \/ LinkChanges \/ TooLate \/ \E w \in Workers : Step(w)

Spec == Init /\ [][Next]_vars

(* Threads keep running and the clock passes CONNECT_TIMEOUT_MS; of the      *)
(* access point nothing is assumed.                                          *)
Fairness ==
  /\ WF_vars(TooLate)
  /\ WF_vars(RootsStep(Roots))
  /\ \A w \in Workers :
       /\ WF_vars(LinkStep(w)) /\ WF_vars(RootsStep(w))
       /\ WF_vars(Join(w) \/ Look(w) \/ Use(w) \/ Release(w))

FairSpec == Spec /\ Fairness
-----------------------------------------------------------------------------
(* Properties *)

(* The layers that are up are always the lowest ones: whichever call of      *)
(* net_init fails and whatever was lost, none is brought up on a missing one *)
(* or left behind when those below it are gone; and a connection in g_idle   *)
(* never outlives the stack under its socket.                                *)
LayersStacked ==
  /\ \E n \in 0..6 : held = 1..n
  /\ connected => Apctl \in held
  /\ pooled => connected
  /\ AllIdle => held \in {{}, Layers}

(* A context that a handshake or a parser has in hand has not been freed,    *)
(* and one that nobody has in hand and nobody published is not left behind.  *)
ContextHeld ==
  live = ({ctx} \cup {mine[p] : p \in Procs}) \ {NoCtx}

(* Whoever parses the roots and however often, all requests use the one       *)
(* context that was published first, and it is freed when nobody has it.      *)
Cell == INSTANCE RootsCell
          WITH shared <- ctx, spare <- live \ {ctx},
               using <- [w \in Workers |-> IF pc[w] = "use" THEN mine[w] ELSE NoCtx]
ImplementsRootsCell == Cell!CellSpec

(* After disconnect nothing is left: no layer, no thread, no context.        *)
TornDown ==
  [][\A w \in Workers : op[w] = "disconnect" /\ pc'[w] = "idle" =>
       /\ held' = {} /\ ~connected' /\ ~pooled'
       /\ ~thread' /\ pc'[Roots] = "idle" /\ live' = {}]_vars

(* Once the dialog has been chosen, no worker picks profile 1 by itself.     *)
ManualNeverDials == [][manual => \A w \in Workers : pc'[w] # "await"]_vars

(* Every call comes back: the wait for the access point has its budget, and  *)
(* the roots thread is never waited for after it is gone.                    *)
CallsReturn == \A w \in Workers : pc[w] # "idle" ~> pc[w] = "idle"

(* roots_ready waits for the thread when one is at work.                     *)
OneParser == Cardinality({p \in Procs : pc[p] \in {"load", "winit", "parse"}}) <= 1
=============================================================================
