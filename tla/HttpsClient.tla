---------------------------- MODULE HttpsClient ----------------------------
(***************************************************************************)
(* The request engine of src/https.c: https_get, the attempts it makes    *)
(* through request_with, the pool of idle connections, the handshake lock, *)
(* the abort flag and the deadlines.  The link is up throughout: bringing  *)
(* it up and down is NetLink's subject.  Of a response only what the       *)
(* parser decides is kept: a bad head, a redirect, a length, a body.       *)
(*                                                                         *)
(* Time is a set of stopwatches that Tick advances together and that stop  *)
(* just past the largest budget they are compared with, which is all the   *)
(* code's "now - start > budget" can tell.                                 *)
(***************************************************************************)
EXTENDS Integers, FiniteSets

CONSTANTS
  Workers,          \* threads that call https_get; the header allows one
  Hosts,            \* the host:port pairs a connection can go to
  Conns,            \* addresses calloc can return for a struct connection
  NoConn, NoHost, NoWorker,
  Slots,            \* IDLE_SLOTS
  IdleBudget,       \* IDLE_MS
  ConnectBudget, HandshakeBudget, StallBudget,
  TimeLimits,       \* what https_set_time_limit may be given; 0 is no limit
  MaxRedirects,     \* MAX_REDIRECTS
  MaxBody           \* bound of the model: the longest body announced, and
                    \* where the count of an endless one stops

ASSUME SentinelAssumption ==
  NoConn \notin Conns /\ NoHost \notin Hosts /\ NoWorker \notin Workers
ASSUME SizeAssumption ==
  /\ Slots \in Nat \ {0}
  /\ {IdleBudget, ConnectBudget, HandshakeBudget, StallBudget} \subseteq Nat
  /\ {MaxRedirects, MaxBody} \subseteq Nat
  /\ 0 \in TimeLimits /\ TimeLimits \subseteq Nat

VARIABLES
  pc,          \* where each worker stands in https_get and request_with
  get,         \* https_get's locals, kept with its outcome until the next get
  req,         \* request_with's locals and the result fields it fills
  conn,        \* request_with's struct connection
  slots,       \* g_idle
  peer,        \* host:port of each allocated connection, NoHost when freed
  idleAge,     \* time since idle_at, for the connections in g_idle
  shaker,      \* holder of g_handshake_lock
  verifyHost,  \* g_verify_host
  abort,       \* g_abort
  limit,       \* g_time_limit_s
  spent,       \* time since g_get_start, one for all workers
  owed,        \* connections with more on them than was read as an answer: it is
               \* not whole yet, or bytes past its end have been seen
  sunk,        \* bytes the sink accepted since the get began
  saw          \* this get has found the flag set and given up a wait for it

vars == <<pc, get, req, conn, slots, peer, idleAge, shaker, verifyHost, abort,
          limit, spent, owed, sunk, saw>>

ownership == <<conn, slots, peer, idleAge, owed>>

Index == 1..Slots
Budgets == {IdleBudget, ConnectBudget, HandshakeBudget, StallBudget}
PCs == {"idle", "start", "dns", "connect", "setup", "lock", "shake", "send",
        "top", "read", "out", "after"}

(* request_with's return value: < 0, 1, 0 and 2 *)
Rets == {"fail", "body", "done", "redirect"}
Outcomes == {"none", "failed", "complete", "truncated"}

Live == {c \in Conns : peer[c] # NoHost}
Idle == {slots[i] : i \in Index} \ {NoConn}
Busy(w) == pc[w] # "idle"

GetLocals == [url: Hosts \cup {NoHost}, next: Hosts \cup {NoHost}, hops: 0..MaxRedirects,
              again: BOOLEAN, outcome: Outcomes]
ReqLocals == [ret: Rets, reused: BOOLEAN, stale: BOOLEAN, keep: BOOLEAN, head: BOOLEAN,
              sized: BOOLEAN, want: 0..MaxBody, got: 0..MaxBody, wait: Nat]

TypeOK ==
  /\ pc \in [Workers -> PCs]
  /\ get \in [Workers -> GetLocals]
  /\ req \in [Workers -> ReqLocals]
  /\ conn \in [Workers -> Conns \cup {NoConn}]
  /\ slots \in [Index -> Conns \cup {NoConn}]
  /\ peer \in [Conns -> Hosts \cup {NoHost}]
  /\ idleAge \in [Conns -> Nat]
  /\ shaker \in Workers \cup {NoWorker}
  /\ verifyHost \in Hosts \cup {NoHost}
  /\ abort \in BOOLEAN
  /\ limit \in TimeLimits
  /\ spent \in Nat
  /\ owed \in SUBSET Conns
  /\ sunk \in [Workers -> Nat]
  /\ saw \in [Workers -> BOOLEAN]

FreshReq == [ret |-> "fail", reused |-> FALSE, stale |-> FALSE, keep |-> FALSE,
             head |-> FALSE, sized |-> FALSE, want |-> 0, got |-> 0, wait |-> 0]

(* Between two gets only the outcome of the last one is left. *)
Ended(outcome) == [url |-> NoHost, next |-> NoHost, hops |-> 0, again |-> FALSE,
                   outcome |-> outcome]

Init ==
  /\ pc = [w \in Workers |-> "idle"]
  /\ get = [w \in Workers |-> Ended("none")]
  /\ req = [w \in Workers |-> FreshReq]
  /\ conn = [w \in Workers |-> NoConn]
  /\ slots = [i \in Index |-> NoConn]
  /\ peer = [c \in Conns |-> NoHost]
  /\ idleAge = [c \in Conns |-> 0]
  /\ shaker = NoWorker
  /\ verifyHost = NoHost
  /\ abort = FALSE
  /\ limit = 0
  /\ spent = 0
  /\ owed = {}
  /\ sunk = [w \in Workers |-> 0]
  /\ saw = [w \in Workers |-> FALSE]
-----------------------------------------------------------------------------
(* Clocks *)

OverTime == limit > 0 /\ spent >= limit

Budget(w) == CASE pc[w] = "connect" -> ConnectBudget
               [] pc[w] = "shake"   -> HandshakeBudget
               [] OTHER             -> StallBudget

Expired(w) == req[w].wait > Budget(w)

(* What stops a wait: https_abort, the limit on the whole get, its own budget *)
MustStopNoLimit(w) == abort \/ Expired(w)                          \* mutant
MustStop(w) == abort \/ OverTime \/ Expired(w)

Timed == {"connect", "shake", "send", "top", "read"}

(* A stopwatch stops one past the budget it is read against. *)
Advance(t, budget) == IF t > budget THEN t ELSE t + 1

Tick ==
  /\ req' = [w \in Workers |->
               IF pc[w] \in Timed
               THEN [req[w] EXCEPT !.wait = Advance(@, Budget(w))]
               ELSE req[w]]
  /\ idleAge' = [c \in Conns |->
                   IF c \in Idle THEN Advance(idleAge[c], IdleBudget) ELSE idleAge[c]]
  /\ spent' = IF spent < limit THEN spent + 1 ELSE spent
  /\ UNCHANGED <<pc, get, conn, slots, peer, shaker, verifyHost, abort, limit, owed, sunk, saw>>
-----------------------------------------------------------------------------
(* The idle pool, each operation under g_lock *)

(* close_connection on every member of S *)
FreeAll(S) ==
  /\ peer' = [c \in Conns |-> IF c \in S THEN NoHost ELSE peer[c]]
  /\ owed' = owed \ S

Stale(i) == slots[i] # NoConn /\ idleAge[slots[i]] > IdleBudget
MatchAnyHost(i, u) == slots[i] # NoConn /\ ~Stale(i)                 \* mutant
Match(i, u) == slots[i] # NoConn /\ ~Stale(i) /\ peer[slots[i]] = u

(* take_idle: the first slot that matches ends the scan, and what the scan *)
(* met before it and found too old is closed.                              *)
TakeIdle(w, u) ==
  LET hits == {i \in Index : Match(i, u)}
      first == {i \in hits : \A j \in hits : i <= j}
      met == {i \in Index : Stale(i) /\ \A j \in hits : i < j}
      gone == {slots[i] : i \in met \cup first}
  IN /\ slots' = [i \in Index |-> IF i \in met \cup first THEN NoConn ELSE slots[i]]
     /\ IF hits = {} THEN conn' = conn
        ELSE \E i \in first : conn' = [conn EXCEPT ![w] = slots[i]]
     /\ FreeAll({slots[i] : i \in met})
     /\ idleAge' = [c \in Conns |-> IF c \in gone THEN 0 ELSE idleAge[c]]

(* save_idle: the first free slot, else the slot that has been idle longest. *)
(* Past IdleBudget the stopwatches no longer tell which that is.             *)
IsSlotToFill(i) ==
  LET free == {j \in Index : slots[j] = NoConn}
  IN IF free # {} THEN i \in free /\ \A j \in free : i <= j
     ELSE \A j \in Index :
            /\ idleAge[slots[j]] <= idleAge[slots[i]]
            /\ j < i /\ idleAge[slots[j]] = idleAge[slots[i]]
                 => idleAge[slots[i]] > IdleBudget

SaveIdleLeaking(w) ==                                               \* mutant
  \E i \in Index :
    /\ IsSlotToFill(i)
    /\ slots' = [slots EXCEPT ![i] = conn[w]]
    /\ idleAge' = [c \in Conns |-> IF c \in {slots[i], conn[w]} THEN 0 ELSE idleAge[c]]
    /\ UNCHANGED <<peer, owed>>

SaveIdle(w) ==
  \E i \in Index :
    /\ IsSlotToFill(i)
    /\ slots' = [slots EXCEPT ![i] = conn[w]]
    /\ FreeAll({slots[i]})
    /\ idleAge' = [c \in Conns |-> IF c \in {slots[i], conn[w]} THEN 0 ELSE idleAge[c]]

(* https_close_idle, and https_set_cipher_suites which calls it *)
CloseIdle ==
  /\ slots' = [i \in Index |-> NoConn]
  /\ FreeAll(Idle)
  /\ idleAge' = [c \in Conns |-> 0]
  /\ UNCHANGED <<pc, get, req, conn, shaker, verifyHost, abort, limit, spent, sunk, saw>>
-----------------------------------------------------------------------------
(* https_abort, from any thread or a callback *)
Abort ==
  /\ abort' = TRUE
  /\ UNCHANGED <<pc, get, req, conn, slots, peer, idleAge, shaker, verifyHost,
                 limit, spent, owed, sunk, saw>>

(* https_set_time_limit, between requests *)
SetTimeLimit ==
  /\ \A w \in Workers : ~Busy(w)
  /\ limit' \in TimeLimits
  /\ UNCHANGED <<pc, get, req, ownership, shaker, verifyHost, abort, spent, sunk, saw>>

(* https_get up to its loop; a refused URL or User-Agent ends it there. *)
Get(w, u) ==
  /\ pc[w] = "idle"
  /\ abort' = FALSE
  /\ spent' = 0
  /\ \E ok \in BOOLEAN :
       /\ get' = [get EXCEPT ![w] =
                    IF ok THEN [Ended("none") EXCEPT !.url = u] ELSE Ended("failed")]
       /\ pc' = [pc EXCEPT ![w] = IF ok THEN "start" ELSE "idle"]
  /\ req' = [req EXCEPT ![w] = FreshReq]
  /\ sunk' = [sunk EXCEPT ![w] = 0]
  /\ saw' = [saw EXCEPT ![w] = FALSE]
  /\ UNCHANGED <<ownership, shaker, verifyHost, limit>>

(* one_request and the head of request_with: no memory, over the limit, a   *)
(* reused connection, or a fresh one to look up and dial.                   *)
Attempt(w) ==
  /\ pc[w] = "start"
  /\ \/ /\ pc' = [pc EXCEPT ![w] = "after"]
        /\ req' = [req EXCEPT ![w] = FreshReq]
        /\ UNCHANGED ownership
     \/ /\ ~OverTime
        /\ TakeIdle(w, get[w].url)
        /\ LET hit == conn'[w] # NoConn
           IN /\ pc' = [pc EXCEPT ![w] = IF hit THEN "send" ELSE "dns"]
              /\ req' = [req EXCEPT ![w] = [FreshReq EXCEPT !.reused = hit]]
  /\ UNCHANGED <<get, shaker, verifyHost, abort, limit, spent, sunk, saw>>

GoOut(w) == pc' = [pc EXCEPT ![w] = "out"]

(* resolve, calloc, socket and the first connect: the lookup or calloc may  *)
(* fail before there is anything to release, the socket calls after.        *)
Dial(w) ==
  /\ pc[w] = "dns"
  /\ \/ pc' = [pc EXCEPT ![w] = "after"] /\ UNCHANGED <<peer, conn>>
     \/ \E c \in Conns \ Live :
          /\ peer' = [peer EXCEPT ![c] = get[w].url]
          /\ conn' = [conn EXCEPT ![w] = c]
          /\ \E p \in {"connect", "out"} : pc' = [pc EXCEPT ![w] = p]
  /\ UNCHANGED <<get, req, slots, idleAge, shaker, verifyHost, abort, limit, spent, owed,
                 sunk, saw>>

(* One poll of connect that ends the loop *)
Connected(w) ==
  /\ pc[w] = "connect"
  /\ \E p \in {"setup", "out"} : pc' = [pc EXCEPT ![w] = p]
  /\ req' = [req EXCEPT ![w].wait = 0]
  /\ UNCHANGED <<get, ownership, shaker, verifyHost, abort, limit, spent, sunk, saw>>

(* roots_ready, wolfSSL_new, the cipher list and the pin *)
Setup(w) ==
  /\ pc[w] = "setup"
  /\ \E p \in {"lock", "out"} : pc' = [pc EXCEPT ![w] = p]
  /\ UNCHANGED <<get, req, ownership, shaker, verifyHost, abort, limit, spent, sunk, saw>>

LockHandshake(w) ==
  /\ pc[w] = "lock"
  /\ shaker = NoWorker
  /\ shaker' = w
  /\ verifyHost' = get[w].url
  /\ pc' = [pc EXCEPT ![w] = "shake"]
  /\ UNCHANGED <<get, req, ownership, abort, limit, spent, sunk, saw>>

(* wolfSSL_connect succeeds and gives the lock back, or fails for good *)
Shake(w) ==
  /\ pc[w] = "shake"
  /\ \/ shaker' = NoWorker /\ pc' = [pc EXCEPT ![w] = "send"]
     \/ GoOut(w) /\ UNCHANGED shaker
  /\ req' = [req EXCEPT ![w].wait = 0]
  /\ UNCHANGED <<get, ownership, verifyHost, abort, limit, spent, sunk, saw>>

(* The request is out, or a write failed: on a reused connection the server *)
(* may simply have closed it.                                               *)
Send(w) ==
  /\ pc[w] = "send"
  /\ \/ /\ pc' = [pc EXCEPT ![w] = "top"]
        /\ owed' = owed \cup {conn[w]}
        /\ req' = [req EXCEPT ![w].wait = 0]
     \/ /\ GoOut(w)
        /\ \E broken \in BOOLEAN :   \* FALSE: the request line does not fit its buffer
             req' = [req EXCEPT ![w] = [@ EXCEPT !.stale = broken /\ req[w].reused, !.wait = 0]]
        /\ UNCHANGED owed
  /\ UNCHANGED <<get, conn, slots, peer, idleAge, shaker, verifyHost, abort, limit, spent,
                 sunk, saw>>

(* A wait in connect, handshake, write or read that finds nothing to do and *)
(* a reason to stop.  The read loop looks at its clocks at its top only.    *)
GiveUp(w) ==
  /\ \/ pc[w] \in {"connect", "shake", "send", "top"} /\ MustStop(w)
     \/ pc[w] = "read" /\ abort
  /\ GoOut(w)
  /\ saw' = [saw EXCEPT ![w] = @ \/ abort]
  /\ req' = [req EXCEPT ![w].wait = 0]
  /\ UNCHANGED <<get, ownership, shaker, verifyHost, abort, limit, spent, sunk>>

(* An incomplete head: the clock it has runs on from the request. *)
HeadGrownRestarting(w) == [req[w] EXCEPT !.head = TRUE, !.wait = 0]  \* mutant
HeadGrown(w) == [req[w] EXCEPT !.head = TRUE]

(* A read that brings bytes of the head: it stays incomplete or is refused, *)
HeadPart(w, more) ==
  /\ pc' = [pc EXCEPT ![w] = IF more THEN "top" ELSE "out"]
  /\ req' = [req EXCEPT ![w] = HeadGrown(w)]
  /\ UNCHANGED <<get, owed, saw>>

(* it is a 3xx with a Location,                                              *)
HeadRedirect(w, h, keep) ==
  /\ GoOut(w)
  /\ req' = [req EXCEPT ![w] = [@ EXCEPT !.head = TRUE, !.ret = "redirect", !.keep = keep]]
  /\ get' = [get EXCEPT ![w].next = h]
  /\ UNCHANGED <<owed, saw>>

(* Bytes seen past the announced length cost the connection. *)
SurplusKept(keep, k, left) == keep                                  \* mutant
Fits(keep, k, left) == keep /\ k <= left

(* or it says how long the body is, or that it lasts until the server        *)
(* closes; a 204 or 304 counts as length 0.  Only a body of known length     *)
(* leaves the connection reusable.  What followed an empty body in the same  *)
(* read, past, is looked at at once; any other body is the next read.        *)
HeadOfBody(w, sized, keep, n, past) ==
  LET whole == sized /\ n = 0 /\ ~abort
  IN /\ keep => sized
     /\ ~sized => n = 0
     /\ past > 0 => whole
     /\ pc' = [pc EXCEPT ![w] = IF abort \/ whole THEN "out" ELSE "top"]
     /\ req' = [req EXCEPT ![w] =
                  [@ EXCEPT !.head = TRUE, !.sized = sized, !.want = n, !.wait = 0,
                            !.keep = Fits(keep, past, 0),
                            !.ret = IF whole THEN "done" ELSE "body"]]
     /\ owed' = IF whole /\ past = 0 THEN owed \ {conn[w]} ELSE owed
     /\ saw' = [saw EXCEPT ![w] = @ \/ abort]
     /\ UNCHANGED get

ReadHead(w) ==
  /\ pc[w] = "read"
  /\ req[w].ret = "fail"
  /\ \/ \E more \in BOOLEAN : HeadPart(w, more)
     \/ \E h \in Hosts, keep \in BOOLEAN : HeadRedirect(w, h, keep)
     \/ \E sized, keep \in BOOLEAN, n \in 0..MaxBody, past \in 0..1 :
          HeadOfBody(w, sized, keep, n, past)
  /\ UNCHANGED <<conn, slots, peer, idleAge, shaker, verifyHost, abort, limit, spent, sunk>>

(* A read that brings k bytes of body; the sink takes or refuses them.  What *)
(* goes past the announced length is dropped.                                *)
Left(w) == (IF req[w].sized THEN req[w].want ELSE MaxBody) - req[w].got

BodyPiece(w, k, taken) ==
  LET n == IF k <= Left(w) THEN k ELSE Left(w)
      whole == req[w].sized /\ n = Left(w)
      done == taken /\ whole /\ ~abort
  IN /\ req' = [req EXCEPT ![w] =
                  [@ EXCEPT !.wait = 0, !.keep = Fits(req[w].keep, k, Left(w)),
                            !.got = IF taken THEN req[w].got + n ELSE req[w].got,
                            !.ret = IF done THEN "done" ELSE req[w].ret]]
     /\ sunk' = [sunk EXCEPT ![w] = IF taken THEN @ + n ELSE @]
     /\ pc' = [pc EXCEPT ![w] = IF taken /\ ~abort /\ ~whole THEN "top" ELSE "out"]
     /\ owed' = IF done /\ k <= Left(w) THEN owed \ {conn[w]} ELSE owed
     /\ saw' = [saw EXCEPT ![w] = @ \/ (taken /\ abort)]

ReadBody(w) ==
  /\ pc[w] = "read"
  /\ req[w].ret = "body"
  /\ \E k \in 1..(MaxBody + 1), taken \in BOOLEAN : BodyPiece(w, k, taken)
  /\ UNCHANGED <<get, conn, slots, peer, idleAge, shaker, verifyHost, abort, limit, spent>>

(* A clean close ends a body of unknown length, and no other. *)
WholeAtAnyClose(w) == TRUE                                          \* mutant
WholeAtClose(w) == ~req[w].sized \/ req[w].got >= req[w].want

(* A read that finds the connection closed in order, or broken *)
Closed(w, clean) ==
  LET begun == req[w].ret = "body"
      done == clean /\ begun /\ WholeAtClose(w)
  IN /\ req' = [req EXCEPT ![w] =
                  [@ EXCEPT !.wait = 0, !.ret = IF done THEN "done" ELSE req[w].ret,
                            !.stale = clean /\ ~begun /\ req[w].reused]]
     /\ owed' = IF done THEN owed \ {conn[w]} ELSE owed

ReadEnd(w) ==
  /\ pc[w] = "read"
  /\ GoOut(w)
  /\ \E clean \in BOOLEAN : Closed(w, clean)
  /\ UNCHANGED <<get, conn, slots, peer, idleAge, shaker, verifyHost, abort, limit, spent,
                 sunk, saw>>

(* The top of the read loop with nothing against another read, and a read   *)
(* that would block                                                          *)
ReadOn(w) ==
  /\ \/ /\ pc[w] = "top"
        /\ ~MustStop(w)
        /\ pc' = [pc EXCEPT ![w] = "read"]
     \/ /\ pc[w] = "read"
        /\ ~abort
        /\ pc' = [pc EXCEPT ![w] = "top"]
  /\ UNCHANGED <<get, req, ownership, shaker, verifyHost, abort, limit, spent, sunk, saw>>

Kept(w) == req[w].ret = "done" /\ req[w].keep

LockAfterForgotten(w) == shaker                                     \* mutant
LockAfter(w) == IF shaker = w THEN NoWorker ELSE shaker

(* request_with's out label: the connection is kept or closed, never both   *)
Finish(w) ==
  /\ pc[w] = "out"
  /\ shaker' = LockAfter(w)
  /\ req' = [req EXCEPT ![w] =
               [@ EXCEPT !.head = FALSE, !.keep = FALSE,
                         !.stale = \/ req[w].stale
                                   \/ /\ req[w].reused /\ req[w].ret = "fail"
                                      /\ req[w].got = 0 /\ ~req[w].head]]
  /\ IF Kept(w)
     THEN SaveIdle(w)
     ELSE FreeAll({conn[w]}) /\ UNCHANGED <<slots, idleAge>>
  /\ conn' = [conn EXCEPT ![w] = NoConn]
  /\ pc' = [pc EXCEPT ![w] = "after"]
  /\ UNCHANGED <<get, verifyHost, abort, limit, spent, sunk, saw>>

(* https_get after request_with: once more, on to the redirect, or the end  *)
OutcomeOf(w) == CASE req[w].ret = "done" -> "complete"
                  [] req[w].ret = "body" -> "truncated"
                  [] OTHER -> "failed"

RepeatReused(w) == req[w].reused /\ req[w].ret \in {"fail", "body"} /\ ~get[w].again  \* mutant
Repeat(w) == req[w].stale /\ req[w].got = 0 /\ ~get[w].again

Follow(w) == ~Repeat(w) /\ req[w].ret = "redirect" /\ get[w].hops < MaxRedirects

NextHopRetried(w) == [get[w] EXCEPT !.url = get[w].next, !.next = NoHost,  \* mutant
                                    !.hops = @ + 1]
NextHop(w) == [get[w] EXCEPT !.url = get[w].next, !.next = NoHost,
                             !.hops = @ + 1, !.again = FALSE]

Decide(w) ==
  /\ pc[w] = "after"
  /\ pc' = [pc EXCEPT ![w] = IF Repeat(w) \/ Follow(w) THEN "start" ELSE "idle"]
  /\ get' = [get EXCEPT ![w] =
               IF Repeat(w) THEN [@ EXCEPT !.again = TRUE]
               ELSE IF Follow(w) THEN NextHop(w)
               ELSE Ended(OutcomeOf(w))]
  /\ req' = [req EXCEPT ![w] = [FreshReq EXCEPT !.sized = req[w].sized,
                                 !.want = req[w].want, !.got = req[w].got]]
  /\ saw' = [saw EXCEPT ![w] = @ /\ (Repeat(w) \/ Follow(w))]
  /\ UNCHANGED <<ownership, shaker, verifyHost, abort, limit, spent, sunk>>
-----------------------------------------------------------------------------
Step(w) ==
  \/ \E u \in Hosts : Get(w, u)
  \/ Attempt(w) \/ Dial(w) \/ Connected(w) \/ Setup(w) \/ LockHandshake(w) \/ Shake(w)
  \/ Send(w) \/ GiveUp(w) \/ ReadHead(w) \/ ReadBody(w) \/ ReadEnd(w) \/ ReadOn(w)
  \/ Finish(w) \/ Decide(w)

Next == (\E w \in Workers : Step(w)) \/ SetTimeLimit \/ Abort \/ CloseIdle \/ Tick

Spec == Init /\ [][Next]_vars

(* A worker's own code keeps running and the clock keeps counting.  Nothing  *)
(* is assumed of the network: connect, the handshake, a write and a read may *)
(* find nothing to do forever, and only GiveUp is fair there.  The lookup    *)
(* ends by itself (resolve gives it five tries of two seconds).              *)
Fairness ==
  /\ WF_vars(Tick)
  /\ \A w \in Workers :
       /\ WF_vars(Attempt(w)) /\ WF_vars(Dial(w)) /\ WF_vars(Setup(w))
       /\ WF_vars(LockHandshake(w)) /\ WF_vars(GiveUp(w)) /\ WF_vars(ReadOn(w))
       /\ WF_vars(Finish(w)) /\ WF_vars(Decide(w))

FairSpec == Spec /\ Fairness
-----------------------------------------------------------------------------
(* Properties *)

(* A connection is owned once: by one slot of g_idle or by one request, and  *)
(* one that nobody owns has been freed.  Taking, saving, evicting, expiring, *)
(* closing and every error path of request_with neither leak a socket nor    *)
(* close it twice.                                                           *)
OneOwner ==
  /\ \A i, j \in Index : slots[i] = slots[j] /\ slots[i] # NoConn => i = j
  /\ \A v, w \in Workers : conn[v] = conn[w] /\ conn[w] # NoConn => v = w
  /\ \A w \in Workers : conn[w] \notin Idle
  /\ Live = Idle \cup ({conn[w] : w \in Workers} \ {NoConn})

(* A connection waits in g_idle only when the answer on it was read to the   *)
(* end it announced and not a byte past that end was seen, over all the ways *)
(* out of request_with.  What the code has not read it cannot see: take_idle *)
(* looks at host and age alone, so bytes that come later, or that wait       *)
(* unread, would be the head of the next answer.                             *)
IdleIsQuiet == Idle \cap owed = {}

(* Whatever the slots, the scan and the stopwatches do, requests and pool     *)
(* deal in connections as ConnPool says: one is reused for its own host and   *)
(* with its last answer read to its end and nothing seen past it, and only a  *)
(* full pool closes one to keep one.                                          *)
Pool == INSTANCE ConnPool
          WITH dest <- [w \in Workers |-> get[w].url], inUse <- conn, idle <- Idle
ImplementsPool == Pool!PoolSpec

(* The certificate callback reads the host it checks for from g_verify_host: *)
(* through a handshake it stays the host of that handshake, and the lock     *)
(* that keeps it so is never left behind by a request that failed.           *)
OneHandshake ==
  /\ \A w \in Workers : pc[w] = "shake" => shaker = w /\ verifyHost = get[w].url
  /\ \A w \in Workers : shaker = w => pc[w] \in {"shake", "out"}

(* What https_get reports is what the sink saw, over all its attempts:       *)
(* COMPLETE is the announced body and nothing else, FAILED is not a byte.    *)
HonestOutcome ==
  \A w \in Workers : pc[w] = "idle" =>
    CASE get[w].outcome = "complete"  -> /\ sunk[w] = req[w].got
                                         /\ req[w].sized => sunk[w] = req[w].want
      [] get[w].outcome = "truncated" -> sunk[w] = req[w].got
      [] OTHER                        -> sunk[w] = 0

(* No request, be it the one more for a stale connection or the one for a    *)
(* redirect, is made once a byte of body has reached the sink.               *)
SinkNeverReplayed ==
  [][\A w \in Workers : pc[w] # "start" /\ pc'[w] = "start" => sunk'[w] = 0]_vars

(* With one worker the pool holds at most one connection to a host, so the   *)
(* request made again for a stale connection gets a fresh one, and the one   *)
(* retry the code allows is enough.                                          *)
RetryIsFresh ==
  \A w \in Workers : get[w].again /\ pc[w] \notin {"idle", "start"} => ~req[w].reused

(* Whatever the network does or fails to do, a get ends or has its body      *)
(* begun: the budgets of connect, handshake, request and head see to it.     *)
HeadInTime == \A w \in Workers : Busy(w) ~> ~Busy(w) \/ req[w].ret = "body"

(* A body may trickle in without end; https_set_time_limit ends it too.      *)
LimitEndsGet == \A w \in Workers : Busy(w) /\ limit > 0 ~> ~Busy(w)

(* A wait that found g_abort set is the last thing a get does on the network.*)
AbortIsFinal == \A w \in Workers : saw[w] => pc[w] \in {"idle", "start", "out", "after"}

(* A get that was told to stop still finds the flag set at its next wait.    *)
AbortStands == [][abort /\ ~abort' => \A w \in Workers : ~Busy(w)]_vars
=============================================================================
