----------------------------- MODULE RootsCell -----------------------------
(***************************************************************************)
(* What a handshake is promised of the context with the parsed roots,      *)
(* without the link, the thread or the waits: one context is shared, the   *)
(* first that was offered, every request uses that one, and it is given up *)
(* only when nobody uses it and none is being prepared.                    *)
(***************************************************************************)
EXTENDS Integers

CONSTANTS Workers, Ctxs, NoCtx

VARIABLES
  shared,  \* the context every request uses, NoCtx before the first
  using,   \* the context each worker's request has borrowed
  spare    \* contexts prepared and not offered yet

cellVars == <<shared, using, spare>>

CellInit == shared = NoCtx /\ using = [w \in Workers |-> NoCtx] /\ spare = {}

Prepare ==
  /\ \E c \in Ctxs \ (spare \cup {shared}) : spare' = spare \cup {c}
  /\ UNCHANGED <<shared, using>>

(* A context that comes too late is freed. *)
Offer ==
  /\ \E c \in spare :
       /\ spare' = spare \ {c}
       /\ shared' = IF shared = NoCtx THEN c ELSE shared
  /\ \/ UNCHANGED using
     \/ \E w \in Workers : using[w] = NoCtx /\ using' = [using EXCEPT ![w] = shared']

Borrow(w) ==
  /\ shared # NoCtx /\ using[w] = NoCtx
  /\ using' = [using EXCEPT ![w] = shared]
  /\ UNCHANGED <<shared, spare>>

HandBack(w) ==
  /\ using' = [using EXCEPT ![w] = NoCtx]
  /\ UNCHANGED <<shared, spare>>

GiveUp ==
  /\ spare = {} /\ \A w \in Workers : using[w] = NoCtx
  /\ shared' = NoCtx
  /\ UNCHANGED <<using, spare>>

CellNext == Prepare \/ Offer \/ GiveUp \/ \E w \in Workers : Borrow(w) \/ HandBack(w)

CellSpec == CellInit /\ [][CellNext]_cellVars
=============================================================================
