------------------------------ MODULE ConnPool ------------------------------
(***************************************************************************)
(* What a request is promised of its connection and of the pool of idle    *)
(* ones, without slots, clocks, parsing or the order of a scan: it gets a  *)
(* fresh connection, or an idle one to its own host whose last answer was  *)
(* read to its end with nothing seen past it; it gives one back only in    *)
(* that state, and only a full pool closes another one for that; a         *)
(* connection in use is closed by its own request alone.                   *)
(***************************************************************************)
EXTENDS Integers, FiniteSets

CONSTANTS Workers, Hosts, Conns, NoConn, NoHost, Slots

VARIABLES
  dest,   \* the host each worker's request is for, NoHost between requests
  inUse,  \* the connection of each worker's request
  idle,   \* the connections kept for a later request
  peer,   \* the host each open connection goes to, NoHost when closed
  owed    \* the open connections with more on them than was read as an answer

poolVars == <<dest, inUse, idle, peer, owed>>

PoolInit ==
  /\ dest = [w \in Workers |-> NoHost]
  /\ inUse = [w \in Workers |-> NoConn]
  /\ idle = {}
  /\ peer = [c \in Conns |-> NoHost]
  /\ owed = {}

Close(S) ==
  /\ peer' = [c \in Conns |-> IF c \in S THEN NoHost ELSE peer[c]]
  /\ owed' = owed \ S

(* Only a request without a connection changes its host. *)
Aim(w) ==
  /\ inUse[w] = NoConn
  /\ \E h \in Hosts \cup {NoHost} : dest' = [dest EXCEPT ![w] = h]
  /\ UNCHANGED <<inUse, idle, peer, owed>>

Open(w) ==
  /\ inUse[w] = NoConn
  /\ dest[w] # NoHost
  /\ \E c \in Conns :
       /\ peer[c] = NoHost
       /\ peer' = [peer EXCEPT ![c] = dest[w]]
       /\ inUse' = [inUse EXCEPT ![w] = c]
  /\ UNCHANGED <<dest, idle, owed>>

(* An idle connection may be closed at any time, *)
Expire ==
  /\ \E S \in SUBSET idle : idle' = idle \ S /\ Close(S)
  /\ UNCHANGED <<dest, inUse>>

(* others in the very step that takes one out. *)
Reuse(w) ==
  /\ inUse[w] = NoConn
  /\ \E c \in idle \ owed :
       /\ peer[c] = dest[w]
       /\ inUse' = [inUse EXCEPT ![w] = c]
       /\ \E S \in SUBSET (idle \ {c}) : idle' = idle \ (S \cup {c}) /\ Close(S)
  /\ UNCHANGED dest

Ask(w) ==
  /\ inUse[w] # NoConn
  /\ owed' = owed \cup {inUse[w]}
  /\ UNCHANGED <<dest, inUse, idle, peer>>

(* The end it announced, and nothing was seen past it *)
ReadToEnd(w) ==
  /\ inUse[w] # NoConn
  /\ owed' = owed \ {inUse[w]}
  /\ UNCHANGED <<dest, inUse, idle, peer>>

(* The connections that make room for one more *)
Evicted ==
  IF Cardinality(idle) < Slots THEN {{}} ELSE {{c} : c \in idle}

GiveBack(w) ==
  /\ inUse[w] \notin owed \cup {NoConn}
  /\ \E S \in Evicted : idle' = (idle \ S) \cup {inUse[w]} /\ Close(S)
  /\ inUse' = [inUse EXCEPT ![w] = NoConn]
  /\ UNCHANGED dest

Drop(w) ==
  /\ inUse[w] # NoConn
  /\ Close({inUse[w]})
  /\ inUse' = [inUse EXCEPT ![w] = NoConn]
  /\ UNCHANGED <<dest, idle>>

PoolNext ==
  \/ Expire
  \/ \E w \in Workers : \/ Aim(w) \/ Open(w) \/ Reuse(w) \/ Ask(w) \/ ReadToEnd(w)
                        \/ GiveBack(w) \/ Drop(w)

PoolSpec == PoolInit /\ [][PoolNext]_poolVars
=============================================================================
