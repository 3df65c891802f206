------------------------------- MODULE Heads -------------------------------
(***************************************************************************)
(* How request_with in src/https.c reads an answer: wolfSSL_read hands it  *)
(* over in pieces that a server, the network and TLS cut as they like; a   *)
(* buffer of HEAD_MAX bytes collects the head, and what came with it that  *)
(* does not fit is already body.  A byte is "r" (CR), "n" (LF) or "x".     *)
(* What the lines of the head say is told as a record; what the texts mean *)
(* is unaffected by where reads end once the head is found whole.  Aborts, *)
(* deadlines and a sink that refuses are HttpsClient's; a body longer than *)
(* a size_t counts is past any stream here.                                *)
(***************************************************************************)
EXTENDS Integers, Sequences, SequencesExt

CONSTANTS
  HEAD_MAX, REQUEST_BUF,  \* the two buffers
  HEAD_LEAST,             \* 16 in the source: the shortest head
  SIZE_MAX,               \* of a size_t
  Answers                 \* bound of the model: what a server may send, each
                          \* answer its bytes and what its lines say

Statuses == {"bad", "interim", "ok", "found", "noContent", "notModified"}

NonDigit == 10

Sayings ==
  [status : Statuses, lengths : Seq(Seq(0..NonDigit)),
   chunked : BOOLEAN, persistent : BOOLEAN, location : {"none", "good", "bad"}]

ASSUME HeadAssumption ==
  /\ HEAD_MAX \in Nat \ {0} /\ REQUEST_BUF \in Nat \ {0} /\ HEAD_LEAST \in Nat \ {0}
  /\ SIZE_MAX \in Nat /\ SIZE_MAX >= 9
  /\ Answers \subseteq Seq({"x", "r", "n"}) \X Sayings

VARIABLES
  stream,  \* what the server sends, if the connection lives that long
  said,    \* what the head's lines say
  at,      \* bytes of it read
  answer   \* what the request has made of them

headVars == <<stream, said, at, answer>>

NoWant == -1
Refusal == -2

\* ret: "head" until the head is whole, "body" after; then "failed" (-1),
\* "cut" (1), "done" (0) or "redirect" (2).  want: the length announced.
\* sunk: the places in stream of the bytes the sink was given.
NoAnswer == [ret |-> "head", want |-> NoWant, sunk |-> <<>>, keep |-> FALSE]

Blank == <<"r", "n", "r", "n">>

MemFind(hay, needle) ==
  LET places == {i \in 1..(Len(hay) - Len(needle) + 1) :
                   SubSeq(hay, i, i + Len(needle) - 1) = needle}
  IN IF places = {} THEN 0 ELSE Min(places)

(* The blank line among the first len bytes, of which read had come before *)
SeparatorInRead(read, len) ==                                       \* mutant
  LET i == MemFind(SubSeq(stream, read + 1, len), Blank)
  IN IF i = 0 THEN 0 ELSE read + i
Separator(read, len) == MemFind(SubSeq(stream, 1, len), Blank)

HeadClean(head) ==
  \A i \in DOMAIN head :
    /\ head[i] = "r" => i < Len(head) /\ head[i + 1] = "n"
    /\ head[i] = "n" => i > 1 /\ head[i - 1] = "r"

(* Content-Length: refused when it is no number, too big, or said twice *)
Digit(n, d) ==
  IF n = Refusal \/ d = NonDigit \/ n > (SIZE_MAX - d) \div 10 THEN Refusal ELSE n * 10 + d

Digits(text) ==
  LET length[i \in 0..Len(text)] == IF i = 0 THEN 0 ELSE Digit(length[i - 1], text[i])
  IN length[Len(text)]

ContentLength ==
  IF said.lengths = <<>> THEN NoWant
  ELSE IF Len(said.lengths) > 1 \/ said.lengths[1] = <<>> THEN Refusal
  ELSE Digits(said.lengths[1])

BadHead(head) ==
  Len(head) < HEAD_LEAST \/ said.status \in {"bad", "interim"} \/ ~HeadClean(head)

LedOn == said.status \in {"found", "notModified"} /\ said.location # "none"

Bodiless == said.status \in {"noContent", "notModified"}

(* An answer whose head has been read: over already, or its body begins *)
Begun(head) ==
  IF BadHead(head) \/ ContentLength = Refusal THEN [NoAnswer EXCEPT !.ret = "failed"]
  ELSE IF LedOn THEN
    [NoAnswer EXCEPT !.ret = IF said.location = "good" THEN "redirect" ELSE "failed"]
  ELSE IF said.chunked THEN [NoAnswer EXCEPT !.ret = "failed"]
  ELSE [ret |-> "body", want |-> IF Bodiless THEN 0 ELSE ContentLength, sunk |-> <<>>,
        keep |-> said.lengths # <<>> /\ said.persistent]

(* n bytes of body from place p on, of which no more than the length asks
   for is the message's *)
SurplusIgnored(a, given, n) == a.keep                               \* mutant
Undisturbed(a, given, n) == a.keep /\ given = n

Piece(a, p, n) ==
  LET left == a.want - Len(a.sunk)
      given == IF a.want # NoWant /\ n > left THEN left ELSE n
      sunk == a.sunk \o [i \in 1..given |-> p + i]
  IN IF n = 0 \/ a.ret # "body" THEN a
     ELSE [ret |-> IF a.want # NoWant /\ Len(sunk) >= a.want THEN "done" ELSE "body",
           want |-> a.want, sunk |-> sunk, keep |-> Undisturbed(a, given, n)]

(* An answer complete with its head, and nothing behind it *)
Ended(a, n) == IF n = 0 /\ a.ret = "body" /\ a.want = 0 THEN [a EXCEPT !.ret = "done"] ELSE a

(* The read that completes the head brings the tail of the head's buffer and
   what did not fit into it: full of the p bytes read so far did. *)
Complete(end, full, p) ==
  LET a == Ended(Begun(SubSeq(stream, 1, end)), p - end)
  IN Piece(Piece(a, end, full - end), full, p - full)

ReadHead(k) ==
  LET full == Min({at + k, HEAD_MAX})
      sep == Separator(at, full)
  IN /\ answer.ret = "head"
     /\ answer' = IF sep = 0
                  THEN [answer EXCEPT !.ret = IF full = HEAD_MAX THEN "failed" ELSE "head"]
                  ELSE Complete(sep + 3, full, at + k)

ReadBody(k) == answer.ret = "body" /\ answer' = Piece(answer, at, k)

Read(k) ==
  /\ at + k <= Len(stream)
  /\ ReadHead(k) \/ ReadBody(k)
  /\ at' = at + k
  /\ UNCHANGED <<stream, said>>

(* The connection ends, in an orderly way or not *)
Close(clean) ==
  /\ answer.ret \in {"head", "body"}
  /\ answer' = [answer EXCEPT !.ret =
       IF @ = "head" THEN "failed" ELSE IF clean /\ answer.want = NoWant THEN "done" ELSE "cut"]
  /\ UNCHANGED <<stream, said, at>>

HeadInit ==
  /\ \E a \in Answers : stream = a[1] /\ said = a[2]
  /\ at = 0 /\ answer = NoAnswer

HeadNext ==
  \/ \E k \in 1..REQUEST_BUF : Read(k)
  \/ \E clean \in BOOLEAN : Close(clean)

HeadSpec == HeadInit /\ [][HeadNext]_headVars
-----------------------------------------------------------------------------
Over == answer.ret \in {"failed", "cut", "done", "redirect"}

(* The end of the head by the first blank line of what was read, 0 if none *)
HeadEnd ==
  LET ends == {i \in 4..at : \A j \in 1..4 : stream[i - 4 + j] = Blank[j]}
  IN IF ends = {} THEN 0 ELSE Min(ends)

(* The number a text of digits writes *)
Value(text) ==
  LET upTo[i \in 0..Len(text)] == IF i = 0 THEN 0 ELSE upTo[i - 1] * 10 + text[i]
  IN upTo[Len(text)]

IsNumber(text) ==
  text # <<>> /\ (\A i \in DOMAIN text : text[i] # NonDigit) /\ Value(text) <= SIZE_MAX

Announced == IF Bodiless THEN 0 ELSE IF said.lengths = <<>> THEN NoWant ELSE Value(said.lengths[1])

Body(n) == [i \in 1..n |-> HeadEnd + i]

GoodHead ==
  /\ HeadEnd \in HEAD_LEAST..HEAD_MAX
  /\ said.status \notin {"bad", "interim"} /\ HeadClean(SubSeq(stream, 1, HeadEnd))
  /\ said.lengths = <<>> \/ (Len(said.lengths) = 1 /\ IsNumber(said.lengths[1]))

(* However the reads cut an answer, what the request makes of it follows
   from its bytes alone: the head ends with the first blank line or is
   refused, a length is the number it writes or is refused, and the sink is
   given the body's bytes from its first one on, each once and in order, as
   many as the length says and all of them when none does (request_with's
   loop around wolfSSL_read). *)
HoweverCut ==
  Over =>
    LET arrived == at - HeadEnd
    IN IF ~GoodHead \/ (said.chunked /\ ~LedOn) THEN answer.ret = "failed" /\ answer.sunk = <<>>
       ELSE IF LedOn THEN /\ answer.ret = (IF said.location = "good" THEN "redirect" ELSE "failed")
                          /\ answer.sunk = <<>>
       ELSE IF Announced = NoWant
       THEN answer.ret \in {"cut", "done"} /\ answer.sunk = Body(arrived)
       ELSE IF arrived >= Announced
       THEN answer.ret = "done" /\ answer.sunk = Body(Announced)
       ELSE answer.ret = "cut" /\ answer.sunk = Body(arrived)

(* A connection is kept for the next request only when nothing past its
   answer has been read, or the next answer would begin amid what was thrown
   away.  One cut escapes the code: a body that ends with the head's buffer
   while the read that brought it goes on (the second piece is never looked
   at). *)
KeptIsDrained ==
  answer.ret = "done" /\ answer.keep =>
    \/ at = HeadEnd + answer.want
    \/ HeadEnd + answer.want = HEAD_MAX /\ answer.want > 0
=============================================================================
