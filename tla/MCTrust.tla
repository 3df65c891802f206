------------------------------ MODULE MCTrust ------------------------------
(***************************************************************************)
(* Whom a request is sent to, whether its certificate is taken and how its *)
(* answer is read, for TLC: the certificate question, the addresses, the   *)
(* one date the rules know and the heads.  The four share no state, so     *)
(* each is explored by itself.                                             *)
(***************************************************************************)
EXTENDS CertDoubt, Urls, Dates, Heads

CONSTANTS MaxStream, MaxDigits  \* bounds: bytes of an answer, digits of a length

VARIABLE part  \* the part that this behaviour explores

Plain == [status |-> "ok", lengths |-> <<>>, chunked |-> FALSE, persistent |-> TRUE,
          location |-> "none"]

LengthTexts == UNION {[1..n -> {0, 1, 5, 6, NonDigit}] : n \in 0..MaxDigits}

(* Every stream with a plain head, and every head at the start of one stream *)
ShortAnswers ==
  [1..MaxStream -> {"x", "r", "n"}]
      \X {Plain, [Plain EXCEPT !.lengths = <<<<0>>>>], [Plain EXCEPT !.lengths = <<<<1>>>>]}
  \cup {[i \in 1..MaxStream |-> IF i \in 2..5 THEN Blank[i - 1] ELSE "x"]}
      \X [status : Statuses, lengths : {<<>>, <<<<1>>, <<1>>>>} \cup {<<t>> : t \in LengthTexts},
          chunked : BOOLEAN, persistent : BOOLEAN, location : {"none", "good", "bad"}]

trustVars == <<vars, urlVars, dateVars, headVars, part>>

TrustInit ==
  /\ part \in {"question", "urls", "dates", "heads"}
  /\ Init /\ UrlInit
  /\ IF part = "dates" THEN DateInit
     ELSE built = [y |-> 1970, m |-> 1, d |-> 1] /\ since = 0
  /\ IF part = "heads" THEN HeadInit
     ELSE stream = <<>> /\ said = Plain /\ at = 0 /\ answer = NoAnswer

OnlyQuestion == part = "question" /\ Next /\ UNCHANGED <<urlVars, dateVars, headVars>>
OnlyUrls == part = "urls" /\ UrlNext /\ UNCHANGED <<vars, dateVars, headVars>>
OnlyDates == part = "dates" /\ NextDay /\ UNCHANGED <<vars, urlVars, headVars>>
OnlyHeads == part = "heads" /\ HeadNext /\ UNCHANGED <<vars, urlVars, dateVars>>

TrustNext == (OnlyQuestion \/ OnlyUrls \/ OnlyDates \/ OnlyHeads) /\ UNCHANGED part

TrustSpec == TrustInit /\ [][TrustNext]_trustVars
=============================================================================
