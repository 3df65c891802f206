-------------------------------- MODULE Urls --------------------------------
(***************************************************************************)
(* The addresses of src/https.c: what url_parse makes of the text an       *)
(* application or a server gives, and url_resolve of a Location header     *)
(* against the address before it.  A text is a sequence of characters, one *)
(* for each kind the code tells apart: "https" stands for a word, "x" for  *)
(* a byte past ASCII, "_" for a blank or control.  Every character counts  *)
(* one byte against the sizes, which are small here.                       *)
(***************************************************************************)
EXTENDS Integers, Sequences, SequencesExt

CONSTANTS
  HOST_SIZE, PATH_SIZE,     \* of struct url
  LOC_SIZE, ABSOLUTE_SIZE,  \* of tmp and absolute
  PORT, PORT_MAX,           \* 443 and 65535 in the source
  MaxOpening, MaxLocation,  \* bounds of the model: pieces of the first text
                            \* and of a Location
  MaxHops                   \* bound of the model: the redirects followed

VARIABLES
  url,  \* the address, NoUrl before the first and after one that was refused
  hops  \* the redirects followed

urlVars == <<url, hops>>

NoUrl == [host |-> <<>>, port |-> 0, path |-> <<>>]

Scheme == <<"https", ":", "/", "/">>
Figures == <<"0", "1", "2", "3", "4", "5", "6", "7", "8", "9">>
Worth == [c \in ToSet(Figures) |-> CHOOSE n \in 0..9 : Figures[n + 1] = c]
Letters == {"https", "a"}
Chars == Letters \cup ToSet(Figures) \cup {":", "/", "?", "#", "_", "x", "%", "c"}

ASSUME UrlAssumption ==
  /\ HOST_SIZE \in Nat /\ PATH_SIZE \in Nat /\ PATH_SIZE > 1
  /\ PORT_MAX \in Nat /\ PORT \in 1..PORT_MAX
  /\ MaxOpening \in Nat /\ MaxLocation \in Nat

(* strcspn: s up to the first of stops, and what is from there on *)
Upto(s, stops) ==
  LET n == SelectInSeq(s, LAMBDA c : c \in stops)
  IN IF n = 0 THEN s ELSE SubSeq(s, 1, n - 1)

From(s, stops) == SubSeq(s, Len(Upto(s, stops)) + 1, Len(s))

Ends == {"/", "?", "#"}

(* The host and port of an authority; host <<>> when it has none. *)
PortOf(digits) ==
  LET port[i \in 0..Len(digits)] == IF i = 0 THEN 0 ELSE port[i - 1] * 10 + Worth[digits[i]]
  IN port[Len(digits)]

IsPort(digits) ==
  digits # <<>> /\ ToSet(digits) \subseteq DOMAIN Worth /\ PortOf(digits) \in 1..PORT_MAX

Endpoint(authority) ==
  LET host == Upto(authority, {":"})
      digits == From(authority, {":"})
  IN IF \/ host = <<>> \/ ~(ToSet(host) \subseteq Letters \cup DOMAIN Worth)
        \/ digits # <<>> /\ ~IsPort(Tail(digits))
     THEN NoUrl
     ELSE [host |-> host, path |-> <<>>,
           port |-> IF digits = <<>> THEN PORT ELSE PortOf(Tail(digits))]

Sent(c) == IF c = "x" THEN <<"%", "c", "3">> ELSE <<c>>

Encoded(s) == FlattenSeq([i \in DOMAIN s |-> Sent(s[i])])

(* Room is looked for before each character, for the longest it may become
   and the end of the text. *)
RoomForOne(path) == Len(path) + 2 <= PATH_SIZE                      \* mutant
Room(path) == Len(path) + 4 <= PATH_SIZE

(* url_parse *)
UrlParse(s) ==
  LET rest == SubSeq(s, Len(Scheme) + 1, Len(s))
      authority == Upto(rest, Ends)
      tail == From(rest, Ends)
      root == IF tail # <<>> /\ Head(tail) = "/" THEN <<>> ELSE <<"/">>
      target == Upto(tail, {"#"})
      end == Endpoint(authority)
  IN IF \/ ~IsPrefix(Scheme, s) \/ Contains(s, "_")
        \/ Len(authority) >= HOST_SIZE \/ end = NoUrl
        \/ target # <<>> /\ ~Room(root \o Encoded(Front(target)))
     THEN NoUrl
     ELSE [end EXCEPT !.path = root \o Encoded(target)]

PortText(port) ==
  LET text[n \in 0..PORT_MAX] ==
        IF n < 10 THEN <<Figures[n + 1]>> ELSE Append(text[n \div 10], Figures[(n % 10) + 1])
  IN text[port]

Authority(u) == u.host \o (IF u.port = PORT THEN <<>> ELSE <<":">> \o PortText(u.port))

(* strrchr: up to the last slash *)
Directory(path) ==
  LET n == SelectLastInSeq(path, LAMBDA c : c = "/")
  IN IF n = 0 THEN path ELSE SubSeq(path, 1, n)

(* What a Location without an authority keeps of the path before it *)
KeptPathWithQuery(path, loc) ==                                     \* mutant
  IF loc = <<>> \/ Head(loc) = "#" THEN path
  ELSE CASE Head(loc) = "/" -> <<>>
         [] Head(loc) = "?" -> Upto(path, {"?"})
         [] OTHER -> Directory(path)

KeptPath(path, loc) ==
  IF loc = <<>> \/ Head(loc) = "#" THEN path
  ELSE CASE Head(loc) = "/" -> <<>>
         [] Head(loc) = "?" -> Upto(path, {"?"})
         [] OTHER -> Directory(Upto(path, {"?"}))

(* The text url_resolve parses *)
Absolute(base, loc) ==
  CASE IsPrefix(<<"/", "/">>, loc) -> <<"https", ":">> \o loc
    [] Contains(Upto(loc, Ends), ":") -> loc
    [] OTHER -> Scheme \o Authority(base) \o KeptPath(base.path, loc) \o loc

UrlResolve(base, loc) ==
  IF \/ Len(loc) >= LOC_SIZE
     \/ Absolute(base, loc) # loc /\ Len(Absolute(base, loc)) >= ABSOLUTE_SIZE
  THEN NoUrl ELSE UrlParse(Absolute(base, loc))
-----------------------------------------------------------------------------
Pieces == {Scheme, <<"/">>, <<"?">>, <<"#">>, <<":">>, <<"a">>, <<"9">>,
           <<"x">>, <<"_">>}

(* Every text of at most n pieces *)
Texts(n) == {FlattenSeq(s) : s \in BoundedSeq(Pieces, n)}

Openings == Texts(MaxOpening)
Locations == Texts(MaxLocation)

UrlInit == url = NoUrl /\ hops = 0

(* https_get begins with the application's text, and goes on with the
   server's Locations. *)
Open(text) ==
  /\ url = NoUrl /\ hops = 0
  /\ url' = UrlParse(text)
  /\ UNCHANGED hops

Redirect(loc) ==
  /\ url # NoUrl /\ hops < MaxHops
  /\ url' = UrlResolve(url, loc)
  /\ hops' = hops + 1

UrlNext == (\E text \in Openings : Open(text)) \/ (\E loc \in Locations : Redirect(loc))

UrlSpec == UrlInit /\ [][UrlNext]_urlVars
-----------------------------------------------------------------------------
(* Whatever an application or a chain of servers wrote, what goes into a
   request line and a Host header is a host of letters and digits with a port
   that exists, and a path that begins at the root, fits its place with its
   end, and has no fragment, no blank and no byte past ASCII in it. *)
UrlClean ==
  url # NoUrl =>
    /\ url.host # <<>> /\ ToSet(url.host) \subseteq Letters \cup DOMAIN Worth
    /\ Len(url.host) < HOST_SIZE /\ url.port \in 1..PORT_MAX
    /\ url.path # <<>> /\ Head(url.path) = "/" /\ Len(url.path) < PATH_SIZE
    /\ ToSet(url.path) \cap {"#", "_", "x"} = {}

(* A reference resolved by its components, as RFC 3986 sections 5.2.2 and
   5.3 have it, without the removal of dot segments. *)
Hier(loc) == Upto(Upto(loc, {"#"}), {"?"})
Query(loc) == From(Upto(loc, {"#"}), {"?"})

HasScheme(loc) == Contains(Upto(Hier(loc), {"/"}), ":")
Rest(loc) == IF HasScheme(loc) THEN Tail(From(Hier(loc), {":"})) ELSE Hier(loc)

HasAuthority(loc) == IsPrefix(<<"/", "/">>, Rest(loc))
Given(loc) == SubSeq(Rest(loc), 3, Len(Rest(loc)))

Reference(base, loc) ==
  LET to(end, p, q) ==
        [end EXCEPT !.path = (IF p = <<>> THEN <<"/">> ELSE Encoded(p)) \o Encoded(q)]
      authority == Upto(Given(loc), {"/"})
      path == Upto(base.path, {"?"})
  IN IF \/ Contains(loc, "_")
        \/ HasScheme(loc) /\ (Upto(Hier(loc), {":"}) # <<"https">> \/ ~HasAuthority(loc))
        \/ HasAuthority(loc) /\ Endpoint(authority) = NoUrl
     THEN NoUrl
     ELSE IF HasAuthority(loc)
     THEN to(Endpoint(authority), From(Given(loc), {"/"}), Query(loc))
     ELSE IF Hier(loc) = <<>>
     THEN to(base, path, IF Query(loc) = <<>> THEN From(base.path, {"?"}) ELSE Query(loc))
     ELSE to(base, IF Head(Hier(loc)) = "/" THEN Hier(loc) ELSE Directory(path) \o Hier(loc),
             Query(loc))

(* The authority counts as it is written, and the last character of a path for
   the room it was looked for. *)
TooLong(base, loc) ==
  \/ Len(loc) >= LOC_SIZE
  \/ ~HasScheme(loc) /\ Len(Absolute(base, loc)) >= ABSOLUTE_SIZE
  \/ Len(IF HasAuthority(loc) THEN Upto(Given(loc), {"/"}) ELSE Authority(base)) >= HOST_SIZE
  \/ Len(Reference(base, loc).path) + 3 > PATH_SIZE

(* A redirect leads where the standard says, for every address there is and
   every Location: built as text and parsed again, with its own cuts at "?",
   "#" and the last slash, it comes out as the components do, and only one
   that does not fit is refused. *)
ResolvesAsReferences ==
  url # NoUrl /\ hops < MaxHops =>
    \A loc \in Locations :
      \/ UrlResolve(url, loc) = Reference(url, loc)
      \/ UrlResolve(url, loc) = NoUrl /\ TooLong(url, loc)
=============================================================================
