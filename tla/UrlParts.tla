------------------------------- MODULE UrlParts -------------------------------
(***************************************************************************)
(* cli_process of mp1's http_client: a URL is cut into host, port and path *)
(* by one pass over its characters, which shortens the string it passes    *)
(* over at a colon.  One action is one iteration; i counts from 0 as in    *)
(* the code.                                                               *)
(***************************************************************************)
EXTENDS Naturals, SequencesExt

CONSTANT Urls   \* sequences of characters, without the leading "http://"

VARIABLES given,      \* the URL
          url, i, thrown,   \* what is left of it, the position, whether substr threw
          ip, port_num, file_path

vars == <<given, url, i, thrown, ip, port_num, file_path>>

Init == /\ given \in Urls /\ url = given
        /\ i = 0 /\ thrown = FALSE
        /\ ip = << >> /\ port_num = << >> /\ file_path = << >>

-----------------------------------------------------------------------------
Before(s, k) == SubSeq(s, 1, Min({k, Len(s)}))
From(s, k) == SubSeq(s, k + 1, Len(s))

\* s[k]; behind the terminating NUL lies what the memory holds.
CharAt(s, k) == IF k < Len(s) THEN {s[k + 1]}
                ELSE IF k = Len(s) THEN {"NUL"}
                ELSE {":", "/", "other"}

\* The inner loop: what stands before and behind the last slash.
LastSlash(s) == SelectLastInSeq(s, LAMBDA x : x = "/")

\* A colon.
AtColon(left) == /\ ip' = Before(url, i)
                 /\ IF Contains(left, "/")
                    THEN /\ port_num' = Before(left, LastSlash(left) - 1)
                         /\ file_path' = From(left, LastSlash(left) - 1)
                    ELSE UNCHANGED <<port_num, file_path>>

\* A slash, in what the colon has left if there was one.
AtSlash(left) == /\ ip' = Before(left, i)
                 /\ port_num' = <<"8", "0">>
                 /\ file_path' = From(left, i)

Scanning == ~thrown /\ i < Len(given)

Iterate ==
    /\ Scanning
    /\ \E ch \in CharAt(url, i) :
         LET left == IF ch = ":" THEN From(url, i + 1) ELSE url
         IN  \E next \in IF ch = ":" THEN CharAt(left, i) ELSE {ch} :
               /\ thrown' = (\/ ch = ":" /\ i + 1 > Len(url)
                             \/ next = "/" /\ i > Len(left))
               /\ CASE thrown' -> UNCHANGED <<ip, port_num, file_path>>
                    [] next = "/" /\ ~thrown' -> AtSlash(left)
                    [] ch = ":" /\ next # "/" /\ ~thrown' -> AtColon(left)
                    [] OTHER -> UNCHANGED <<ip, port_num, file_path>>
               /\ url' = left
    /\ i' = i + 1
    /\ UNCHANGED given

Done == ~Scanning /\ UNCHANGED vars

Next == Iterate \/ Done

Spec == Init /\ [][Next]_vars

-----------------------------------------------------------------------------
\* "http://hostname[:port]/path/to/file" (line 37): the path begins at the first
\* slash, the port at a colon before it, and is 80 without one.
Parts(u) ==
    LET slash == SelectInSeq(u, LAMBDA x : x = "/") - 1
        site == Before(u, slash)
        colon == SelectInSeq(site, LAMBDA x : x = ":") - 1
    IN  [file |-> From(u, slash),
         host |-> IF Contains(site, ":") THEN Before(site, colon) ELSE site,
         port |-> IF Contains(site, ":") THEN From(site, colon + 1) ELSE <<"8", "0">>]

\* cli_process returns the parts of the URL as the comment over it gives them.
PartsAsDescribed ==
    ~Scanning => /\ ~thrown
                 /\ [file |-> file_path, host |-> ip, port |-> port_num] = Parts(given)
=============================================================================
