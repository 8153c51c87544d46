------------------------------ MODULE Hostport ------------------------------
(***************************************************************************)
(* hostport.c: the parser of host and port specifications, one action per  *)
(* step of its loops, up to the call of getaddrinfo and its results, and   *)
(* print_sockaddr, whose output is parsed again.  An input is a sequence   *)
(* of characters.                                                          *)
(***************************************************************************)
EXTENDS Pcre, SequencesExt

CONSTANTS
    Inputs,       \* the inputs of get_hostport and get_all_hostports
    DefaultPort,
    Addresses,    \* the addresses that exist: their family and inet_ntop's text
    Answers,      \* the lists of addresses a name server returns
    Configurations,  \* the families a host may have addresses of
    Ports         \* the ports of socket addresses that are printed

ASSUME PortsAssumption == DefaultPort \in Nat /\ \A n \in Ports : n \in 0 .. 65535

VARIABLES
    input, pos,   \* the local inbuf
    printed,      \* the address and port the input is a print of, if it is one
    pc,           \* start, host, delimiter, port, lookup, done
    h,            \* the local variables of parse_host
    text, variant, port,
    configured,   \* the families configured on the host when getaddrinfo is called
    result        \* of getaddrinfo: the addresses, none if anything failed

vars == <<input, pos, printed, pc, h, text, variant, port, configured, result>>

Lower == {"a", "f", "z"}
Hex == {"a", "f"}
Digit == {"0", "1", "2", "3", "4", "5", "6", "7", "8", "9"}
Value(d) == CHOOSE n \in 0 .. 9 : ToString(n) = d

RECURSIVE Decimal(_)
\* %hu and stralloc_catlong0
Decimal(n) == (IF n < 10 THEN << >> ELSE Decimal(n \div 10)) \o <<ToString(n % 10)>>

\* Wrong on purpose: the address of IPv6 goes without brackets.
PrintSockaddrBare(a, n) == a.text \o <<":">> \o Decimal(n)

\* print_sockaddr for AF_INET and AF_INET6, of an address that is known or
\* that get_hostport_of_peer has returned
PrintSockaddr(a, n) ==
    (IF a.family = "INET6" THEN <<"[">> \o a.text \o <<"]">> ELSE a.text) \o <<":">> \o Decimal(n)

NotPrinted == [text |-> << >>]

\* The local variables of parse_host before its first character
Fresh == [dotted |-> TRUE, ipv6 |-> FALSE, colon |-> FALSE, double |-> FALSE,
          colons |-> 0, digits |-> 0, dots |-> 0, last |-> 0]

Init ==
    /\ \/ input \in Inputs /\ printed = NotPrinted
       \/ \E a \in Addresses, n \in Ports :
            input = PrintSockaddr(a, n) /\ printed = [family |-> a.family, text |-> a.text, port |-> n]
    /\ pos = 0 /\ pc = "start" /\ h = Fresh
    /\ text = << >> /\ variant = "none" /\ port = -1 /\ configured = {} /\ result = << >>
-----------------------------------------------------------------------------
\* inbuf_getchar without its side effect
Ch == IF pos < Len(input) THEN input[pos + 1] ELSE "EOF"

Fail == pc' = "done" /\ UNCHANGED <<input, pos, printed, h, text, variant, port, configured, result>>

\* check_for_unix_domain_socket, and the beginning of parse_host
Start ==
    /\ pc = "start"
    /\ IF Ch \in {"/", "."}
       THEN /\ pc' = "done" /\ result' = <<[family |-> "UNIX", text |-> input]>>
            /\ UNCHANGED <<pos, h>>
       ELSE /\ pc' = "host" /\ UNCHANGED result
            /\ pos' = IF Ch = "[" THEN 1 ELSE 0
            /\ h' = [h EXCEPT !.ipv6 = (Ch = "[")]
    /\ UNCHANGED <<input, printed, text, variant, port, configured>>

HostEnds == Ch = "EOF" \/ (Ch = ":" /\ ~h.ipv6) \/ (Ch = "]" /\ h.ipv6)

\* What parse_host refuses at the next character.
Refused ==
    \/ h.ipv6 /\ Ch = ":" /\ (h.last > 4 \/ (h.colon /\ h.double))
    \/ h.ipv6 /\ Ch \in (Lower \ Hex) \cup {"-"}
    \/ h.ipv6 /\ Ch = "." /\ h.colons + (IF h.colon THEN 1 ELSE 0) = 0 /\ ~h.double
    \/ Ch \notin Lower \cup Digit \cup {"-", "."} /\ ~(h.ipv6 /\ Ch = ":")

AfterColon ==
    [h EXCEPT !.last = 0, !.dotted = FALSE, !.double = @ \/ h.colon, !.colon = TRUE]

\* Wrong on purpose: a third dot is one too many.
AfterOtherThirdDot ==
    [h EXCEPT !.colons = @ + (IF h.colon THEN 1 ELSE 0), !.colon = FALSE,
              !.last = @ + (IF Ch \in Digit \/ (h.ipv6 /\ Ch \in Hex) THEN 1 ELSE 0),
              !.digits = @ + (IF Ch \in Digit THEN 1 ELSE 0),
              !.dots = @ + (IF Ch = "." THEN 1 ELSE 0),
              !.dotted = /\ @ /\ (Ch \in Lower => h.ipv6 /\ Ch \in Hex) /\ Ch # "-"
                         /\ (Ch = "." => h.digits > 0 /\ h.dots < 2)]

\* The local variables after a letter, a digit, a hyphen or a dot.
AfterOther ==
    [h EXCEPT !.colons = @ + (IF h.colon THEN 1 ELSE 0), !.colon = FALSE,
              !.last = @ + (IF Ch \in Digit \/ (h.ipv6 /\ Ch \in Hex) THEN 1 ELSE 0),
              !.digits = @ + (IF Ch \in Digit THEN 1 ELSE 0),
              !.dots = @ + (IF Ch = "." THEN 1 ELSE 0),
              !.dotted = /\ @ /\ (Ch \in Lower => h.ipv6 /\ Ch \in Hex) /\ Ch # "-"
                         /\ (Ch = "." => h.digits > 0 /\ h.dots < 3)]

\* parse_host: the body of its loop
HostChar ==
    /\ pc = "host" /\ ~HostEnds
    /\ IF Refused THEN Fail
       ELSE /\ text' = Append(text, Ch) /\ pos' = pos + 1
            /\ h' = IF h.ipv6 /\ Ch = ":" THEN AfterColon ELSE AfterOther
            /\ UNCHANGED <<input, printed, pc, variant, port, configured, result>>

\* parse_host after its loop: a closing bracket is consumed
HostEnd ==
    /\ pc = "host" /\ HostEnds /\ pc' = "delimiter"
    /\ pos' = IF Ch = "]" THEN pos + 1 ELSE pos
    /\ variant' = CASE h.ipv6 -> "IPv6"
                    [] ~h.ipv6 /\ h.dotted /\ h.dots = 3 /\ h.digits > 0 -> "IPv4"
                    [] OTHER -> "HOSTNAME"
    /\ UNCHANGED <<input, printed, h, text, port, configured, result>>

\* parse_delimiter, which consumes the delimiter if it is there
ParseDelimiter(delimiter) == Ch = delimiter

\* get_addrinfo_results after parse_host
Delimiter ==
    /\ pc = "delimiter"
    /\ IF ParseDelimiter(":") THEN pc' = "port" /\ pos' = pos + 1 /\ port' = 0
       ELSE pc' = "lookup" /\ pos' = pos /\ port' = DefaultPort
    /\ UNCHANGED <<input, printed, h, text, variant, configured, result>>

\* parse_port
PortDigit ==
    /\ pc = "port" /\ Ch \in Digit
    /\ IF port * 10 + Value(Ch) > 65535 THEN Fail
       ELSE /\ port' = port * 10 + Value(Ch) /\ pos' = pos + 1
            /\ UNCHANGED <<input, printed, pc, h, text, variant, configured, result>>

PortEnd ==
    /\ pc = "port" /\ Ch \notin Digit
    /\ IF port = 0 THEN Fail
       ELSE pc' = "lookup" /\ UNCHANGED <<input, pos, printed, h, text, variant, port, configured, result>>

\* The hints of get_addrinfo_results: the families asked for, and whether
\* ai_flags is AI_ADDRCONFIG.  The case of IPv6 falls through to the one of
\* host names, so AF_INET6 is overwritten by AF_UNSPEC and the flag is set.
Hint == IF variant = "IPv4" THEN [families |-> {"INET"}, addrconfig |-> FALSE]
        ELSE [families |-> {"INET", "INET6"}, addrconfig |-> TRUE]

\* What getaddrinfo returns on a host with addresses of the families `on': the
\* address itself if the text is one of a family that is asked for, otherwise
\* what a name server says.  With AI_ADDRCONFIG an address is returned only if
\* the host has an address of its family, one that is given numerically, too.
Resolved(on) ==
    LET usable == IF Hint.addrconfig THEN Hint.families \cap on ELSE Hint.families
        same == {a \in Addresses : a.text = text /\ a.family \in Hint.families}
        Usable(list) == SelectSeq(list, LAMBDA a : a.family \in usable)
    IN IF same # {} THEN {Usable(<<a>>) : a \in same}
       ELSE {<< >>} \cup IF variant = "HOSTNAME" THEN {Usable(list) : list \in Answers} ELSE {}

\* get_hostport takes the first of the results, get_all_hostports all of them
\* in their order
GetHostport(list) == IF list = << >> THEN << >> ELSE <<Head(list)>>
GetAllHostports(list) == list

\* getaddrinfo and what is made of its list
Lookup ==
    /\ pc = "lookup" /\ pc' = "done"
    /\ configured' \in Configurations
    /\ \E list \in Resolved(configured') : result' \in {GetHostport(list), GetAllHostports(list)}
    /\ UNCHANGED <<input, pos, printed, h, text, variant, port>>

Next == \/ Start \/ HostChar \/ HostEnd \/ Delimiter \/ PortDigit \/ PortEnd \/ Lookup
        \/ pc = "done" /\ UNCHANGED vars

Spec == Init /\ [][Next]_vars
-----------------------------------------------------------------------------
(* The grammar of the documentation, with IPv6 as RFC 2373 means it: groups *)
(* of at most four digits, and an IPv4 address in place of the last two.    *)

Seq3(a, b, c) == Cat(a, Cat(b, c))
Alnum == Chr(Lower \cup Digit)
Label(first) == Cat(Chr(first), Star(Cat(Star(Chr({"-"})), Alnum)))
Hostname == Seq3(Star(Cat(Label(Lower \cup Digit), Chr({"."}))), Label(Lower), Opt(Chr({"."})))
Number == Plus(Chr(Digit))
Dotted == Cat(Number, Chr({"."}))
IPv4 == Seq3(Dotted, Dotted, Cat(Dotted, Number))
HexDigit == Chr(Hex \cup Digit)
Group == Cat(HexDigit, Opt(Cat(HexDigit, Opt(Cat(HexDigit, Opt(HexDigit))))))
Colon == Chr({":"})
HexSeq == Cat(Group, Star(Cat(Colon, Group)))
Double == Cat(Colon, Colon)
IPv6 == Alt(Seq3(Opt(HexSeq), Double, Alt(Cat(Star(Cat(Group, Colon)), IPv4), Opt(HexSeq))),
            Alt(Cat(Plus(Cat(Group, Colon)), IPv4), HexSeq))
Grammar == Seq3(Alt(Cap(1, IPv4), Alt(Cap(2, Hostname), Seq3(Chr({"["}), Cap(3, IPv6), Chr({"]"})))),
                Opt(Cat(Colon, Cap(4, Number))), End)

PortOf(digits) == FoldLeft(LAMBDA n, d : n * 10 + Value(d), 0, digits)

\* Every input that conforms to the grammar, with a port from 1 to 65535 or
\* none, is taken apart as the grammar says: the variant, the host's text and
\* the port.  An input with another port is refused.
ParsesGrammar == pc \in {"lookup", "done"} /\ input # << >> /\ input[1] # "." =>
    LET m == Exec(Grammar, 4, input, 0, FALSE)
        k == CHOOSE n \in 1 .. 3 : m.caps[n] # Unset
        Part(n) == SubSeq(input, m.caps[n][1] + 1, m.caps[n][2])
        wanted == IF m.caps[4] = Unset THEN DefaultPort ELSE PortOf(Part(4))
    IN m.kind = "match" =>
         IF m.caps[4] # Unset /\ wanted \notin 1 .. 65535 THEN pc = "done" /\ result = << >>
         ELSE variant = <<"IPv4", "HOSTNAME", "IPv6">>[k] /\ text = Part(k) /\ port = wanted

\* What print_sockaddr prints of an address and a port other than 0 is parsed
\* to that address and that port, and without the help of a name server; one of
\* IPv6 is refused, though, and nothing else is returned, on a host without IPv6.
PrintedIsParsed == printed # NotPrinted /\ printed.port # 0 /\ pc = "done" =>
    IF printed.family = "INET6" /\ "INET6" \notin configured THEN result = << >> /\ port = printed.port
    ELSE result = <<[family |-> printed.family, text |-> printed.text]>> /\ port = printed.port
=============================================================================
