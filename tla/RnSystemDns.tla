---------------------------- MODULE RnSystemDns ----------------------------
(***************************************************************************)
(* Which DNS resolver the module uses: ngx_http_rn_set_dns_resolver, the   *)
(* choice in ngx_http_rn_init and rn_create_system_dns_resolver, which     *)
(* reads /etc/resolv.conf.  fgets hands the file over in pieces: a line    *)
(* that is longer than the buffer comes in several, each of which is       *)
(* looked at as if it were a line.  RnResolvConf models what is seen in a  *)
(* piece; here a piece is a record of what was seen.                       *)
(*                                                                         *)
(* A definition marked "Fault" is not used: it is the definition after it  *)
(* with a plausible mistake, which one of the properties below rules out.  *)
(***************************************************************************)
EXTENDS Naturals, Sequences, SequencesExt

CONSTANTS
    MaxNames,   \* the length of names[]
    Addresses,  \* usable nameservers
    Inet6,      \* those of them that are IPv6 addresses
    HaveInet6,  \* NGX_HAVE_INET6
    MaxPieces   \* bound: pieces in the file

\* Proper values of the constants.
SystemDnsConstants ==
    /\ MaxNames \in Nat \ {0} /\ MaxPieces \in Nat
    /\ HaveInet6 \in BOOLEAN /\ Inet6 \subseteq Addresses
    /\ Addresses \cap {"none", "unusable", "localhost"} = {}

VARIABLES
    status,     \* "parsing", "init", "reading", "read", "running" or "failed"
    resolver,   \* mcf->resolver: "null", "own", "http" or "system"
    timeout,    \* mcf->resolver_timeout: "zero", "unset", "set" or "default"
    http,       \* the http block's resolver has connections
    http_timeout, \* the http block's resolver_timeout: "unset" (which nginx
                \* keeps as -1 there), "zero" or "set"
    own,        \* history: ratelimitly_dns_resolver was accepted
    names,      \* names[0 .. n - 1]
    pieces,     \* history: the pieces read
    within,     \* the next piece is in the middle of a line
    warned      \* history: pieces that were warned about

block == <<http, http_timeout>>
vars == <<status, resolver, timeout, block, own, names, pieces, within, warned>>

\* What is seen in a piece, and whether the piece begins a line.
Seen == Addresses \cup {"none", "unusable"}
Pieces == [seen : Seen, begins : BOOLEAN]

Init ==
    /\ status = "parsing" /\ resolver = "null" /\ timeout = "zero"
    /\ http \in BOOLEAN /\ http_timeout \in {"unset", "zero", "set"}
    /\ own = FALSE
    /\ names = <<>> /\ pieces = <<>> /\ within = FALSE /\ warned = {}

\* ratelimitly_dns_resolver; a second one is a duplicate.
SetDnsResolver(ok) ==
    /\ status = "parsing"
    /\ IF resolver = "null" /\ ok
       THEN resolver' = "own" /\ own' = TRUE /\ UNCHANGED status
       ELSE status' = "failed" /\ UNCHANGED <<resolver, own>>
    /\ UNCHANGED <<timeout, block, names, pieces, within, warned>>

EndOfFile ==
    /\ status = "parsing" /\ status' = "init"
    /\ UNCHANGED <<resolver, timeout, block, own, names, pieces, within, warned>>

\* The end of ngx_http_rn_init, which takes an unset value for a timeout.
DefaultTimeout(t) == IF t = "zero" THEN "default" ELSE t

\* Fault: the http block comes first.
PrefersHttp == http

\* The http block's resolver is only used in the absence of one's own.
UsesHttp == resolver = "null" /\ http

\* ngx_http_rn_init, in a configuration that enables the module.
Choose ==
    /\ status = "init" /\ (UsesHttp \/ resolver # "null")
    /\ resolver' = IF UsesHttp THEN "http" ELSE resolver
    /\ timeout' = DefaultTimeout(IF UsesHttp THEN http_timeout ELSE timeout)
    /\ status' = "running"
    /\ UNCHANGED <<block, own, names, pieces, within, warned>>

\* rn_create_system_dns_resolver opens the file, or cannot.
OpenFile(ok) ==
    /\ status = "init" /\ resolver = "null" /\ ~http
    /\ status' = IF ok THEN "reading" ELSE "read"
    /\ UNCHANGED <<resolver, timeout, block, own, names, pieces, within, warned>>

\* The two early continues: unusable, or IPv6 without support for it.
Usable(seen) == seen \in Addresses /\ (HaveInet6 \/ seen \notin Inet6)

\* Fault: off by one.
RoomTooMuch == Len(names) <= MaxNames

Room == Len(names) < MaxNames

\* fgets gives a piece; it is the last of its line unless `more' follows.
ReadPiece(seen, more) ==
    /\ status = "reading" /\ Room /\ Len(pieces) < MaxPieces
    /\ pieces' = Append(pieces, [seen |-> seen, begins |-> ~within])
    /\ within' = more
    /\ names' = IF Usable(seen) THEN Append(names, seen) ELSE names
    /\ warned' = IF seen # "none" /\ ~Usable(seen)
                 THEN warned \cup {Len(pieces) + 1} ELSE warned
    /\ UNCHANGED <<status, resolver, timeout, block, own>>

\* Memory for a name runs out; the file is closed.
NameFails(seen) ==
    /\ status = "reading" /\ Room /\ Len(pieces) < MaxPieces
    /\ Usable(seen)
    /\ status' = "failed"
    /\ UNCHANGED <<resolver, timeout, block, own, names, pieces, within, warned>>

\* The file ends, or there is no room for another name.
CloseFile ==
    /\ status = "reading"
    /\ status' = "read"
    /\ UNCHANGED <<resolver, timeout, block, own, names, pieces, within, warned>>

\* 127.0.0.1 when nothing usable was found.
NamesOrLocalhost == IF names = <<>> THEN <<"localhost">> ELSE names

\* ngx_resolver_create, and the rest of ngx_http_rn_init.
Create(ok) ==
    /\ status = "read"
    /\ names' = NamesOrLocalhost
    /\ IF ok THEN /\ resolver' = "system" /\ timeout' = DefaultTimeout(timeout)
                  /\ status' = "running"
             ELSE status' = "failed" /\ UNCHANGED <<resolver, timeout>>
    /\ UNCHANGED <<block, own, pieces, within, warned>>

Next ==
    \/ EndOfFile \/ Choose \/ CloseFile
    \/ \E ok \in BOOLEAN : SetDnsResolver(ok) \/ OpenFile(ok) \/ Create(ok)
    \/ \E seen \in Seen :
          \/ \E more \in BOOLEAN : ReadPiece(seen, more)
          \/ NameFails(seen)

Spec == Init /\ [][Next]_vars

(***************************************************************************)
(* Properties                                                              *)
(***************************************************************************)

\* Every variable keeps its type; names[] is not overrun.
TypeOK ==
    /\ status \in {"parsing", "init", "reading", "read", "running", "failed"}
    /\ resolver \in {"null", "own", "http", "system"}
    /\ timeout \in {"zero", "unset", "set", "default"}
    /\ http_timeout \in {"unset", "zero", "set"}
    /\ http \in BOOLEAN /\ own \in BOOLEAN /\ within \in BOOLEAN
    /\ names \in Seq(Addresses \cup {"localhost"}) /\ Len(names) <= MaxNames
    /\ pieces \in Seq(Pieces)
    /\ warned \subseteq DOMAIN pieces

\* A running configuration has a resolver and a timeout that is not zero, and
\* with the resolver of the http block the timeout that is set there.  The
\* module's own resolver is never replaced; the file is only read without any
\* other, and then nginx gets at least one name.
ResolverChosen ==
    status = "running" =>
        /\ resolver # "null" /\ timeout # "zero"
        /\ resolver = "http" /\ http_timeout = "set" => timeout = "set"
        /\ own = (resolver = "own")
        /\ resolver = "own" => names = <<>>
        /\ resolver = "http" => http /\ names = <<>> /\ pieces = <<>>
        /\ resolver = "system" => ~http /\ names # <<>>

\* The nameservers this nginx can talk to.
Reachable == IF HaveInet6 THEN Addresses ELSE Addresses \ Inet6

\* What the file names, in order, on the lines nginx can use.
Entries(list) ==
    LET first[k \in 0..Len(list)] ==
            IF k = 0 THEN <<>>
            ELSE IF list[k].begins /\ list[k].seen \in Reachable
                 THEN Append(first[k - 1], list[k].seen)
                 ELSE first[k - 1]
    IN  first[Len(list)]

\* As long as no line is longer than the buffer, nginx gets the usable
\* nameservers in file order, nothing else, and localhost only for want of
\* any; every other nameserver was warned about.
FileOrder ==
    (\A k \in DOMAIN pieces : pieces[k].begins) =>
        /\ status \in {"reading", "read"} => names = Entries(pieces)
        /\ status = "running" /\ resolver = "system" =>
              names = IF Entries(pieces) = <<>> THEN <<"localhost">>
                      ELSE Entries(pieces)
        /\ \A k \in DOMAIN pieces :
              (k \in warned) = (pieces[k].seen \notin Reachable \cup {"none"})

\* docs/configuration.md: at most the first MaxNames nameserver entries of the
\* file are read.
ReadsFirstEntries ==
    Len(SelectSeq(pieces, LAMBDA p : p.begins /\ p.seen # "none")) <= MaxNames

\* spec/implementation.md: the module captures resolver_timeout from the http
\* context, so the value set there is the one discovery uses.
HttpTimeoutUsed ==
    status = "running" /\ http_timeout = "set" => timeout = "set"
=============================================================================
