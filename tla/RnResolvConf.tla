---------------------------- MODULE RnResolvConf ----------------------------
(***************************************************************************)
(* rn_resolv_conf_nameserver (src/rn_resolv_conf.c): one line of           *)
(* /etc/resolv.conf becomes an argument for nginx's resolver.  The line is *)
(* read character by character; characters are the classes the code tells  *)
(* apart, and the directive's name is one character.  "end" stands for the *)
(* characters other than blanks that end a field: the line endings, NUL    *)
(* and the comment marks.                                                  *)
(*                                                                         *)
(* A definition marked "Fault" is not used: it is the definition after it  *)
(* with a plausible mistake, which one of the properties below rules out.  *)
(***************************************************************************)
EXTENDS Naturals, Sequences, SequencesExt

CONSTANTS
    Capacity,   \* out_capacity
    MaxLine     \* bound: characters read of a line

\* Proper values of the constants.
ResolvConfConstants == Capacity \in Nat \ {0} /\ MaxLine \in Nat

VARIABLES
    text,       \* history: the characters read
    place,      \* where in the line: "lead", "keyword", "gap", "address", "done"
    address,    \* the address so far
    result      \* the kind returned, and what out holds

vars == <<text, place, address, result>>

Addressing == {"letter", "colon", "percent", "open", "close"}
Chars == Addressing \cup {"nameserver", "blank", "end"}

EndsField(c) == c \in {"blank", "end"}

NoResult == [kind |-> "none", out |-> <<>>]

Init ==
    /\ text = <<>> /\ place = "lead" /\ address = <<>>
    /\ result = NoResult

\* The test in rn_resolv_store.
Fits(len) == len + 1 <= Capacity

\* What rn_resolv_store leaves in out.
Stored(a) == IF Fits(Len(a)) THEN a ELSE SubSeq(a, 1, Capacity - 1)

Has(a, c) == \E j \in DOMAIN a : a[j] = c

Bracketed(a) == a[1] = "open"

Unusable(a) == [kind |-> "unusable", out |-> Stored(a)]

\* Fault: an IPv6 address is passed on as it is.
WrappedNot(a) == [kind |-> "inet6", out |-> a]

\* A bare IPv6 address gets the brackets nginx looks for.
Wrapped(a) == [kind |-> "inet6", out |-> <<"open">> \o a \o <<"close">>]

\* What becomes of a line whose address is a.
Classified(a) ==
    IF \/ a = <<>>
       \/ Has(a, "percent")
       \/ Bracketed(a) /\ (Len(a) < 3 \/ a[Len(a)] # "close")
    THEN Unusable(a)
    ELSE IF Bracketed(a) \/ ~Has(a, "colon")
    THEN IF ~Fits(Len(a)) THEN Unusable(a)
         ELSE [kind |-> IF Bracketed(a) THEN "inet6" ELSE "inet", out |-> a]
    ELSE IF Len(a) + 3 > Capacity THEN Unusable(a)
    ELSE Wrapped(a)

Reading == place # "done" /\ Len(text) < MaxLine

Lead(c) ==
    /\ Reading /\ place = "lead"
    /\ text' = Append(text, c)
    /\ place' = CASE c = "blank" -> "lead"
                  [] c = "nameserver" -> "keyword"
                  [] OTHER -> "done"
    /\ UNCHANGED <<address, result>>

\* The directive's name is a field of its own.
KeywordEnds(c) == EndsField(c)

\* The rest of the line, up to the end of the address.
Rest(c) ==
    /\ Reading /\ place \in {"keyword", "gap", "address"}
    /\ text' = Append(text, c)
    /\ IF place = "keyword" /\ ~KeywordEnds(c)
       THEN place' = "done" /\ UNCHANGED <<address, result>>
       ELSE IF ~EndsField(c)
       THEN place' = "address" /\ address' = Append(address, c) /\ UNCHANGED result
       ELSE IF c = "blank" /\ place # "address"
       THEN place' = "gap" /\ UNCHANGED <<address, result>>
       ELSE place' = "done" /\ result' = Classified(address) /\ UNCHANGED address

\* The text ends without a line ending.
EndOfText ==
    /\ place # "done"
    /\ place' = "done"
    /\ result' = IF place = "lead" THEN NoResult ELSE Classified(address)
    /\ UNCHANGED <<text, address>>

Next ==
    \/ \E c \in Chars : Lead(c)
    \/ \E c \in Addressing \cup {"blank", "end"} : Rest(c)
    \/ EndOfText

Spec == Init /\ [][Next]_vars

(***************************************************************************)
(* nginx reads the argument                                                *)
(***************************************************************************)

Invalid == [family |-> "invalid", host |-> <<>>]

\* External: what ngx_parse_url makes of a resolver argument.  A literal in
\* brackets ends at the first closing one; outside brackets a colon introduces
\* a port.
NginxReads(arg) ==
    IF Bracketed(arg)
    THEN LET j == CHOOSE k \in DOMAIN arg \cup {Len(arg) + 1} :
                     /\ k <= Len(arg) => arg[k] = "close"
                     /\ \A m \in 1..k - 1 : arg[m] # "close"
         IN  IF j # Len(arg) THEN Invalid
             ELSE [family |-> "inet6", host |-> SubSeq(arg, 2, j - 1)]
    ELSE IF Has(arg, "colon") THEN Invalid
    ELSE [family |-> "inet", host |-> arg]

(***************************************************************************)
(* Properties                                                              *)
(***************************************************************************)

\* Every variable keeps its type; out is terminated within its capacity,
\* whatever the line holds.
TypeOK ==
    /\ text \in Seq(Chars)
    /\ place \in {"lead", "keyword", "gap", "address", "done"}
    /\ address \in Seq(Addressing)
    /\ result.kind \in {"none", "inet", "inet6", "unusable"}
    /\ Len(result.out) + 1 <= Capacity

\* A line is taken for a nameserver exactly when its first field is the
\* directive's name and nothing else.
OnlyNameservers ==
    place = "done" =>
        (result.kind # "none") =
            \E j \in DOMAIN text :
                /\ text[j] = "nameserver"
                /\ \A k \in 1..j - 1 : text[k] = "blank"
                /\ j < Len(text) => EndsField(text[j + 1])

\* The host a line names: the address without its brackets.
Host(a) == IF Bracketed(a) THEN SubSeq(a, 2, Len(a) - 1) ELSE a

\* A host name, an IPv4 address, or an IPv6 address with or without brackets;
\* no zone.
WellFormed(a) ==
    /\ a # <<>> /\ Host(a) # <<>>
    /\ Bracketed(a) => a[Len(a)] = "close" /\ Has(a, "colon")
    /\ \A c \in {"open", "close", "percent"} : ~Has(Host(a), c)

\* The length of the argument for a.
Needed(a) == Len(Host(a)) + IF Has(a, "colon") THEN 2 ELSE 0

\* A well-formed nameserver is passed on if there is room, and nginx reads
\* from the argument the host and the family of the line, never a port.  What
\* is not passed on is reported, and nothing with a zone is passed on.
NginxReadsTheNameserver ==
    place = "done" /\ result.kind # "none" =>
        /\ WellFormed(address) /\ Needed(address) < Capacity =>
              /\ result.kind \in {"inet", "inet6"}
              /\ NginxReads(result.out)
                   = [family |-> result.kind, host |-> Host(address)]
              /\ (result.kind = "inet6") = Has(address, "colon")
        /\ Has(address, "percent") => result.kind = "unusable"
        /\ result.kind = "unusable" => IsPrefix(result.out, address)
=============================================================================
