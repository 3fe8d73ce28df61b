------------------------------- MODULE RnParts -------------------------------
(***************************************************************************)
(* The parts of the module that do one thing and keep nothing afterwards:  *)
(* reading numbers and rates, the latency sample, the request policy, a    *)
(* line of resolv.conf and the choice of a resolver.  They share no state; *)
(* `part' is the one that runs, and the others stay as they were           *)
(* initially.  The policy's variables and constants are those of RnPolicy; *)
(* the other parts are instances, with constants of their own so that each *)
(* can be scaled down to what TLC reaches.                                 *)
(***************************************************************************)
EXTENDS RnPolicy

CONSTANTS
    NumberMax, NumberSecondMs,  \* U32Max and SecondMs of RnParse
    Digits, MaxLen,
    SampleMax, SampleSecondMs,  \* U32Max and SecondMs of RnLatency
    Steps, MaxClock,
    Capacity, MaxLine,          \* RnResolvConf
    MaxNames, Addresses,        \* RnSystemDns
    Inet6, HaveInet6, MaxPieces

VARIABLES
    part,
    job, phase, number, rate, unit, parsed, text,           \* RnParse
    sec, msec, start_sec, start_msec, sample, elapsed,      \* RnLatency
    steady,
    line, place, address, result,                           \* RnResolvConf
    status, resolver, timeout, http, http_timeout, own,     \* RnSystemDns
    names, pieces, within, warned

Parse == INSTANCE RnParse
    WITH U32Max <- NumberMax, SecondMs <- NumberSecondMs,
         value <- number, out <- parsed

Latency == INSTANCE RnLatency
    WITH U32Max <- SampleMax, SecondMs <- SampleSecondMs

ResolvConf == INSTANCE RnResolvConf WITH text <- line

SystemDns == INSTANCE RnSystemDns

ASSUME PartsAssumption ==
    /\ Parse!ParseConstants /\ Latency!LatencyConstants
    /\ ResolvConf!ResolvConfConstants /\ SystemDns!SystemDnsConstants

parse == <<job, phase, number, rate, unit, parsed, text>>
latency == <<sec, msec, start_sec, start_msec, sample, elapsed, steady>>
resolv_conf == <<line, place, address, result>>
system_dns == <<status, resolver, timeout, http, http_timeout, own, names,
                pieces, within, warned>>

partsVars == <<part, parse, latency, vars, resolv_conf, system_dns>>

\* A part that does not run has one initial state.
PartsInit ==
    /\ part \in {"parse", "latency", "policy", "resolv_conf", "system_dns"}
    /\ Parse!Init /\ (part # "parse" => job = "u32")
    /\ Latency!Init /\ (part # "latency" => sec = 0 /\ msec = 0)
    /\ Init
    /\ ResolvConf!Init
    /\ SystemDns!Init
    /\ part # "system_dns" => ~http /\ http_timeout = "unset"

\* A part that has done its work stops; anything else that stops is stuck.
Finished ==
    \/ part = "parse" /\ ~Parse!Scanning
    \/ part = "latency" /\ ~Latency!Open
    \/ part = "policy" /\ step \in {"loaded", "failed"}
    \/ part = "resolv_conf" /\ place = "done"
    \/ part = "system_dns" /\ status \in {"running", "failed"}

PartsNext ==
    \/ /\ part = "parse" /\ Parse!Next
       /\ UNCHANGED <<part, latency, vars, resolv_conf, system_dns>>
    \/ /\ part = "latency" /\ Latency!Next
       /\ UNCHANGED <<part, parse, vars, resolv_conf, system_dns>>
    \/ /\ part = "policy" /\ Next
       /\ UNCHANGED <<part, parse, latency, resolv_conf, system_dns>>
    \/ /\ part = "resolv_conf" /\ ResolvConf!Next
       /\ UNCHANGED <<part, parse, latency, vars, system_dns>>
    \/ /\ part = "system_dns" /\ SystemDns!Next
       /\ UNCHANGED <<part, parse, latency, vars, resolv_conf>>
    \/ Finished /\ UNCHANGED partsVars

PartsSpec == PartsInit /\ [][PartsNext]_partsVars

(***************************************************************************)
(* Properties                                                              *)
(***************************************************************************)

\* Every variable keeps its type and every buffer its length: numbers and
\* samples stay within 32 bits, names[] of rn_create_system_dns_resolver and
\* the argument made from a line are not overrun.
TypesOK ==
    /\ Parse!TypeOK /\ Latency!TypeOK /\ TypeOK
    /\ ResolvConf!TypeOK /\ SystemDns!TypeOK

\* rn_numeric_parse_u32 and rn_numeric_parse_rate accept exactly the numbers
\* and rates in range, digit by digit and through the conversion of the period
\* to milliseconds, and store exactly what they denote.
NumbersExact == Parse!AcceptsExactly /\ Parse!RejectsExactly

\* The sample ngx_http_rn_log_handler reports is the time the request took,
\* within its limits; a clock that was set back makes it neither 0, which
\* satisfies every guard, nor enormous.
SampleExact == Latency!SampleIsLatency /\ Latency!SetBackIsHarmless

\* A line is taken for a nameserver exactly when it is one, and nginx reads
\* from the argument made of it the host and the family of the line.
NameserverExact ==
    ResolvConf!OnlyNameservers /\ ResolvConf!NginxReadsTheNameserver

\* ngx_http_rn_init uses the module's own resolver, else that of the http
\* block, with the timeout set there, else the usable nameservers of the file
\* in file order, else localhost.
ResolverExact == SystemDns!ResolverChosen /\ SystemDns!FileOrder
=============================================================================
