---------------------------- MODULE MCRnRequest ----------------------------
(***************************************************************************)
(* Small instances of RnRequest for TLC.                                   *)
(***************************************************************************)
EXTENDS RnRequest, TLC

Lcf(enabled, report, guards, resources) ==
    [enabled |-> enabled, report_enabled |-> report, guards |-> guards,
     resources |-> resources]

\* An unprotected location, a protected one, one that also reports its
\* latency, and one that only reports.
MCConf == [l \in Locations |->
             CASE l = "off" -> Lcf(FALSE, FALSE, 0, 0)
               [] l = "limited" -> Lcf(TRUE, FALSE, 0, 1)
               [] l = "guarded" -> Lcf(TRUE, TRUE, 1, 1)
               [] l = "report" -> Lcf(FALSE, TRUE, 0, 0)]

\* Every combination of the server's verdict, the guard and the deficit, and
\* answers with a resource or the guard missing.
MCResults ==
    {Result(s, <<g>>, <<d>>) : s \in BOOLEAN, g \in BOOLEAN, d \in {0, 1}}
       \cup {Result(TRUE, <<TRUE>>, <<>>), Result(FALSE, <<>>, <<0>>)}

MCSymmetry == Permutations(Requests) \cup Permutations(Handles)
=============================================================================
