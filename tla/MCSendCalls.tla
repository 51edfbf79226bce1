----------------------------- MODULE MCSendCalls -----------------------------
(***************************************************************************)
(* SendCalls for TLC.  Simple calls cost 1, contract calls 2; amounts are   *)
(* below 16, and the account starts with 12.  The jobs are a transfer of a   *)
(* given amount and one of everything, a raw command of an EOA with three    *)
(* calls and a cheap first one, one with values that wrap, one of a smart     *)
(* account, an empty one, and the publication of a root.                      *)
(***************************************************************************)
EXTENDS SendCalls

Simple(v) == [value |-> v, fee |-> 1]
Contract(v) == [value |-> v, fee |-> 2]

AJob(kind, smart, interactive, broadcast, max, calls) ==
    [kind |-> kind, smart |-> smart, interactive |-> interactive,
     broadcast |-> broadcast, max |-> max, calls |-> calls]

MCJobs == {
    AJob("transfer", FALSE, TRUE, FALSE, FALSE, <<Simple(9)>>),
    AJob("transfer", TRUE, FALSE, TRUE, TRUE, <<Simple(0)>>),
    AJob("raw", FALSE, TRUE, FALSE, FALSE, <<Simple(2), Contract(0), Simple(1)>>),
    AJob("raw", FALSE, FALSE, TRUE, FALSE, <<Simple(1), Contract(4)>>),
    AJob("raw", FALSE, FALSE, TRUE, FALSE, <<Simple(15), Simple(2)>>),
    AJob("raw", TRUE, TRUE, TRUE, FALSE, <<Contract(3), Contract(0)>>),
    AJob("raw", FALSE, FALSE, FALSE, FALSE, <<>>),
    AJob("claim", FALSE, FALSE, TRUE, FALSE, <<Contract(0)>>),
    AJob("publish", FALSE, FALSE, TRUE, FALSE, <<Contract(0)>>) }

=============================================================================
