---------------------------- MODULE MCWorkerJobs ----------------------------
(* Two jobs of a pipeline after each other, or one challan. *)
EXTENDS WorkerJobs

CONSTANTS o1, o2, u1, u2, w1, w2, w3, f1, f2, f3, i1, c1, c2

MCQueues == {<<"sheet", "sheet">>, <<"mail", "mail">>, <<"hops", "hops">>, <<"challan">>}

MCTyped == {{}, {<<o1, FALSE>>}, {<<o2, TRUE>>}}

MCUcWarehouse == (o1 :> w1 @@ o2 :> w2)
MCSheets == {(o1 :> NoWarehouse @@ o2 :> w1)}
MCDirectory == <<w2, w1>>
MCPart == {<<w1, w2>>, <<w2, w1>>}
MCSame == {<<w1, w3>>, <<w3, w1>>}

MCPreferred == <<f1>>
MCListed == <<f3, f2, f1>>
MCInvoicesOf == (o1 :> <<i1>> @@ o2 :> << >>)

MCRow == [qty : {1, 2}, amt : {50, 200000}, cents : {8}, footer : 0 .. 3, tall : {3}]
MCPlainRow == [qty : {1}, amt : {50}, cents : {8}, footer : {0}, tall : {1, 4}]
MCNotes ==
    [rows : UNION {[1 .. n -> MCRow] : n \in 1 .. 2}, breaks : {{}, {1}}, labelled : BOOLEAN]
        \cup [rows : UNION {[1 .. n -> MCPlainRow] : n \in 2 .. 4}, breaks : {{}}, labelled : {TRUE}]

(* The world of a pipeline that has no job here is one of its worlds; of   *)
(* the two orders that are looked up, the second is at f2 at first.        *)
Idles(kind) == kind \notin ToSet(waiting)
MCInit ==
    /\ WorkerInit
    /\ Idles("sheet") => name = "Master" /\ mirror = "plain" /\ source = {}
    /\ Idles("mail") => pickup = (o1 :> NoWarehouse @@ o2 :> w1)
    /\ owner[o2] = f2 /\ (Idles("hops") => owner[o1] = f1)
MCSpec == MCInit /\ [][WorkerNext]_workerVars
=============================================================================
