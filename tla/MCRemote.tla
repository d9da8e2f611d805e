------------------------------ MODULE MCRemote ------------------------------
(* Two paths. *)
EXTENDS RemoteSync, TLC
CONSTANTS p1, p2

Job(mode, delta)  == [mode |-> mode, delta |-> delta]
Bound(e, z, f, r) ==
    [edits |-> e, sizes |-> z, runs |-> r, faults |-> [k \in Faults |-> IF k \in f THEN 1 ELSE 0]]
Shared(s)         == [p \in Paths |-> IF p = p1 THEN s ELSE None]

Start(hears, open, met, channel) ==
    [net |-> [hears |-> hears, punch |-> channel = "open"], lan |-> open, known |-> met,
     p2p |-> channel]
OnRelay == Start({}, {}, {}, "none")
OnPeer  == Start({}, {}, {}, "open")
OnLan   == Start(Devices, Devices, Devices, "none")
OneLan  == Start({"A"}, {"A"}, {"A"}, "none")
Meeting == Start({"A"}, {}, {}, "none")
Met     == Start(Devices, {}, Devices, "none")

Case(mode, delta, size, start, edits, sizes, faults, runs) ==
    [job |-> Job(mode, delta), shared |-> Shared(size), start |-> start,
     budget |-> Bound(edits, sizes, faults, runs)]

MCCases ==
    {Case("bidir", TRUE, 2, OnRelay, 2, {1}, {}, 2),
     Case("bidir", FALSE, 1, OnRelay, 1, {1}, {"crash"}, 2),
     Case("bidir", TRUE, 2, OnRelay, 1, {2}, {"late"}, 2),
     Case("bidir", FALSE, 1, OnLan, 1, {1}, {"break"}, 1),
     Case("bidir", TRUE, 2, OnPeer, 1, {2}, {"break"}, 1),
     Case("bidir", FALSE, 2, Meeting, 1, {2}, {}, 2),
     Case("bidir", FALSE, 2, OneLan, 1, {2}, {"late", "cancel"}, 2),
     Case("bidir", FALSE, 0, OnPeer, 1, {0}, {}, 2),
     Case("mirror", TRUE, 2, OnRelay, 1, {2}, {"break"}, 2),
     Case("backup-with-deletes", TRUE, 2, OnRelay, 2, {2}, {}, 2)}
=============================================================================
