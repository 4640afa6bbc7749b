-------------------------- MODULE MCRemoteBazelRun --------------------------
EXTENDS RemoteBazelRun

MCUserFiles == {[name |-> "u1", dir |-> "root", art |-> FALSE],
                [name |-> "u2", dir |-> "sub", art |-> FALSE]}
MCFilesOf == [s \in {"s1", "s2"} |-> IF s = "s1" THEN {"a1"} ELSE {"a2"}]
=============================================================================
