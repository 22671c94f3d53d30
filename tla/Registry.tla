------------------------------ MODULE Registry ------------------------------
(* pkg/transport/registry.go: a map of connections in shards, each with its   *)
(* own lock.  A call is one of Snapshot or SnapshotWithIDs, or of Range with  *)
(* a function that always returns true; what it returns or visits is got.     *)
EXTENDS Fanout

RegistryAdd(w) ==
    /\ Of("registry") /\ Join(w, shardIndex[w])
    /\ UNCHANGED <<call, job, held, chan, gor, conn, wkr, ring, down, got, past>>

RegistryRemove(w) ==
    /\ Of("registry") /\ Asked /\ Leave(w, shardIndex[w])
    /\ past' = [past EXCEPT !.removes = @ + 1]
    /\ UNCHANGED <<call, job, held, chan, gor, conn, wkr, ring, down, got>>

\* One shard after the other, each under its lock.
RegistrySnapshot(k) ==
    LET i == call[k].at
        W == Range(Elements(slice[i])) IN
    /\ Of("registry")
    /\ \/ /\ Begin(k)
          /\ call' = [call EXCEPT ![k].pc = "open"]
          /\ UNCHANGED <<got, past>>
       \/ /\ call[k].pc = "open" /\ i < numShards
          /\ call' = [call EXCEPT ![k].at = @ + 1]
          /\ got' = [w \in Writer |-> IF w \in W THEN Append(got[w], k) ELSE got[w]]
          /\ owes' = [owes EXCEPT ![k] = @ \ W]
          /\ UNCHANGED <<may, past>>
       \/ /\ call[k].pc = "open" /\ i = numShards
          /\ call' = Returned(k, call[k].err)
          /\ UNCHANGED <<got, log>>
    /\ UNCHANGED <<slice, job, held, chan, gor, conn, wkr, ring, down>>

=============================================================================
